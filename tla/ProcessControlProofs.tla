------------------------ MODULE ProcessControlProofs ------------------------
(* Theorems about ProcessControl, for every combination of faults.         *)
EXTENDS ProcessControl, TLAPS

(* Only a process that was started can be terminated, by the calls of its  *)
(* platform.                                                               *)
CallsFit ==
  /\ call # "idle" \/ result = "ok" => known
  /\ call \in {"inspecting", "verifying", "verified", "grouped"} => platform = "linux"
  /\ call = "opened" => platform = "windows"

(* A known leader that ended before its child is an orphan's leader.       *)
OrphansMarked ==
  platform = "linux" /\ known /\ holder # "leader" /\ ~orphan
    => child # "alive"

IInv == TypeOK /\ CallsFit /\ OrphansMarked /\ TerminatedIsDead

(* From the last verification on the number is the runner's.  A foreign    *)
(* process that has it before was either seen or will be.                  *)
NumberHeld ==
  /\ call \in {"verified", "grouped"} => holder \notin Foreign
  /\ call = "verifying" /\ holder \in Foreign => marker = "foreign"
  /\ platform = "windows" => marker = "none"
  /\ platform = "windows" /\ call = "inspected" => holder \notin Foreign
  /\ call = "opened" => target = "leader" /\ holder \in {"leader", "zombie"}

Verified == TypeOK /\ NumberHeld /\ OnlyOwnSignalled

-----------------------------------------------------------------------------
(* The steps, in groups: processes and the system, verifications, kills.   *)

Lives ==
  Start \/ ReadIdentity \/ ReadIdentityFails \/ Spawn \/ LeaderExits
  \/ ChildExits \/ Reap \/ Restart \/ Reuse \/ ForeignExits

Verifies ==
  Terminate \/ LinuxInspect \/ LinuxVerify \/ LinuxVerified \/ LinuxGetpgid
  \/ WindowsOpen

Kills == LinuxKill \/ WindowsKill

LEMMA Groups == Next <=> Lives \/ Verifies \/ Kills
BY DEF Next, Lives, Verifies, Kills

LEMMA InitIInv == Init => IInv
BY DEF Init, IInv, TypeOK, CallsFit, OrphansMarked, TerminatedIsDead, Holder

LEMMA LivesTypeOK ==
  ASSUME TypeOK, Lives
  PROVE  TypeOK'
<1> USE DEF callVars, history, Foreign, Holder
<1>1. CASE LeaderExits
  <2>1. orphan' \in BOOLEAN /\ holder' = "zombie"
        /\ UNCHANGED <<platform, child, cmd, known, callVars, struck>>
    BY <1>1 DEF LeaderExits
  <2> QED BY <2>1 DEF TypeOK
<1>2. CASE Start
  BY <1>2 DEF TypeOK, Start
<1>3. CASE ReadIdentity
  BY <1>3 DEF TypeOK, ReadIdentity
<1>4. CASE ReadIdentityFails
  BY <1>4 DEF TypeOK, ReadIdentityFails
<1>5. CASE Spawn
  BY <1>5 DEF TypeOK, Spawn
<1>6. CASE ChildExits
  BY <1>6 DEF TypeOK, ChildExits
<1>7. CASE Reap
  <2>1. holder' = "free" /\ cmd' = FALSE
        /\ UNCHANGED <<platform, child, known, callVars, history>>
    BY <1>7 DEF Reap
  <2>2. holder' \in Holder /\ cmd' \in BOOLEAN /\ known' \in BOOLEAN
    BY <2>1 DEF TypeOK
  <2> QED BY <2>1, <2>2 DEF TypeOK
<1>8. CASE Restart
  BY <1>8 DEF TypeOK, Restart
<1>9. CASE Reuse
  BY <1>9 DEF TypeOK, Reuse
<1>10. CASE ForeignExits
  BY <1>10 DEF TypeOK, ForeignExits
<1> QED BY <1>1, <1>2, <1>3, <1>4, <1>5, <1>6, <1>7, <1>8, <1>9, <1>10 DEF Lives

LEMMA LivesIInv ==
  ASSUME IInv, Lives
  PROVE  IInv'
<1> USE DEF callVars, history, Foreign, Holder
<1>1. TypeOK'
  BY LivesTypeOK DEF IInv
<1>2. CallsFit'
  BY DEF IInv, TypeOK, CallsFit, Lives, Start, ReadIdentity,
         ReadIdentityFails, Spawn, LeaderExits, ChildExits, Reap, Restart,
         Reuse, ForeignExits
<1>3. OrphansMarked'
  BY DEF IInv, TypeOK, OrphansMarked, Starting, Lives, Start, ReadIdentity,
         ReadIdentityFails, Spawn, LeaderExits, ChildExits, Reap, Restart,
         Reuse, ForeignExits
<1>4. TerminatedIsDead'
  BY DEF IInv, TypeOK, TerminatedIsDead, Starting, Lives, Start, ReadIdentity,
         ReadIdentityFails, Spawn, LeaderExits, ChildExits, Reap, Restart,
         Reuse, ForeignExits
<1> QED BY <1>1, <1>2, <1>3, <1>4 DEF IInv

(* A verification returns success for a process that is gone only.         *)
LEMMA MissingIsDead == "missing" \in Inspect => holder # "leader"
BY DEF Inspect, Gone, Foreign

LEMMA VerifiesIInv ==
  ASSUME IInv, Verifies
  PROVE  IInv'
<1> USE DEF callVars, history, Foreign, Holder, Return
<1>1. UNCHANGED <<platform, holder, child, cmd, known, history>>
  BY DEF Verifies, Terminate, LinuxInspect, LinuxVerify, LinuxVerified,
         LinuxGetpgid, WindowsOpen
<1>2. TypeOK'
  BY <1>1 DEF IInv, TypeOK, Verifies, Terminate, LinuxInspect, LinuxVerify,
              LinuxVerified, LinuxGetpgid, WindowsOpen, Inspected, ReadMarker
<1>3. CallsFit'
  BY <1>1 DEF IInv, TypeOK, CallsFit, Verifies, Terminate, LinuxInspect,
              LinuxVerify, LinuxVerified, LinuxGetpgid, WindowsOpen, Inspected,
              ReadMarker
<1>4. OrphansMarked'
  BY <1>1 DEF IInv, OrphansMarked
<1>5. TerminatedIsDead'
  BY <1>1, MissingIsDead
  DEF IInv, TypeOK, TerminatedIsDead, Verifies, Terminate, LinuxInspect,
      LinuxVerify, LinuxVerified, LinuxGetpgid, WindowsOpen, Inspected, ReadMarker
<1> QED BY <1>2, <1>3, <1>4, <1>5 DEF IInv

LEMMA KillsIInv ==
  ASSUME IInv, Kills
  PROVE  IInv'
<1> USE DEF Foreign, Holder, Return
<1>1. TypeOK'
  BY DEF IInv, TypeOK, Kills, LinuxKill, WindowsKill
<1>2. CallsFit'
  BY DEF IInv, TypeOK, CallsFit, Kills, LinuxKill, WindowsKill
<1>3. OrphansMarked'
  BY DEF IInv, TypeOK, CallsFit, OrphansMarked, Kills, LinuxKill, WindowsKill
<1>4. TerminatedIsDead'
  BY DEF IInv, TypeOK, TerminatedIsDead, Kills, LinuxKill, WindowsKill
<1> QED BY <1>1, <1>2, <1>3, <1>4 DEF IInv

LEMMA StepIInv ==
  ASSUME IInv, [Next]_vars
  PROVE  IInv'
<1>1. CASE UNCHANGED vars
  BY <1>1 DEF vars, IInv, TypeOK, CallsFit, OrphansMarked, TerminatedIsDead
<1>2. CASE Next
  BY <1>2, Groups, LivesIInv, VerifiesIInv, KillsIInv
<1> QED BY <1>1, <1>2

(* A verified call belongs to a process that was started, and a leader     *)
(* that is gone took its child with it or left it an orphan.               *)
THEOREM IInvariance == Spec => []IInv
BY InitIInv, StepIInv, PTL DEF Spec

THEOREM TypeCorrect == Spec => []TypeOK
<1>1. IInv => TypeOK
  BY DEF IInv
<1> QED BY <1>1, IInvariance, PTL

(* A termination that succeeds leaves no leader alive (manager.go:155-167  *)
(* over process_linux.go and process_windows.go).                          *)
THEOREM TerminationKills == Spec => []TerminatedIsDead
<1>1. IInv => TerminatedIsDead
  BY DEF IInv
<1> QED BY <1>1, IInvariance, PTL

(* Nor, on Linux, a child, unless the leader had ended by itself before    *)
(* it (process_linux.go:68-82).                                            *)
THEOREM TerminationStopsGroup == Spec => []GroupStopped
<1>1. IInv => GroupStopped
  BY DEF IInv, CallsFit, OrphansMarked, TerminatedIsDead, GroupStopped
<1> QED BY <1>1, IInvariance, PTL

-----------------------------------------------------------------------------
(* Numbers that are not reused during a call. *)

LEMMA InitVerified == Init => Verified
BY DEF Init, Verified, TypeOK, NumberHeld, OnlyOwnSignalled, Holder

LEMMA LivesVerified ==
  ASSUME "window" \notin Faults, Verified, TypeOK', Lives
  PROVE  Verified'
<1> USE DEF callVars, history, Foreign
<1>1. struck' = struck
  BY DEF Lives, Start, ReadIdentity, ReadIdentityFails, Spawn, LeaderExits,
         ChildExits, Reap, Restart, Reuse, ForeignExits
<1>2. NumberHeld'
  <2>1. CASE Reuse
    BY <2>1 DEF Verified, TypeOK, NumberHeld, Reuse, InWindow
  <2>2. CASE Lives /\ ~Reuse
    BY <2>2 DEF Verified, TypeOK, NumberHeld, Lives, Start, ReadIdentity,
           ReadIdentityFails, Spawn, LeaderExits, ChildExits, Reap, Restart,
           ForeignExits
  <2> QED BY <2>1, <2>2
<1> QED BY <1>1, <1>2 DEF Verified, OnlyOwnSignalled

LEMMA VerifiesVerified ==
  ASSUME CallsFit, Verified, TypeOK', Verifies
  PROVE  Verified'
<1> USE DEF history, Foreign, Return
<1>1. holder' = holder /\ struck' = struck
  BY DEF Verifies, Terminate, LinuxInspect, LinuxVerify, LinuxVerified,
         LinuxGetpgid, WindowsOpen
<1>2. "matches" \in Inspect => holder = "leader" \/ marker = "leader"
  BY DEF Inspect, Gone
<1>3. NumberHeld'
  <2>1. CASE Terminate
    BY <1>1, <1>2, <2>1 DEF Verified, TypeOK, NumberHeld, Terminate, Inspected, ReadMarker
  <2>2. CASE LinuxInspect
    BY <1>1, <1>2, <2>2 DEF Verified, TypeOK, CallsFit, NumberHeld, LinuxInspect, Inspected
  <2>3. CASE LinuxVerify
    BY <1>1, <1>2, <2>3 DEF Verified, TypeOK, NumberHeld, LinuxVerify, ReadMarker
  <2>4. CASE LinuxVerified
    BY <1>1, <1>2, <2>4 DEF Verified, TypeOK, CallsFit, NumberHeld, LinuxVerified, Inspected
  <2>5. CASE LinuxGetpgid \/ WindowsOpen
    BY <1>1, <2>5 DEF Verified, TypeOK, NumberHeld, LinuxGetpgid, WindowsOpen, Holder
  <2> QED BY <2>1, <2>2, <2>3, <2>4, <2>5 DEF Verifies
<1> QED BY <1>1, <1>3 DEF Verified, OnlyOwnSignalled

LEMMA KillsVerified ==
  ASSUME Verified, TypeOK', Kills
  PROVE  Verified'
BY DEF Verified, NumberHeld, OnlyOwnSignalled, Kills, LinuxKill, WindowsKill,
       Return, Foreign

LEMMA StepVerified ==
  ASSUME "window" \notin Faults, IInv, IInv', Verified, [Next]_vars
  PROVE  Verified'
<1>1. CASE UNCHANGED vars
  BY <1>1 DEF vars, Verified, TypeOK, NumberHeld, OnlyOwnSignalled
<1>2. CASE Next
  BY <1>2, Groups, LivesVerified, VerifiesVerified, KillsVerified DEF IInv
<1> QED BY <1>1, <1>2

(* No foreign process is signalled, also when the number of the runner is  *)
(* reused during the call, unless that happens between the last read of    *)
(* the start marker and the kill or the opening of the handle              *)
(* (manager.go:155-167, process_linux.go:58-100, process_windows.go:61-68). *)
THEOREM ForeignersSpared ==
  ASSUME "window" \notin Faults PROVE Spec => []OnlyOwnSignalled
<1>1. Verified => OnlyOwnSignalled
  BY DEF Verified
<1> QED BY <1>1, InitVerified, StepVerified, IInvariance, PTL DEF Spec

=============================================================================
