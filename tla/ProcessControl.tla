--------------------------- MODULE ProcessControl ---------------------------
(***************************************************************************)
(* How a runner process is started, verified and killed: Manager.terminate *)
(* (internal/runner/manager.go) over NativeProcessController of either     *)
(* platform (process_linux.go, process_windows.go).                        *)
(*                                                                         *)
(* One runner: run.sh or cmd.exe is the leader; a child stands for the     *)
(* runner and its jobs.  A recorded identity names a number that anybody's *)
(* process may hold by the time it is used, so every system call is a step *)
(* of its own and processes end, are reaped and get reused numbers between *)
(* the steps.                                                              *)
(***************************************************************************)

CONSTANTS Faults  \* see the actions that consult it

ASSUME FaultsAssumption ==
  Faults \subseteq {"identity", "window", "restart"}

VARIABLES
  platform,  \* which build runs
  holder,    \* who holds the number that the runner got
  child,     \* the leader's descendant; on Linux it is in its process group
  cmd,       \* exec.Cmd: not waited for, so that the number is not released
  known,     \* the identity that Start returned and the manifest records
  call,      \* how far Manager.terminate is
  marker,    \* whose start marker a Linux verification has read
  target,    \* what the handle opened by the Windows Terminate refers to
  result,    \* what the last call returned
  \* History, for the properties.
  struck,    \* whose processes were signalled so far
  orphan     \* the leader has ended by itself before its child

vars == <<platform, holder, child, cmd, known, call, marker, target, result,
          struck, orphan>>

\* "zombie": exited, but nobody has waited for it.  "chief" is a foreign
\* process that leads a process group, "other" one that does not.
Holder == {"free", "leader", "zombie", "other", "chief"}
Foreign == {"other", "chief"}

TypeOK ==
  /\ platform \in {"linux", "windows"}
  /\ holder \in Holder
  /\ child \in {"none", "alive", "dead"}
  /\ cmd \in BOOLEAN
  /\ known \in BOOLEAN
  /\ call \in {"idle", "inspecting", "inspected", "verifying", "verified",
               "grouped", "opened"}
  /\ marker \in {"none", "leader", "foreign"}
  /\ target \in {"none", "leader"} \cup Foreign
  /\ result \in {"none", "ok", "error", "start_failed"}
  /\ struck \subseteq {"own", "foreign"}
  /\ orphan \in BOOLEAN

Init ==
  /\ platform \in {"linux", "windows"}
  /\ holder = "free" /\ child = "none"
  /\ cmd = FALSE /\ known = FALSE
  /\ call = "idle" /\ marker = "none" /\ target = "none"
  /\ result = "none" /\ struck = {} /\ orphan = FALSE

callVars == <<call, marker, target, result>>
history == <<struck, orphan>>

-----------------------------------------------------------------------------
(* Processes and the operating system. *)

\* command.Start; the leader runs before its identity is read.
Start ==
  /\ holder = "free" /\ child = "none" /\ ~known /\ result = "none"
  /\ holder' = "leader" /\ cmd' = TRUE
  /\ UNCHANGED <<platform, child, known, callVars, history>>

Starting == cmd /\ ~known /\ result = "none"

ReadIdentity ==
  /\ Starting /\ holder = "leader"
  /\ known' = TRUE
  /\ UNCHANGED <<platform, holder, child, cmd, callVars, history>>

\* The identity cannot be read: Start kills the leader alone and never waits.
ReadIdentityFails ==
  /\ Starting
  /\ "identity" \in Faults \/ holder = "zombie"
  /\ holder' = "zombie"
  /\ result' = "start_failed"
  /\ UNCHANGED <<platform, child, cmd, known, call, marker, target, history>>

Spawn ==
  /\ holder = "leader" /\ child = "none"
  /\ child' = "alive"
  /\ UNCHANGED <<platform, holder, cmd, known, callVars, history>>

\* The leader ends by itself; its descendants may live on.  On Windows a
\* cancelled context also kills it: CommandContext keeps its default Cancel.
LeaderExits ==
  /\ holder = "leader"
  /\ holder' = "zombie"
  /\ orphan' = (child = "alive")
  /\ UNCHANGED <<platform, child, cmd, known, callVars, struck>>

ChildExits ==
  /\ child = "alive"
  /\ child' = "dead"
  /\ UNCHANGED <<platform, holder, cmd, known, callVars, history>>

\* Wait returns in its goroutine; an orphan is reaped by the system.
Reap ==
  /\ holder = "zombie" /\ (cmd => known)
  /\ target # "leader"
  /\ holder' = "free" /\ cmd' = FALSE
  /\ UNCHANGED <<platform, child, known, callVars, history>>

\* The participant dies, the runner stays; the next incarnation has the
\* recorded identity only.
Restart ==
  /\ "restart" \in Faults /\ cmd
  /\ cmd' = FALSE
  /\ call' = "idle" /\ marker' = "none" /\ target' = "none"
  /\ UNCHANGED <<platform, holder, child, known, result, history>>

\* From the last read of the start marker until the kill, or, on Windows,
\* until the handle is open.
InWindow ==
  \/ call \in {"verifying", "verified", "grouped"}
  \/ platform = "windows" /\ call = "inspected"

\* The number of a process group is in use as long as a member lives; a
\* Windows number is in use while a handle is open.
Reuse ==
  /\ holder = "free" /\ known
  /\ platform = "linux" => child # "alive"
  /\ "window" \in Faults \/ ~InWindow
  /\ holder' \in Foreign
  /\ UNCHANGED <<platform, child, cmd, known, callVars, history>>

ForeignExits ==
  /\ holder \in Foreign /\ target = "none"
  /\ holder' = "free"
  /\ UNCHANGED <<platform, child, cmd, known, callVars, history>>

-----------------------------------------------------------------------------
(* Manager.terminate. *)

\* A Linux zombie has no executable link and counts as missing; a Windows one
\* has no image name, which is an error.
Gone == holder = "free" \/ (platform = "linux" /\ holder = "zombie")

InspectAnyError ==
  CASE Gone -> {"missing"}
    [] holder = "leader" ->
         {"matches"} \cup (IF "identity" \in Faults THEN {"missing"} ELSE {})
    [] OTHER -> {"refused"}

\* The start marker and the executable are compared.  Windows reads both
\* through one handle; on Linux the number may have passed, between the reads,
\* to a process with the same executable, a shell.  The identity of a live
\* process may be unreadable.
Inspect ==
  CASE Gone -> {"missing"}
    [] holder = "leader" ->
         {"matches"} \cup (IF "identity" \in Faults THEN {"refused"} ELSE {})
    [] holder \in Foreign /\ marker = "leader" -> {"matches", "refused"}
    [] OTHER -> {"refused"}

Return(r) ==
  /\ call' = "idle" /\ marker' = "none" /\ target' = "none"
  /\ result' = r

\* A missing process is a success, a mismatch or an error a failure.
Inspected(next) ==
  \/ /\ "matches" \in Inspect
     /\ call' = next /\ marker' = "none" /\ UNCHANGED <<target, result>>
  \/ "missing" \in Inspect /\ Return("ok")
  \/ "refused" \in Inspect /\ Return("error")

\* The first read of linuxIdentity, which a zombie still allows.
ReadMarker(next) ==
  \/ /\ holder # "free"
     /\ call' = next
     /\ marker' = IF holder \in Foreign THEN "foreign" ELSE "leader"
     /\ UNCHANGED <<target, result>>
  \/ holder = "free" /\ Return("ok")
  \/ "identity" \in Faults /\ Return("error")

Terminate ==
  /\ known /\ call = "idle"
  /\ IF platform = "linux" THEN ReadMarker("inspecting")
     ELSE Inspected("inspected")
  /\ UNCHANGED <<platform, holder, child, cmd, known, history>>

LinuxInspect ==
  /\ call = "inspecting"
  /\ Inspected("inspected")
  /\ UNCHANGED <<platform, holder, child, cmd, known, history>>

LinuxVerifySkipped ==
  /\ platform = "linux" /\ call = "inspected"
  /\ call' = "verified"
  /\ UNCHANGED <<platform, holder, child, cmd, known, marker, target, result,
                 history>>

\* NativeProcessController.Terminate verifies again.
LinuxVerify ==
  /\ platform = "linux" /\ call = "inspected"
  /\ ReadMarker("verifying")
  /\ UNCHANGED <<platform, holder, child, cmd, known, history>>

LinuxVerified ==
  /\ call = "verifying"
  /\ Inspected("verified")
  /\ UNCHANGED <<platform, holder, child, cmd, known, history>>

LinuxGetpgid ==
  /\ call = "verified"
  /\ IF holder \in {"leader", "zombie", "chief"}
     THEN call' = "grouped" /\ UNCHANGED <<marker, target, result>>
     ELSE Return("error")
  /\ UNCHANGED <<platform, holder, child, cmd, known, history>>

LinuxKillLeader ==
  /\ call = "grouped"
  /\ Return("ok")
  /\ holder' = IF holder = "leader" THEN "zombie" ELSE holder
  /\ struck' = struck \cup {"own"}
  /\ UNCHANGED <<platform, child, cmd, known, orphan>>

\* The signal reaches every member of the group with the number.
LinuxKill ==
  /\ call = "grouped"
  /\ IF holder = "other" \/ (holder = "free" /\ child # "alive")
     THEN /\ Return("error")
          /\ UNCHANGED <<holder, child, struck>>
     ELSE /\ Return("ok")
          /\ holder' = CASE holder = "leader" -> "zombie"
                         [] holder = "chief" -> "free"
                         [] OTHER -> holder
          /\ child' = IF holder # "chief" /\ child = "alive" THEN "dead"
                      ELSE child
          /\ struck' = struck \cup {IF holder = "chief" THEN "foreign" ELSE "own"}
  /\ UNCHANGED <<platform, cmd, known, orphan>>

\* OpenProcess takes the number without verifying it again.
WindowsOpen ==
  /\ platform = "windows" /\ call = "inspected"
  /\ IF holder = "free"
     THEN Return("error")
     ELSE /\ call' = "opened"
          /\ target' = IF holder \in Foreign THEN holder ELSE "leader"
          /\ UNCHANGED <<marker, result>>
  /\ UNCHANGED <<platform, holder, child, cmd, known, history>>

\* TerminateProcess kills one process; one that has exited denies access.
WindowsKillKeepsHandle ==
  /\ call = "opened"
  /\ call' = "idle" /\ result' = "ok"
  /\ holder' = "zombie" /\ target' = "cmd"
  /\ UNCHANGED <<platform, child, cmd, known, marker, history>>

WindowsKill ==
  /\ call = "opened"
  /\ IF holder = "zombie"
     THEN Return("error") /\ UNCHANGED <<holder, struck>>
     ELSE /\ Return("ok")
          /\ holder' = IF target = "leader" THEN "zombie" ELSE "free"
          /\ struck' = struck \cup {IF target = "leader" THEN "own" ELSE "foreign"}
  /\ UNCHANGED <<platform, child, cmd, known, orphan>>

Next ==
  \/ Start \/ ReadIdentity \/ ReadIdentityFails
  \/ Spawn \/ LeaderExits \/ ChildExits \/ Reap \/ Restart
  \/ Reuse \/ ForeignExits
  \/ Terminate \/ LinuxInspect \/ LinuxVerify \/ LinuxVerified
  \/ LinuxGetpgid \/ LinuxKill
  \/ WindowsOpen \/ WindowsKill

Spec == Init /\ [][Next]_vars

-----------------------------------------------------------------------------

(***************************************************************************)
(* No foreign process is signalled, whenever the runner ended and whoever  *)
(* has its number now, also when the number passes to another process      *)
(* while the call verifies it; as long as it is not reused between the     *)
(* last read of the start marker and the kill or, on Windows, the opening  *)
(* of the handle.                                                          *)
(***************************************************************************)
OnlyOwnSignalled == "foreign" \notin struck

(***************************************************************************)
(* A termination that succeeds leaves no leader alive, on either platform, *)
(* so the Wait that the manager performs next returns.                     *)
(***************************************************************************)
TerminatedIsDead == result = "ok" => holder # "leader"

(***************************************************************************)
(* On Linux a successful termination leaves no child to write into the     *)
(* workspace, unless the leader had ended by itself before its child.      *)
(***************************************************************************)
GroupStopped ==
  platform = "linux" /\ result = "ok" /\ ~orphan => child # "alive"

(* The same without the exception: what docs/operations.md says of         *)
(* cancellation and idle timeouts.                                         *)
ChildrenStopped == platform = "linux" /\ result = "ok" => child # "alive"

(* A start that fails leaves no child either.                              *)
FailedStartStops == result = "start_failed" => child # "alive"

=============================================================================
