------------------------ MODULE RunnerManagerProofs ------------------------
(***************************************************************************)
(* Proofs about RunnerManager, for any number of instances, any capacity   *)
(* and any number of crashes.                                              *)
(***************************************************************************)
EXTENDS RunnerManager, FiniteSetTheorems, TLAPS

-----------------------------------------------------------------------------
(* Finite sets of instances. *)

(* Every set of instances is finite.                                       *)
LEMMA FiniteParts ==
  ASSUME NEW S \in SUBSET Instance
  PROVE  IsFiniteSet(S) /\ Cardinality(S) \in Nat
  BY ManagerAssumption, FS_Subset, FS_CardinalityType

(* A smaller set of instances has a smaller cardinality.                   *)
LEMMA Monotone ==
  ASSUME NEW T \in SUBSET Instance, NEW S \in SUBSET T
  PROVE  Cardinality(S) <= Cardinality(T)
  BY FiniteParts, FS_Subset

(* Two sets of instances together.                                         *)
LEMMA UnionBound ==
  ASSUME NEW S \in SUBSET Instance, NEW T \in SUBSET Instance
  PROVE  Cardinality(S \cup T) <= Cardinality(S) + Cardinality(T)
<1>1. IsFiniteSet(S) /\ IsFiniteSet(T) /\ IsFiniteSet(S \cap T)
      /\ Cardinality(S \cap T) \in Nat /\ Cardinality(S) \in Nat
      /\ Cardinality(T) \in Nat
  BY FiniteParts
<1> QED BY <1>1, FS_Union

(* The runners of earlier incarnations and the Runs admitted by this one   *)
(* have room together: the tickets of the latter are at most what the      *)
(* former leave.                                                           *)
LEMMA Room ==
  ASSUME IInv
  PROVE  Cardinality(LiveLost \cup Passed) <= Capacity
<1> DEFINE L == Cardinality(LiveLost)
<1>1. LiveLost \in SUBSET Instance /\ Passed \in SUBSET Instance
  BY DEF LiveLost, Passed
<1>2. L \in Nat /\ L <= Capacity /\ Capacity \in Nat
  BY <1>1, FiniteParts, ManagerAssumption DEF IInv, Admissions
<1>3. Capacity - L \in 0 .. Capacity
  BY <1>2
<1>4. TicketsUpTo(Capacity - L) \in SUBSET Instance
  BY DEF TicketsUpTo, Counted
<1>5. Passed \in SUBSET TicketsUpTo(Capacity - L)
  <2> SUFFICES ASSUME NEW i \in Passed PROVE i \in TicketsUpTo(Capacity - L)
    OBVIOUS
  <2>1. i \in Counted
    BY DEF Counted, Passed
  <2>2. ticket[i] \in Nat
    BY DEF IInv, BaseInv, TypeOK, Passed
  <2>3. ticket[i] + L <= Capacity
    BY DEF IInv, Admissions
  <2> QED BY <2>1, <2>2, <2>3, <1>2 DEF TicketsUpTo
<1>6. Cardinality(Passed) <= Capacity - L
  <2>1. Cardinality(TicketsUpTo(Capacity - L)) <= Capacity - L
    BY <1>3 DEF IInv, BaseInv, Tickets
  <2>2. Cardinality(Passed) <= Cardinality(TicketsUpTo(Capacity - L))
    BY <1>4, <1>5, Monotone
  <2>3. Cardinality(Passed) \in Nat /\ Cardinality(TicketsUpTo(Capacity - L)) \in Nat
    BY <1>1, <1>4, FiniteParts
  <2> QED BY <2>1, <2>2, <2>3, <1>2
<1>7. Cardinality(LiveLost \cup Passed) <= L + Cardinality(Passed)
  BY <1>1, UnionBound
<1>8. Cardinality(Passed) \in Nat /\ Cardinality(LiveLost \cup Passed) \in Nat
  BY <1>1, FiniteParts
<1> QED BY <1>2, <1>6, <1>7, <1>8

-----------------------------------------------------------------------------
(* Types. *)

(* A step keeps every variable in its type, given that the counter stays a *)
(* natural number, which Ledger shows.                                     *)
LEMMA TypesStep ==
  ASSUME TypeOK, [Next]_vars, local' \in Nat
  PROVE  TypeOK'
<1> USE DEF TypeOK, PC, Disk, PollPC, vars, runVars, pollVars, ctxVars, osVars,
            Goto, WritePhase, WriteFails, WriteOrIgnore, RemovalFails, Killed,
            TerminateFails, CleanupFailed, Pass, Free, Reserve,
            ReserveWithProblem, Restart, Present, Unclaimed
<1>1. ASSUME NEW i \in Instance, RunStep(i) PROVE TypeOK'
  <2>1. CASE RunEnter(i) BY <2>1 DEF RunEnter
  <2>2. CASE RunAdmit(i) BY <2>2 DEF RunAdmit
  <2>3. CASE RunReject(i) BY <2>3 DEF RunReject
  <2>4. CASE RunNoID(i) BY <2>4 DEF RunNoID
  <2>5. CASE RunOwn(i) BY <2>5 DEF RunOwn, Own
  <2>6. CASE RunCopy(i) BY <2>6 DEF RunCopy
  <2>7. CASE RunPrepare(i) BY <2>7 DEF RunPrepare
  <2>8. CASE RunDiscard(i) BY <2>8 DEF RunDiscard
  <2>9. CASE RunStart(i) BY <2>9 DEF RunStart
  <2>10. CASE RunStartFails(i) BY <2>10 DEF RunStartFails
  <2>11. CASE RunRecord(i) BY <2>11 DEF RunRecord
  <2>12. CASE RunAbort(i) BY <2>12 DEF RunAbort
  <2>13. CASE RunAssigned(i) BY <2>13 DEF RunAssigned
  <2>14. CASE RunExits(i) BY <2>14 DEF RunExits
  <2>15. CASE RunTimesOut(i) BY <2>15 DEF RunTimesOut
  <2>16. CASE RunCancelled(i) BY <2>16 DEF RunCancelled
  <2>17. CASE RunDrained(i) BY <2>17 DEF RunDrained
  <2>18. CASE RunClose(i) BY <2>18 DEF RunClose
  <2>19. CASE RunClean(i) BY <2>19 DEF RunClean
  <2>20. CASE RunRemove(i) BY <2>20 DEF RunRemove
  <2>21. CASE RunDisown(i) BY <2>21 DEF RunDisown
  <2>22. CASE RunReturn(i) BY <2>22 DEF RunReturn
  <2>23. CASE Retire(i) BY <2>23 DEF Retire
  <2> QED BY <1>1, <2>1, <2>2, <2>3, <2>4, <2>5, <2>6, <2>7, <2>8, <2>9, <2>10, <2>11, <2>12, <2>13, <2>14, <2>15, <2>16, <2>17, <2>18, <2>19, <2>20, <2>21, <2>22, <2>23 DEF RunStep
<1>2. ASSUME NEW i \in Instance, ScanStep(i) PROVE TypeOK'
  <2>1. CASE ScanOwned(i) BY <2>1 DEF ScanOwned
  <2>2. CASE ScanRemove(i) BY <2>2 DEF ScanRemove
  <2>3. CASE ScanRemoveFails(i) BY <2>3 DEF ScanRemoveFails
  <2>4. CASE ScanUnverified(i) BY <2>4 DEF ScanUnverified
  <2>5. CASE ScanMatches(i) BY <2>5 DEF ScanMatches
  <2>6. CASE ScanKeep(i) BY <2>6 DEF ScanKeep
  <2>7. CASE ScanKill(i) BY <2>7 DEF ScanKill
  <2>8. CASE ScanKillFails(i) BY <2>8 DEF ScanKillFails
  <2> QED BY <1>2, <2>1, <2>2, <2>3, <2>4, <2>5, <2>6, <2>7, <2>8 DEF ScanStep
<1>3. ASSUME NEW i \in Instance, OfferInsert(i) PROVE TypeOK'
  BY <1>3 DEF OfferInsert
<1>4. ASSUME NEW i \in Instance, EnvStep(i) PROVE TypeOK'
  <2>1. CASE TakeJob(i) BY <2>1 DEF TakeJob
  <2>2. CASE FinishJob(i) BY <2>2 DEF FinishJob
  <2>3. CASE Quit(i) BY <2>3 DEF Quit
  <2>4. CASE Signal(i) BY <2>4 DEF Signal
  <2>5. CASE RecyclePid(i) BY <2>5 DEF RecyclePid
  <2>6. CASE ReleasePid(i) BY <2>6 DEF ReleasePid
  <2>7. CASE Expire(i) BY <2>7 DEF Expire
  <2> QED BY <1>4, <2>1, <2>2, <2>3, <2>4, <2>5, <2>6, <2>7 DEF EnvStep
<1>5. ASSUME PollStep PROVE TypeOK'
  <2>1. CASE PollStart BY <2>1, ManagerAssumption DEF PollStart
  <2>2. CASE ReadDirFails BY <2>2 DEF ReadDirFails
  <2>3. CASE ScanStore BY <2>3 DEF ScanStore, Stored
  <2>4. CASE ScanInterrupted BY <2>4 DEF ScanInterrupted
  <2>5. CASE PollObserve BY <2>5 DEF PollObserve
  <2>6. CASE PollEnd BY <2>6 DEF PollEnd
  <2>7. CASE OfferRecheck BY <2>7 DEF OfferRecheck
  <2> QED BY <1>5, <2>1, <2>2, <2>3, <2>4, <2>5, <2>6, <2>7 DEF PollStep
<1>6. CASE Stop BY <1>6 DEF Stop
<1>7. ASSUME Restart PROVE TypeOK'
  <2>1. pc' \in [Instance -> PC]
    BY <1>7
  <2>2. /\ ticket' \in [Instance -> Nat]
        /\ assigned' \in [Instance -> BOOLEAN]
    BY <1>7
  <2>3. exits' \in Nat /\ UNCHANGED <<disk, proc, osVars>>
    BY <1>7
  <2> QED BY <1>7, <2>1, <2>2, <2>3
<1>8. CASE UNCHANGED vars BY <1>8
<1> QED BY <1>1, <1>2, <1>3, <1>4, <1>5, <1>6, <1>7, <1>8 DEF Next, Crash, Shutdown

-----------------------------------------------------------------------------
(* The counter, the map and the tickets. *)

(* Only a step of a Run, an offer or a restart touches the goroutines.     *)
LEMMA GoroutineFrame ==
  ASSUME [Next]_vars
  PROVE  \/ \E i \in Instance : RunStep(i) \/ OfferInsert(i)
         \/ Restart
         \/ UNCHANGED <<pc, ticket, owned, local>>
<1> USE DEF vars, runVars
<1>1. ASSUME NEW i \in Instance, ScanStep(i)
      PROVE  UNCHANGED <<pc, ticket, owned, local>>
  BY <1>1 DEF ScanStep, ScanOwned, ScanRemove, ScanRemoveFails, ScanUnverified,
              ScanMatches, ScanKeep, ScanKill, ScanKillFails
<1>2. ASSUME NEW i \in Instance, EnvStep(i)
      PROVE  UNCHANGED <<pc, ticket, owned, local>>
  BY <1>2 DEF EnvStep, TakeJob, FinishJob, Quit, Signal, RecyclePid,
              ReleasePid, Expire
<1>3. ASSUME PollStep PROVE UNCHANGED <<pc, ticket, owned, local>>
  BY <1>3 DEF PollStep, PollStart, ReadDirFails, ScanStore, ScanInterrupted,
              PollObserve, PollEnd, OfferRecheck
<1> QED BY <1>1, <1>2, <1>3 DEF Next, Crash, Shutdown, Stop

(* Runs enter and leave the count one by one; the other steps of a Run     *)
(* leave the counter and the tickets alone.                                *)
LEMMA QuietRunStep ==
  ASSUME TypeOK, NEW i \in Instance, RunStep(i), ~RunEnter(i), ~RunReturn(i)
  PROVE  Counted' = Counted /\ UNCHANGED <<ticket, local>>
<1> USE DEF TypeOK, Goto, Counted, PassedPC
<1>1. CASE RunAdmit(i) BY <1>1 DEF RunAdmit
<1>2. CASE RunReject(i) BY <1>2 DEF RunReject
<1>3. CASE RunNoID(i) BY <1>3 DEF RunNoID
<1>4. CASE RunOwn(i) BY <1>4 DEF RunOwn
<1>5. CASE RunCopy(i) BY <1>5 DEF RunCopy
<1>6. CASE RunPrepare(i) BY <1>6 DEF RunPrepare
<1>7. CASE RunDiscard(i) BY <1>7 DEF RunDiscard
<1>8. CASE RunStart(i) BY <1>8 DEF RunStart
<1>9. CASE RunStartFails(i) BY <1>9 DEF RunStartFails
<1>10. CASE RunRecord(i) BY <1>10 DEF RunRecord
<1>11. CASE RunAbort(i) BY <1>11 DEF RunAbort
<1>12. CASE RunAssigned(i) BY <1>12 DEF RunAssigned
<1>13. CASE RunExits(i) BY <1>13 DEF RunExits
<1>14. CASE RunTimesOut(i) BY <1>14 DEF RunTimesOut
<1>15. CASE RunCancelled(i) BY <1>15 DEF RunCancelled
<1>16. CASE RunDrained(i) BY <1>16 DEF RunDrained
<1>17. CASE RunClose(i) BY <1>17 DEF RunClose
<1>18. CASE RunClean(i) BY <1>18 DEF RunClean
<1>19. CASE RunRemove(i) BY <1>19 DEF RunRemove
<1>20. CASE RunDisown(i) BY <1>20 DEF RunDisown
<1>21. CASE Retire(i) BY <1>21 DEF Retire
<1> QED BY <1>1, <1>2, <1>3, <1>4, <1>5, <1>6, <1>7, <1>8, <1>9, <1>10, <1>11, <1>12, <1>13, <1>14, <1>15, <1>16, <1>17, <1>18, <1>19, <1>20, <1>21 DEF RunStep

(* What a step does to the count of Runs.                                  *)
LEMMA CountedStep ==
  ASSUME TypeOK, [Next]_vars
  PROVE  \/ Counted' = Counted /\ UNCHANGED <<ticket, local>>
         \/ \E i \in Instance \ Counted : RunEnter(i) /\ Counted' = Counted \cup {i}
         \/ \E i \in Counted : RunReturn(i) /\ Counted' = Counted \ {i}
         \/ Counted' = {} /\ local' = 0
<1>1. ASSUME NEW i \in Instance, RunEnter(i)
      PROVE  i \notin Counted /\ Counted' = Counted \cup {i}
  BY <1>1 DEF TypeOK, RunEnter, Goto, Counted, PassedPC
<1>2. ASSUME NEW i \in Instance, RunReturn(i)
      PROVE  i \in Counted /\ Counted' = Counted \ {i}
  BY <1>2 DEF TypeOK, RunReturn, Goto, Counted, PassedPC
<1>3. ASSUME NEW i \in Instance, OfferInsert(i)
      PROVE  Counted' = Counted /\ UNCHANGED <<ticket, local>>
  BY <1>3 DEF TypeOK, OfferInsert, Goto, Counted, PassedPC
<1>4. ASSUME Restart PROVE Counted' = {} /\ local' = 0
  BY <1>4 DEF TypeOK, PC, Restart, Active, Counted, PassedPC
<1>5. ASSUME UNCHANGED <<pc, ticket, owned, local>>
      PROVE  Counted' = Counted /\ UNCHANGED <<ticket, local>>
  BY <1>5 DEF Counted
<1> QED BY <1>1, <1>2, <1>3, <1>4, <1>5, GoroutineFrame, QuietRunStep

(* The map holds the Runs under way, after every step as before it.        *)
LEMMA OwnedStep ==
  ASSUME TypeOK, owned = {i \in Instance : Supervised(i)}, [Next]_vars
  PROVE  owned' = {i \in Instance : Supervised(i)'}
<1> USE DEF TypeOK, Goto, Supervised
<1>1. ASSUME NEW i \in Instance, RunStep(i)
      PROVE  owned' = {j \in Instance : Supervised(j)'}
  <2>1. CASE RunEnter(i) BY <2>1 DEF RunEnter
  <2>2. CASE RunAdmit(i) BY <2>2 DEF RunAdmit
  <2>3. CASE RunReject(i) BY <2>3 DEF RunReject
  <2>4. CASE RunNoID(i) BY <2>4 DEF RunNoID
  <2>5. CASE RunOwn(i) BY <2>5 DEF RunOwn, Own
  <2>6. CASE RunCopy(i) BY <2>6 DEF RunCopy
  <2>7. CASE RunPrepare(i) BY <2>7 DEF RunPrepare
  <2>8. CASE RunDiscard(i) BY <2>8 DEF RunDiscard
  <2>9. CASE RunStart(i) BY <2>9 DEF RunStart
  <2>10. CASE RunStartFails(i) BY <2>10 DEF RunStartFails
  <2>11. CASE RunRecord(i) BY <2>11 DEF RunRecord
  <2>12. CASE RunAbort(i) BY <2>12 DEF RunAbort
  <2>13. CASE RunAssigned(i) BY <2>13 DEF RunAssigned
  <2>14. CASE RunExits(i) BY <2>14 DEF RunExits
  <2>15. CASE RunTimesOut(i) BY <2>15 DEF RunTimesOut
  <2>16. CASE RunCancelled(i) BY <2>16 DEF RunCancelled
  <2>17. CASE RunDrained(i) BY <2>17 DEF RunDrained
  <2>18. CASE RunClose(i) BY <2>18 DEF RunClose
  <2>19. CASE RunClean(i) BY <2>19 DEF RunClean
  <2>20. CASE RunRemove(i) BY <2>20 DEF RunRemove
  <2>21. CASE RunDisown(i) BY <2>21 DEF RunDisown
  <2>22. CASE RunReturn(i) BY <2>22 DEF RunReturn
  <2>23. CASE Retire(i) BY <2>23 DEF Retire
  <2> QED BY <1>1, <2>1, <2>2, <2>3, <2>4, <2>5, <2>6, <2>7, <2>8, <2>9, <2>10, <2>11, <2>12, <2>13, <2>14, <2>15, <2>16, <2>17, <2>18, <2>19, <2>20, <2>21, <2>22, <2>23 DEF RunStep
<1>2. ASSUME NEW i \in Instance, OfferInsert(i)
      PROVE  owned' = {j \in Instance : Supervised(j)'}
  BY <1>2 DEF OfferInsert
<1>3. ASSUME Restart PROVE owned' = {j \in Instance : Supervised(j)'}
  BY <1>3 DEF PC, Restart, Active
<1>4. ASSUME UNCHANGED <<pc, ticket, owned, local>>
      PROVE  owned' = {j \in Instance : Supervised(j)'}
  BY <1>4
<1> QED BY <1>1, <1>2, <1>3, <1>4, GoroutineFrame

(* Ledger is preserved.                                                    *)
LEMMA LedgerStep ==
  ASSUME TypeOK, Ledger, [Next]_vars
  PROVE  Ledger' /\ local' \in Nat
<1>1. Counted \in SUBSET Instance /\ Counted' \in SUBSET Instance
  BY DEF Counted
<1>2. IsFiniteSet(Counted) /\ Cardinality(Counted) \in Nat
      /\ Cardinality(Counted') \in Nat
  BY <1>1, FiniteParts
<1>3. local' = Cardinality(Counted')
  <2>1. ASSUME NEW i \in Instance \ Counted, RunEnter(i),
               Counted' = Counted \cup {i}
        PROVE  local' = Cardinality(Counted')
    <3>1. Cardinality(Counted \cup {i}) = Cardinality(Counted) + 1
      BY <1>2, FS_AddElement
    <3> QED BY <2>1, <3>1 DEF Ledger, RunEnter
  <2>2. ASSUME NEW i \in Counted, RunReturn(i), Counted' = Counted \ {i}
        PROVE  local' = Cardinality(Counted')
    <3>1. Cardinality(Counted \ {i}) = Cardinality(Counted) - 1
      BY <1>2, FS_RemoveElement
    <3> QED BY <2>2, <3>1 DEF Ledger, RunReturn, Released
  <2>3. Cardinality({}) = 0
    BY FS_EmptySet
  <2> QED BY <2>1, <2>2, <2>3, CountedStep DEF Ledger
<1> QED BY <1>2, <1>3, OwnedStep DEF Ledger

(* Tickets is preserved.                                                   *)
LEMMA TicketsStep ==
  ASSUME TypeOK, Ledger, Tickets, [Next]_vars
  PROVE  Tickets'
<1> SUFFICES ASSUME NEW n \in 0 .. Capacity
             PROVE  Cardinality(TicketsUpTo(n)') <= n
  BY DEF Tickets
<1>0. n \in Nat /\ Cardinality(TicketsUpTo(n)) <= n
  BY ManagerAssumption DEF Tickets
<1>1. TicketsUpTo(n) \in SUBSET Instance /\ TicketsUpTo(n)' \in SUBSET Instance
      /\ Counted \in SUBSET Instance /\ Counted' \in SUBSET Instance
  BY DEF TicketsUpTo, Counted
<1>2. Cardinality(TicketsUpTo(n)) \in Nat /\ Cardinality(TicketsUpTo(n)') \in Nat
      /\ Cardinality(Counted') \in Nat
  BY <1>1, FiniteParts
<1>3. ASSUME TicketsUpTo(n)' \subseteq TicketsUpTo(n)
      PROVE  Cardinality(TicketsUpTo(n)') <= n
  BY <1>0, <1>1, <1>2, <1>3, Monotone
<1>4. ASSUME NEW i \in Instance \ Counted, RunEnter(i), Counted' = Counted \cup {i}
      PROVE  Cardinality(TicketsUpTo(n)') <= n
  <2>1. local' = local + 1 /\ ticket' = [ticket EXCEPT ![i] = local + 1]
        /\ local \in Nat
    BY <1>4 DEF RunEnter, TypeOK
  <2>2. CASE local + 1 <= n
    <3>1. local' = Cardinality(Counted')
      BY LedgerStep DEF Ledger
    <3>2. Cardinality(TicketsUpTo(n)') <= Cardinality(Counted')
      <4>1. TicketsUpTo(n)' \in SUBSET Counted'
        BY DEF TicketsUpTo
      <4> QED BY <4>1, <1>1, Monotone
    <3> QED BY <2>1, <2>2, <3>1, <3>2, <1>0, <1>2
  <2>3. CASE ~(local + 1 <= n)
    <3>1. TicketsUpTo(n)' \subseteq TicketsUpTo(n)
      BY <1>4, <2>1, <2>3 DEF TicketsUpTo, TypeOK
    <3> QED BY <3>1, <1>3
  <2> QED BY <2>2, <2>3
<1>5. ASSUME NEW i \in Counted, RunReturn(i), Counted' = Counted \ {i}
      PROVE  TicketsUpTo(n)' \subseteq TicketsUpTo(n)
  BY <1>5 DEF RunReturn, TicketsUpTo
<1>6. ASSUME \/ Counted' = Counted /\ UNCHANGED <<ticket, local>>
             \/ Counted' = {}
      PROVE  TicketsUpTo(n)' \subseteq TicketsUpTo(n)
  BY <1>6 DEF TicketsUpTo
<1> QED BY <1>3, <1>4, <1>5, <1>6, CountedStep

-----------------------------------------------------------------------------
(* Service.active. *)

(* A lifecycle begins with an offer and in no other way.                   *)
LEMMA ActiveStep ==
  ASSUME TypeOK, [Next]_vars
  PROVE  \/ Active' \subseteq Active
         \/ Cardinality(Active) < Capacity /\ \E i \in Instance : Active' = Active \cup {i}
<1>1. ASSUME NEW i \in Instance, RunStep(i) PROVE Active' \subseteq Active
  BY <1>1 DEF TypeOK, PC, Active, Goto, RunStep, RunEnter, RunAdmit, RunReject,
              RunNoID, RunOwn, RunCopy, RunPrepare, RunDiscard, RunStart,
              RunStartFails, RunRecord, RunAbort, RunAssigned, RunExits,
              RunTimesOut, RunCancelled, RunDrained, RunClose, RunClean,
              RunRemove, RunDisown, RunReturn, Retire
<1>2. ASSUME NEW i \in Instance, OfferInsert(i)
      PROVE  Cardinality(Active) < Capacity /\ Active' = Active \cup {i}
  BY <1>2 DEF TypeOK, Active, OfferInsert, Goto
<1>3. Restart => Active' \subseteq Active
  BY DEF TypeOK, Restart, Active
<1>4. UNCHANGED <<pc, ticket, owned, local>> => Active' \subseteq Active
  BY DEF Active
<1> QED BY <1>1, <1>2, <1>3, <1>4, GoroutineFrame

(* Only a Run that has just entered holds a new ticket.                    *)
LEMMA EnteredStep ==
  ASSUME TypeOK, [Next]_vars, NEW j \in Instance, pc'[j] = "entered"
  PROVE  RunEnter(j) \/ (pc[j] = "entered" /\ ticket'[j] = ticket[j])
<1>1. ASSUME NEW i \in Instance, RunStep(i)
      PROVE  RunEnter(j) \/ (pc[j] = "entered" /\ ticket'[j] = ticket[j])
  <2> USE DEF TypeOK, Goto
  <2>1. CASE RunEnter(i) BY <2>1 DEF RunEnter
  <2>2. CASE RunAdmit(i) BY <2>2 DEF RunAdmit
  <2>3. CASE RunReject(i) BY <2>3 DEF RunReject
  <2>4. CASE RunNoID(i) BY <2>4 DEF RunNoID
  <2>5. CASE RunOwn(i) BY <2>5 DEF RunOwn
  <2>6. CASE RunCopy(i) BY <2>6 DEF RunCopy
  <2>7. CASE RunPrepare(i) BY <2>7 DEF RunPrepare
  <2>8. CASE RunDiscard(i) BY <2>8 DEF RunDiscard
  <2>9. CASE RunStart(i) BY <2>9 DEF RunStart
  <2>10. CASE RunStartFails(i) BY <2>10 DEF RunStartFails
  <2>11. CASE RunRecord(i) BY <2>11 DEF RunRecord
  <2>12. CASE RunAbort(i) BY <2>12 DEF RunAbort
  <2>13. CASE RunAssigned(i) BY <2>13 DEF RunAssigned
  <2>14. CASE RunExits(i) BY <2>14 DEF RunExits
  <2>15. CASE RunTimesOut(i) BY <2>15 DEF RunTimesOut
  <2>16. CASE RunCancelled(i) BY <2>16 DEF RunCancelled
  <2>17. CASE RunDrained(i) BY <2>17 DEF RunDrained
  <2>18. CASE RunClose(i) BY <2>18 DEF RunClose
  <2>19. CASE RunClean(i) BY <2>19 DEF RunClean
  <2>20. CASE RunRemove(i) BY <2>20 DEF RunRemove
  <2>21. CASE RunDisown(i) BY <2>21 DEF RunDisown
  <2>22. CASE RunReturn(i) BY <2>22 DEF RunReturn
  <2>23. CASE Retire(i) BY <2>23 DEF Retire
  <2> QED BY <1>1, <2>1, <2>2, <2>3, <2>4, <2>5, <2>6, <2>7, <2>8, <2>9, <2>10, <2>11, <2>12, <2>13, <2>14, <2>15, <2>16, <2>17, <2>18, <2>19, <2>20, <2>21, <2>22, <2>23 DEF RunStep
<1>2. ASSUME NEW i \in Instance, OfferInsert(i)
      PROVE  pc[j] = "entered" /\ ticket'[j] = ticket[j]
  BY <1>2 DEF TypeOK, OfferInsert, Goto
<1>3. ~Restart
  BY DEF TypeOK, PC, Restart, Active
<1> QED BY <1>1, <1>2, <1>3, GoroutineFrame

(* Lifecycles is preserved.                                                *)
LEMMA LifecyclesStep ==
  ASSUME TypeOK, Ledger, Lifecycles, [Next]_vars
  PROVE  Lifecycles'
<1>1. Active \in SUBSET Instance /\ Active' \in SUBSET Instance
      /\ Counted \in SUBSET Instance
  BY DEF Active, Counted
<1>2. /\ IsFiniteSet(Active) /\ Cardinality(Active) \in Nat
      /\ Cardinality(Active') \in Nat /\ Capacity \in Nat
      /\ IsFiniteSet(Counted) /\ Cardinality(Counted) \in Nat
  BY <1>1, FiniteParts, ManagerAssumption
<1>3. Cardinality(Active') <= Capacity
  <2>1. ASSUME Active' \subseteq Active PROVE Cardinality(Active') <= Capacity
    <3>1. Cardinality(Active') <= Cardinality(Active)
      BY <1>1, <2>1, Monotone
    <3> QED BY <1>2, <3>1 DEF Lifecycles
  <2>2. ASSUME Cardinality(Active) < Capacity, NEW i \in Instance,
               Active' = Active \cup {i}
        PROVE  Cardinality(Active') <= Capacity
    <3>1. Cardinality(Active \cup {i}) = IF i \in Active THEN Cardinality(Active)
                                         ELSE Cardinality(Active) + 1
      BY <1>2, FS_AddElement
    <3> QED BY <1>2, <2>2, <3>1
  <2> QED BY <2>1, <2>2, ActiveStep
<1>4. ASSUME NEW j \in Instance, pc'[j] = "entered"
      PROVE  ticket'[j] <= Capacity
  <2>1. CASE RunEnter(j)
    <3>1. ticket'[j] = local + 1 /\ local = Cardinality(Counted)
      BY <2>1 DEF RunEnter, TypeOK, Ledger
    <3>2. j \notin Counted /\ Counted \cup {j} \in SUBSET Active
      BY <2>1 DEF RunEnter, Goto, Counted, PassedPC, Active
    <3>3. Cardinality(Counted \cup {j}) = Cardinality(Counted) + 1
      BY <1>2, <3>2, FS_AddElement
    <3>4. Cardinality(Counted \cup {j}) <= Cardinality(Active)
      BY <1>1, <3>2, Monotone
    <3> QED BY <1>2, <3>1, <3>3, <3>4 DEF Lifecycles
  <2> QED BY <1>4, <2>1, EnteredStep DEF Lifecycles
<1> QED BY <1>3, <1>4 DEF Lifecycles

-----------------------------------------------------------------------------
(* Where the Runs and the reconciliation are. *)

(* Beginnings is preserved.                                                *)
LEMMA BeginningsStep ==
  ASSUME TypeOK, Ledger, Beginnings, Scanning, [Next]_vars
  PROVE  Beginnings'
<1> USE DEF TypeOK, Beginnings, Ledger, EarlyPC, vars, runVars, osVars, Goto,
            WritePhase, WriteFails, WriteOrIgnore, RemovalFails, Killed,
            TerminateFails, CleanupFailed, Alive
<1>1. ASSUME NEW i \in Instance, RunStep(i) PROVE Beginnings'
  <2>1. CASE RunEnter(i) BY <2>1 DEF RunEnter
  <2>2. CASE RunAdmit(i) BY <2>2 DEF RunAdmit
  <2>3. CASE RunReject(i) BY <2>3 DEF RunReject
  <2>4. CASE RunNoID(i) BY <2>4 DEF RunNoID
  <2>5. CASE RunOwn(i) BY <2>5 DEF RunOwn
  <2>6. CASE RunCopy(i) BY <2>6 DEF RunCopy
  <2>7. CASE RunPrepare(i) BY <2>7 DEF RunPrepare
  <2>8. CASE RunDiscard(i) BY <2>8 DEF RunDiscard
  <2>9. CASE RunStart(i) BY <2>9 DEF RunStart
  <2>10. CASE RunStartFails(i) BY <2>10 DEF RunStartFails
  <2>11. CASE RunRecord(i) BY <2>11 DEF RunRecord
  <2>12. CASE RunAbort(i) BY <2>12 DEF RunAbort
  <2>13. CASE RunAssigned(i) BY <2>13 DEF RunAssigned
  <2>14. CASE RunExits(i) BY <2>14 DEF RunExits
  <2>15. CASE RunTimesOut(i) BY <2>15 DEF RunTimesOut
  <2>16. CASE RunCancelled(i) BY <2>16 DEF RunCancelled
  <2>17. CASE RunDrained(i) BY <2>17 DEF RunDrained
  <2>18. CASE RunClose(i) BY <2>18 DEF RunClose
  <2>19. CASE RunClean(i) BY <2>19 DEF RunClean
  <2>20. CASE RunRemove(i) BY <2>20 DEF RunRemove
  <2>21. CASE RunDisown(i) BY <2>21 DEF RunDisown
  <2>22. CASE RunReturn(i) BY <2>22 DEF RunReturn
  <2>23. CASE Retire(i) BY <2>23 DEF Retire
  <2> QED BY <1>1, <2>1, <2>2, <2>3, <2>4, <2>5, <2>6, <2>7, <2>8, <2>9, <2>10, <2>11, <2>12, <2>13, <2>14, <2>15, <2>16, <2>17, <2>18, <2>19, <2>20, <2>21, <2>22, <2>23 DEF RunStep
<1>2. ASSUME NEW i \in Instance, ScanStep(i) PROVE Beginnings'
  <2>1. CASE ScanOwned(i) BY <2>1 DEF ScanOwned
  <2>2. CASE ScanRemove(i) BY <2>2 DEF ScanRemove, Discardable, Examined, Scanning
  <2>3. CASE ScanRemoveFails(i) BY <2>3 DEF ScanRemoveFails, Discardable, Examined, Scanning
  <2>4. CASE ScanUnverified(i) BY <2>4 DEF ScanUnverified
  <2>5. CASE ScanMatches(i) BY <2>5 DEF ScanMatches
  <2>6. CASE ScanKeep(i) BY <2>6 DEF ScanKeep
  <2>7. CASE ScanKill(i) BY <2>7 DEF ScanKill
  <2>8. CASE ScanKillFails(i) BY <2>8 DEF ScanKillFails
  <2> QED BY <1>2, <2>1, <2>2, <2>3, <2>4, <2>5, <2>6, <2>7, <2>8 DEF ScanStep
<1>3. ASSUME NEW i \in Instance, OfferInsert(i) PROVE Beginnings'
  BY <1>3 DEF OfferInsert
<1>4. ASSUME NEW i \in Instance, EnvStep(i) PROVE Beginnings'
  <2>1. CASE TakeJob(i) BY <2>1 DEF TakeJob
  <2>2. CASE FinishJob(i) BY <2>2 DEF FinishJob
  <2>3. CASE Quit(i) BY <2>3 DEF Quit
  <2>4. CASE Signal(i) BY <2>4 DEF Signal
  <2>5. CASE RecyclePid(i) BY <2>5 DEF RecyclePid
  <2>6. CASE ReleasePid(i) BY <2>6 DEF ReleasePid
  <2>7. CASE Expire(i) BY <2>7 DEF Expire
  <2> QED BY <1>4, <2>1, <2>2, <2>3, <2>4, <2>5, <2>6, <2>7 DEF EnvStep
<1>5. ASSUME PollStep PROVE Beginnings'
  <2>1. CASE PollStart BY <2>1 DEF PollStart
  <2>2. CASE ReadDirFails BY <2>2 DEF ReadDirFails
  <2>3. CASE ScanStore BY <2>3 DEF ScanStore
  <2>4. CASE ScanInterrupted BY <2>4 DEF ScanInterrupted
  <2>5. CASE PollObserve BY <2>5 DEF PollObserve
  <2>6. CASE PollEnd BY <2>6 DEF PollEnd
  <2>7. CASE OfferRecheck BY <2>7 DEF OfferRecheck
  <2> QED BY <1>5, <2>1, <2>2, <2>3, <2>4, <2>5, <2>6, <2>7 DEF PollStep
<1>6. ASSUME Restart PROVE Beginnings' BY <1>6 DEF Restart
<1>7. CASE Stop BY <1>7 DEF Stop
<1>8. CASE UNCHANGED vars BY <1>8
<1> QED BY <1>1, <1>2, <1>3, <1>4, <1>5, <1>6, <1>7, <1>8 DEF Next, Crash, Shutdown

Scans == {"scan", "matched", "killed"}

(* Runs, offers and the environment leave the account alone, and touch no  *)
(* directory whose Run is past its end.                                    *)
LEMMA AccountFrame ==
  ASSUME TypeOK, NEW i \in Instance,
         RunStep(i) \/ OfferInsert(i) \/ EnvStep(i)
  PROVE  /\ LostDirs' = LostDirs
         /\ UNCHANGED <<todo, count, recovered, reconciled, left, covered, found>>
         /\ poll' \in Scans => poll \in Scans
         /\ \A k \in Instance :
              pc[k] \in Departed => pc'[k] \in Departed /\ disk'[k] = disk[k]
<1> DEFINE Kept == \A k \in Instance :
                     pc[k] \in Departed => pc'[k] \in Departed /\ disk'[k] = disk[k]
<1> USE DEF TypeOK, LostDirs, Departed, Scans, pollVars, runVars, Goto, WritePhase,
            WriteFails, WriteOrIgnore, RemovalFails, CleanupFailed
<1>1. ASSUME RunStep(i) PROVE LostDirs' = LostDirs /\ UNCHANGED pollVars /\ Kept
  <2>1. CASE RunEnter(i) BY <2>1 DEF RunEnter
  <2>2. CASE RunAdmit(i) BY <2>2 DEF RunAdmit
  <2>3. CASE RunReject(i) BY <2>3 DEF RunReject
  <2>4. CASE RunNoID(i) BY <2>4 DEF RunNoID
  <2>5. CASE RunOwn(i) BY <2>5 DEF RunOwn
  <2>6. CASE RunCopy(i) BY <2>6 DEF RunCopy
  <2>7. CASE RunPrepare(i) BY <2>7 DEF RunPrepare
  <2>8. CASE RunDiscard(i) BY <2>8 DEF RunDiscard
  <2>9. CASE RunStart(i) BY <2>9 DEF RunStart
  <2>10. CASE RunStartFails(i) BY <2>10 DEF RunStartFails
  <2>11. CASE RunRecord(i) BY <2>11 DEF RunRecord
  <2>12. CASE RunAbort(i) BY <2>12 DEF RunAbort
  <2>13. CASE RunAssigned(i) BY <2>13 DEF RunAssigned
  <2>14. CASE RunExits(i) BY <2>14 DEF RunExits
  <2>15. CASE RunTimesOut(i) BY <2>15 DEF RunTimesOut
  <2>16. CASE RunCancelled(i) BY <2>16 DEF RunCancelled
  <2>17. CASE RunDrained(i) BY <2>17 DEF RunDrained
  <2>18. CASE RunClose(i) BY <2>18 DEF RunClose
  <2>19. CASE RunClean(i) BY <2>19 DEF RunClean
  <2>20. CASE RunRemove(i) BY <2>20 DEF RunRemove
  <2>21. CASE RunDisown(i) BY <2>21 DEF RunDisown
  <2>22. CASE RunReturn(i) BY <2>22 DEF RunReturn
  <2>23. CASE Retire(i) BY <2>23 DEF Retire
  <2> QED BY <1>1, <2>1, <2>2, <2>3, <2>4, <2>5, <2>6, <2>7, <2>8, <2>9, <2>10, <2>11, <2>12, <2>13, <2>14, <2>15, <2>16, <2>17, <2>18, <2>19, <2>20, <2>21, <2>22, <2>23 DEF RunStep
<1>2. ASSUME OfferInsert(i)
      PROVE  /\ LostDirs' = LostDirs
             /\ poll' \notin Scans
             /\ UNCHANGED <<todo, count, recovered, reconciled, left, covered, found>>
             /\ Kept
  BY <1>2 DEF OfferInsert
<1>3. ASSUME EnvStep(i) PROVE LostDirs' = LostDirs /\ UNCHANGED pollVars /\ Kept
  BY <1>3 DEF EnvStep, TakeJob, FinishJob, Quit, Signal, RecyclePid,
              ReleasePid, Expire
<1> QED BY <1>1, <1>2, <1>3

(* A directory without a Run belongs to an instance past its Run.          *)
LEMMA PastRun ==
  ASSUME TypeOK, Ledger, Beginnings, NEW i \in Instance, i \notin owned,
         pc[i] \notin EarlyPC \/ disk[i] # "absent"
  PROVE  pc[i] \in Departed
  BY DEF TypeOK, PC, Ledger, Beginnings, EarlyPC, Supervised, Departed

(* Scanning is preserved.                                                  *)
LEMMA ScanningStep ==
  ASSUME TypeOK, Ledger, Beginnings, Scanning, [Next]_vars
  PROVE  Scanning'
<1> USE DEF TypeOK, Scanning, Ledger, EarlyPC, vars, runVars, pollVars, osVars,
            Goto, Alive, Killed, TerminateFails, Pass, Free, Reserve,
            ReserveWithProblem, Supervised
<1>1. ASSUME NEW i \in Instance, RunStep(i) PROVE Scanning'
  <2>0. \A k \in todo \ owned : disk'[k] = disk[k]
    BY <1>1, AccountFrame, PastRun
  <2>1. CASE RunEnter(i) BY <2>0, <2>1 DEF RunEnter
  <2>2. CASE RunAdmit(i) BY <2>0, <2>2 DEF RunAdmit
  <2>3. CASE RunReject(i) BY <2>0, <2>3 DEF RunReject
  <2>4. CASE RunNoID(i) BY <2>0, <2>4 DEF RunNoID
  <2>5. CASE RunOwn(i) BY <2>0, <2>5 DEF RunOwn, Own
  <2>6. CASE RunCopy(i) BY <2>0, <2>6 DEF RunCopy
  <2>7. CASE RunPrepare(i) BY <2>0, <2>7 DEF RunPrepare
  <2>8. CASE RunDiscard(i) BY <2>0, <2>8 DEF RunDiscard
  <2>9. CASE RunStart(i) BY <2>0, <2>9 DEF RunStart
  <2>10. CASE RunStartFails(i) BY <2>0, <2>10 DEF RunStartFails
  <2>11. CASE RunRecord(i) BY <2>0, <2>11 DEF RunRecord
  <2>12. CASE RunAbort(i) BY <2>0, <2>12 DEF RunAbort
  <2>13. CASE RunAssigned(i) BY <2>0, <2>13 DEF RunAssigned
  <2>14. CASE RunExits(i) BY <2>0, <2>14 DEF RunExits
  <2>15. CASE RunTimesOut(i) BY <2>0, <2>15 DEF RunTimesOut
  <2>16. CASE RunCancelled(i) BY <2>0, <2>16 DEF RunCancelled
  <2>17. CASE RunDrained(i) BY <2>0, <2>17 DEF RunDrained
  <2>18. CASE RunClose(i) BY <2>0, <2>18 DEF RunClose
  <2>19. CASE RunClean(i) BY <2>0, <2>19 DEF RunClean
  <2>20. CASE RunRemove(i) BY <2>0, <2>20 DEF RunRemove
  <2>21. CASE RunDisown(i) BY <2>0, <2>21 DEF RunDisown
  <2>22. CASE RunReturn(i) BY <2>0, <2>22 DEF RunReturn
  <2>23. CASE Retire(i) BY <2>0, <2>23 DEF Retire
  <2> QED BY <1>1, <2>1, <2>2, <2>3, <2>4, <2>5, <2>6, <2>7, <2>8, <2>9, <2>10, <2>11, <2>12, <2>13, <2>14, <2>15, <2>16, <2>17, <2>18, <2>19, <2>20, <2>21, <2>22, <2>23 DEF RunStep
<1>2. ASSUME NEW i \in Instance, ScanStep(i) PROVE Scanning'
  <2>1. CASE ScanOwned(i) BY <2>1 DEF ScanOwned
  <2>2. CASE ScanRemove(i) BY <2>2 DEF ScanRemove
  <2>3. CASE ScanRemoveFails(i) BY <2>3 DEF ScanRemoveFails
  <2>4. CASE ScanUnverified(i) BY <2>4 DEF ScanUnverified
  <2>5. CASE ScanMatches(i) BY <2>5 DEF ScanMatches, Examined, Removable, Disk
  <2>6. CASE ScanKeep(i) BY <2>6 DEF ScanKeep
  <2>7. CASE ScanKill(i) BY <2>7 DEF ScanKill
  <2>8. CASE ScanKillFails(i) BY <2>8 DEF ScanKillFails
  <2> QED BY <1>2, <2>1, <2>2, <2>3, <2>4, <2>5, <2>6, <2>7, <2>8 DEF ScanStep
<1>3. ASSUME NEW i \in Instance, OfferInsert(i) PROVE Scanning'
  BY <1>3 DEF OfferInsert
<1>4. ASSUME NEW i \in Instance, EnvStep(i) PROVE Scanning'
  <2>1. CASE TakeJob(i) BY <2>1 DEF TakeJob
  <2>2. CASE FinishJob(i) BY <2>2 DEF FinishJob
  <2>3. CASE Quit(i) BY <2>3 DEF Quit
  <2>4. CASE Signal(i) BY <2>4 DEF Signal
  <2>5. CASE RecyclePid(i) BY <2>5 DEF RecyclePid
  <2>6. CASE ReleasePid(i) BY <2>6 DEF ReleasePid
  <2>7. CASE Expire(i) BY <2>7 DEF Expire
  <2> QED BY <1>4, <2>1, <2>2, <2>3, <2>4, <2>5, <2>6, <2>7 DEF EnvStep
<1>5. ASSUME PollStep PROVE Scanning'
  <2>1. CASE PollStart BY <2>1 DEF PollStart, Listed, Beginnings
  <2>2. CASE ReadDirFails BY <2>2 DEF ReadDirFails
  <2>3. CASE ScanStore BY <2>3 DEF ScanStore
  <2>4. CASE ScanInterrupted BY <2>4 DEF ScanInterrupted
  <2>5. CASE PollObserve BY <2>5 DEF PollObserve
  <2>6. CASE PollEnd BY <2>6 DEF PollEnd
  <2>7. CASE OfferRecheck BY <2>7 DEF OfferRecheck
  <2> QED BY <1>5, <2>1, <2>2, <2>3, <2>4, <2>5, <2>6, <2>7 DEF PollStep
<1>6. ASSUME Restart PROVE Scanning' BY <1>6 DEF Restart
<1>7. CASE Stop BY <1>7 DEF Stop
<1>8. CASE UNCHANGED vars BY <1>8
<1> QED BY <1>1, <1>2, <1>3, <1>4, <1>5, <1>6, <1>7, <1>8 DEF Next, Crash, Shutdown

-----------------------------------------------------------------------------
(* The reservations for the directories without a Run. *)

(* One entry of the reconciliation: a directory it drops from its list     *)
(* without counting it is gone or has a Run, and one that it counts is     *)
(* there and has none.                                                     *)
LEMMA ScanAccount ==
  ASSUME TypeOK, Ledger, Scanning, Reservations, NEW i \in Instance, ScanStep(i)
  PROVE  /\ poll \in Scans
         /\ LostDirs' \subseteq LostDirs
         /\ Present' \subseteq Present
         /\ UNCHANGED <<pc, recovered, reconciled, left, covered, found>>
         /\ Dealt \subseteq Dealt'
         /\ \/ count' = count /\ Settled' \subseteq Settled
            \/ /\ count' = count + 1
               /\ Settled' \subseteq Settled \cup {i}
               /\ i \in Dealt' \ Dealt
<1>1. i \in left => i \notin owned
  BY DEF Reservations, Departed, Ledger, Supervised
<1> USE DEF TypeOK, LostDirs, Present, Settled, Unclaimed, Dealt, Scans, runVars,
            Pass, Free, Reserve, ReserveWithProblem, WritePhase, RemovalFails,
            Discardable, Examined, Scanning
<1>2. CASE ScanOwned(i) BY <1>1, <1>2 DEF ScanOwned
<1>3. CASE ScanRemove(i) BY <1>3 DEF ScanRemove
<1>4. CASE ScanRemoveFails(i) BY <1>4 DEF ScanRemoveFails
<1>5. CASE ScanUnverified(i) BY <1>5 DEF ScanUnverified, Removable, Disk
<1>6. CASE ScanMatches(i) BY <1>6 DEF ScanMatches
<1>7. CASE ScanKeep(i) BY <1>7 DEF ScanKeep
<1>8. CASE ScanKill(i) BY <1>8 DEF ScanKill
<1>9. CASE ScanKillFails(i) BY <1>9 DEF ScanKillFails
<1> QED BY <1>2, <1>3, <1>4, <1>5, <1>6, <1>7, <1>8, <1>9 DEF ScanStep

(* What is left of the account when directories only disappear.            *)
LEMMA AccountKept ==
  ASSUME TypeOK, Reservations, covered' \cap Present' \subseteq covered \cap Present,
         LostDirs' \subseteq LostDirs,
         UNCHANGED <<recovered, reconciled, covered, found>>
  PROVE  FailClosed' /\ recovered' <= Cardinality(found') + Strays
<1>1. Cardinality(covered' \cap Present') <= Cardinality(covered \cap Present)
      /\ Cardinality(covered' \cap Present') \in Nat
      /\ Cardinality(covered \cap Present) \in Nat
  <2>1. covered \cap Present \in SUBSET Instance
        /\ covered' \cap Present' \in SUBSET (covered \cap Present)
    BY DEF TypeOK
  <2>2. covered' \cap Present' \in SUBSET Instance
    BY <2>1
  <2> QED BY <2>1, <2>2, FiniteParts, Monotone
<1>2. Strays \in Nat /\ recovered \in Nat
  BY ManagerAssumption DEF TypeOK
<1> QED BY <1>1, <1>2 DEF Reservations, FailClosed

(* Reservations is preserved.                                              *)
LEMMA ReservationsStep ==
  ASSUME TypeOK, Ledger, Beginnings, Scanning, Reservations, [Next]_vars
  PROVE  Reservations'
<1>1. Settled \in SUBSET Instance /\ IsFiniteSet(Settled)
      /\ Cardinality(Settled) \in Nat /\ count \in Nat
      /\ Dealt \in SUBSET Instance /\ Dealt' \in SUBSET Instance
      /\ IsFiniteSet(Dealt) /\ Cardinality(Dealt) \in Nat
      /\ Cardinality(Dealt') \in Nat
      /\ Strays \in Nat
  BY FiniteParts, ManagerAssumption DEF Settled, Dealt, Unclaimed, Present, TypeOK
<1>2. ASSUME NEW i \in Instance, RunStep(i) \/ OfferInsert(i) \/ EnvStep(i)
      PROVE  Reservations'
  <2>1. /\ LostDirs' = LostDirs
        /\ UNCHANGED <<todo, count, recovered, reconciled, left, covered, found>>
        /\ poll' \in Scans => poll \in Scans
        /\ \A k \in left \cup covered : pc'[k] \in Departed /\ disk'[k] = disk[k]
    BY <1>2, AccountFrame DEF Reservations, TypeOK
  <2>2. left' \cap Present' = left \cap Present
        /\ covered' \cap Present' = covered \cap Present
    BY <2>1 DEF Present
  <2>3. FailClosed' /\ recovered' <= Cardinality(found') + Strays
    BY <2>1, <2>2, AccountKept
  <2>4. Settled' = Settled
    BY <2>1, <2>2 DEF Settled
  <2>5. Dealt \subseteq Dealt'
    <3> SUFFICES ASSUME NEW k \in Dealt PROVE k \in Dealt'
      OBVIOUS
    <3>1. k \in Instance /\ k \notin owned /\ disk[k] # "absent" /\ k \notin todo
      BY DEF Dealt, Unclaimed, Present
    <3>2. pc'[k] \in Departed /\ disk'[k] = disk[k]
      BY <1>2, <3>1, PastRun, AccountFrame
    <3>3. k \notin owned'
      BY <3>1, <3>2, OwnedStep DEF Ledger, Supervised, Departed
    <3> QED BY <2>1, <3>1, <3>2, <3>3 DEF Dealt, Unclaimed, Present
  <2>6. Cardinality(Dealt) <= Cardinality(Dealt')
    BY <1>1, <2>5, Monotone
  <2>7. poll' \in Scans
          => Cardinality(Settled') + Strays <= count'
             /\ count' <= Cardinality(Dealt') + Strays
             /\ LostDirs' \subseteq left'
    BY <1>1, <2>1, <2>4, <2>6 DEF Reservations, Scans
  <2> QED BY <2>1, <2>3, <2>7 DEF Reservations, Scans
<1>3. ASSUME NEW i \in Instance, ScanStep(i) PROVE Reservations'
  <2>1. /\ poll \in Scans
        /\ LostDirs' \subseteq LostDirs
        /\ Present' \subseteq Present
        /\ UNCHANGED <<pc, recovered, reconciled, left, covered, found>>
        /\ Dealt \subseteq Dealt'
    BY <1>3, ScanAccount
  <2>2. FailClosed' /\ recovered' <= Cardinality(found') + Strays
    BY <2>1, AccountKept
  <2>3. /\ Cardinality(Settled) + Strays <= count
        /\ count <= Cardinality(Dealt) + Strays
    BY <2>1 DEF Reservations, Scans
  <2>4. ASSUME count' = count, Settled' \subseteq Settled
        PROVE  /\ Cardinality(Settled') + Strays <= count'
               /\ count' <= Cardinality(Dealt') + Strays
    <3>1. Settled' \in SUBSET Instance
      BY <1>1, <2>4
    <3>2. Cardinality(Settled') <= Cardinality(Settled)
          /\ Cardinality(Settled') \in Nat
      BY <1>1, <2>4, <3>1, FiniteParts, Monotone
    <3>3. Cardinality(Dealt) <= Cardinality(Dealt')
      BY <1>1, <2>1, Monotone
    <3> QED BY <1>1, <2>3, <2>4, <3>2, <3>3
  <2>5. ASSUME count' = count + 1, Settled' \subseteq Settled \cup {i},
               i \in Dealt' \ Dealt
        PROVE  /\ Cardinality(Settled') + Strays <= count'
               /\ count' <= Cardinality(Dealt') + Strays
    <3> DEFINE D == Settled \cup {i}
               E == Dealt \cup {i}
    <3>1. /\ D \in SUBSET Instance /\ Settled' \in SUBSET D
          /\ E \in SUBSET Dealt'
      BY <1>1, <2>1, <2>5
    <3>2. /\ Cardinality(D) = IF i \in Settled THEN Cardinality(Settled)
                                               ELSE Cardinality(Settled) + 1
          /\ Cardinality(E) = Cardinality(Dealt) + 1
      BY <1>1, <2>5, FS_AddElement
    <3>3. Cardinality(Settled') <= Cardinality(D) /\ Cardinality(Settled') \in Nat
      <4>1. Settled' \in SUBSET Instance
        BY <3>1
      <4> HIDE DEF D
      <4> QED BY <3>1, <4>1, FiniteParts, Monotone
    <3>4. Cardinality(E) <= Cardinality(Dealt')
      <4> HIDE DEF E
      <4> QED BY <1>1, <3>1, Monotone
    <3> HIDE DEF D, E
    <3> QED BY <1>1, <2>3, <2>5, <3>2, <3>3, <3>4
  <2>6. /\ Cardinality(Settled') + Strays <= count'
        /\ count' <= Cardinality(Dealt') + Strays
    BY <1>3, <2>4, <2>5, ScanAccount
  <2> QED BY <2>1, <2>2, <2>6 DEF Reservations, Scans
<1>4. CASE PollStart
  <2>1. /\ UNCHANGED <<pc, disk, recovered, reconciled, covered, found>>
        /\ todo' = Present /\ left' = Present \ owned /\ count' = Strays
    BY <1>4 DEF PollStart, Listed, Present, Unclaimed, runVars
  <2>2. LostDirs' = LostDirs /\ Present' = Present
    BY <2>1 DEF LostDirs, Present
  <2>3. FailClosed' /\ recovered' <= Cardinality(found') + Strays
    BY <2>1, <2>2, AccountKept
  <2>4. Settled' = {} /\ Dealt' = {} /\ Cardinality({}) = 0
    BY <2>1, <2>2, FS_EmptySet DEF Settled, Dealt, Unclaimed
  <2>5. \A i \in left' : pc'[i] \in Departed
    BY <2>1 DEF TypeOK, PC, Ledger, Beginnings, EarlyPC, Supervised, Departed,
                Present
  <2>6. LostDirs' \subseteq left'
    BY <2>1, <2>2 DEF LostDirs, Present, Ledger, Supervised
  <2>7. \A i \in covered' : pc'[i] \in Departed
    BY <2>1 DEF Reservations
  <2> QED BY <1>1, <2>1, <2>3, <2>4, <2>5, <2>6, <2>7 DEF Reservations
<1>5. CASE ScanStore
  <2>1. /\ poll = "scan" /\ poll' = "gate" /\ todo = {}
        /\ recovered' = count /\ UNCHANGED <<pc, disk>>
        /\ covered' = left \cap Present /\ left' = {} /\ found' = Dealt
    BY <1>5 DEF ScanStore, Stored, Dealt, runVars
  <2>2. LostDirs' = LostDirs /\ Present' = Present
    BY <2>1 DEF LostDirs, Present
  <2>3. covered' \cap Present' = Settled /\ LostDirs \subseteq Present
    BY <2>1, <2>2 DEF Settled, LostDirs, Present
  <2>4. FailClosed' /\ recovered' <= Cardinality(found') + Strays
    BY <2>1, <2>2, <2>3 DEF FailClosed, Reservations
  <2> QED BY <2>1, <2>4 DEF Reservations
<1>6. CASE ReadDirFails \/ ScanInterrupted \/ PollObserve \/ PollEnd \/ OfferRecheck
  <2>1. /\ poll' \notin Scans /\ left' \in SUBSET left
        /\ UNCHANGED <<pc, disk, recovered, reconciled, covered, found>>
    BY <1>6 DEF ReadDirFails, ScanInterrupted, PollObserve, PollEnd,
                OfferRecheck, Scans, runVars
  <2>2. LostDirs' = LostDirs /\ Present' = Present
    BY <2>1 DEF LostDirs, Present
  <2>3. FailClosed' /\ recovered' <= Cardinality(found') + Strays
    BY <2>1, <2>2, AccountKept
  <2> QED BY <2>1, <2>3 DEF Reservations, Scans
<1>7. CASE Restart
  <2>1. /\ poll' = "tick" /\ ~reconciled' /\ recovered' = 0
        /\ left' = {} /\ covered' = {} /\ found' = {}
    BY <1>7 DEF Restart
  <2>2. FailClosed' /\ recovered' <= Cardinality(found') + Strays
    BY <1>1, <2>1, FS_EmptySet DEF FailClosed
  <2> QED BY <2>1, <2>2 DEF Reservations
<1>8. CASE Stop \/ UNCHANGED vars
  <2>1. UNCHANGED <<pc, disk, owned, poll, todo, count, recovered, reconciled,
                    left, covered, found>>
    BY <1>8 DEF Stop, vars, runVars, pollVars
  <2>2. LostDirs' = LostDirs /\ Present' = Present /\ Settled' = Settled
        /\ Dealt' = Dealt
    BY <2>1 DEF LostDirs, Present, Settled, Dealt, Unclaimed
  <2> QED BY <2>1, <2>2 DEF Reservations, FailClosed
<1> QED
  BY <1>2, <1>3, <1>4, <1>5, <1>6, <1>7, <1>8
  DEF Next, Crash, Shutdown, PollStep

(* Once this incarnation has counted, the directories of the earlier ones  *)
(* hold a slot each.                                                       *)
LEMMA LostCounted ==
  ASSUME TypeOK, Reservations, reconciled
  PROVE  Cardinality(LostDirs) <= recovered
<1>1. covered \cap Present \in SUBSET Instance
      /\ LostDirs \in SUBSET (covered \cap Present)
  BY DEF Reservations, FailClosed, LostDirs, Present, TypeOK
<1>2. Cardinality(LostDirs) <= Cardinality(covered \cap Present)
      /\ Cardinality(LostDirs) \in Nat
      /\ Cardinality(covered \cap Present) \in Nat
  <2>1. LostDirs \in SUBSET Instance
    BY <1>1
  <2> QED BY <1>1, <2>1, FiniteParts, Monotone
<1> QED BY <1>2, ManagerAssumption DEF Reservations, FailClosed, TypeOK

-----------------------------------------------------------------------------
(* The place of a Run and its directory. *)

(* Whatever fails, a Run finds on disk what it left there.                 *)
LEMMA PlacesStep ==
  ASSUME TypeOK, Ledger, Beginnings, Scanning, Places, [Next]_vars
  PROVE  Places'
<1> SUFFICES ASSUME NEW j \in Instance PROVE Place(j)'
  BY DEF Places
<1>0. Place(j) /\ TypeOK /\ Ledger /\ Scanning
      /\ (pc[j] \in EarlyPC => disk[j] = "absent" /\ proc[j] = "none")
  BY DEF Places, Beginnings
<1> USE <1>0 DEF TypeOK, PC, Place, Supervised, Watched, Alive, EarlyPC,
            Goto, WritePhase, WriteFails, WriteOrIgnore, RemovalFails, Killed,
            TerminateFails, CleanupFailed
<1>1. ASSUME NEW i \in Instance, RunStep(i) PROVE Place(j)'
  <2>1. CASE RunEnter(i) BY <2>1 DEF RunEnter
  <2>2. CASE RunAdmit(i) BY <2>2 DEF RunAdmit
  <2>3. CASE RunReject(i) BY <2>3 DEF RunReject
  <2>4. CASE RunNoID(i) BY <2>4 DEF RunNoID
  <2>5. CASE RunOwn(i) BY <2>5 DEF RunOwn
  <2>6. CASE RunCopy(i) BY <2>6 DEF RunCopy
  <2>7. CASE RunPrepare(i) BY <2>7 DEF RunPrepare
  <2>8. CASE RunDiscard(i) BY <2>8 DEF RunDiscard
  <2>9. CASE RunStart(i) BY <2>9 DEF RunStart
  <2>10. CASE RunStartFails(i) BY <2>10 DEF RunStartFails
  <2>11. CASE RunRecord(i) BY <2>11 DEF RunRecord
  <2>12. CASE RunAbort(i) BY <2>12 DEF RunAbort
  <2>13. CASE RunAssigned(i) BY <2>13 DEF RunAssigned
  <2>14. CASE RunExits(i) BY <2>14 DEF RunExits
  <2>15. CASE RunTimesOut(i) BY <2>15 DEF RunTimesOut
  <2>16. CASE RunCancelled(i) BY <2>16 DEF RunCancelled
  <2>17. CASE RunDrained(i) BY <2>17 DEF RunDrained
  <2>18. CASE RunClose(i) BY <2>18 DEF RunClose
  <2>19. CASE RunClean(i) BY <2>19 DEF RunClean
  <2>20. CASE RunRemove(i) BY <2>20 DEF RunRemove
  <2>21. CASE RunDisown(i) BY <2>21 DEF RunDisown
  <2>22. CASE RunReturn(i) BY <2>22 DEF RunReturn
  <2>23. CASE Retire(i) BY <2>23 DEF Retire
  <2> QED BY <1>1, <2>1, <2>2, <2>3, <2>4, <2>5, <2>6, <2>7, <2>8, <2>9, <2>10, <2>11, <2>12, <2>13, <2>14, <2>15, <2>16, <2>17, <2>18, <2>19, <2>20, <2>21, <2>22, <2>23 DEF RunStep
<1>2. ASSUME NEW i \in Instance, ScanStep(i) PROVE Place(j)'
  <2>1. pc' = pc
    BY <1>2 DEF ScanStep, ScanOwned, ScanRemove, ScanRemoveFails, runVars,
                ScanUnverified, ScanMatches, ScanKeep, ScanKill, ScanKillFails
  <2>2. ScanRemove(i) \/ ScanRemoveFails(i)
          => i \in todo \ owned
    BY DEF ScanRemove, ScanRemoveFails, Discardable, Examined, Scanning
  <2>3. CASE ScanRemove(i) \/ ScanRemoveFails(i)
    <3>1. ~Supervised(i) /\ pc[i] \notin EarlyPC
      BY <2>2, <2>3 DEF Ledger, Scanning
    <3>2. proc' = proc /\ \A k \in Instance \ {i} : disk'[k] = disk[k]
      BY <2>3 DEF ScanRemove, ScanRemoveFails
    <3> QED BY <2>1, <3>1, <3>2
  <2>4. CASE ScanKill(i)
    <3>1. i \in todo \ owned
      BY <2>4 DEF ScanKill, Scanning
    <3>2. disk' = disk /\ proc' = [proc EXCEPT ![i] = IF Alive(i) THEN "gone" ELSE @]
      BY <2>4 DEF ScanKill
    <3>3. pc[i] \notin {"copied", "discard", "prepared"}
      BY <3>1 DEF Ledger
    <3>4. CASE j = i BY <2>1, <3>2, <3>3, <3>4
    <3>5. CASE j # i BY <2>1, <3>2, <3>5
    <3> QED BY <3>4, <3>5
  <2>5. CASE ScanOwned(i) \/ ScanUnverified(i) \/ ScanMatches(i) \/ ScanKeep(i)
             \/ ScanKillFails(i)
    <3>1. UNCHANGED <<disk, proc>>
      BY <2>5 DEF ScanOwned, ScanUnverified, ScanMatches, ScanKeep, ScanKillFails
    <3> QED BY <2>1, <3>1
  <2> QED BY <1>2, <2>3, <2>4, <2>5 DEF ScanStep
<1>3. ASSUME NEW i \in Instance, OfferInsert(i) PROVE Place(j)'
  BY <1>3 DEF OfferInsert
<1>4. ASSUME NEW i \in Instance, EnvStep(i) PROVE Place(j)'
  <2>1. CASE TakeJob(i) BY <2>1 DEF TakeJob, runVars
  <2>2. CASE FinishJob(i) BY <2>2 DEF FinishJob, runVars
  <2>3. CASE Quit(i) BY <2>3 DEF Quit, runVars
  <2>4. CASE Signal(i) BY <2>4 DEF Signal, runVars
  <2>5. CASE RecyclePid(i) BY <2>5 DEF RecyclePid, runVars
  <2>6. CASE ReleasePid(i) BY <2>6 DEF ReleasePid, runVars
  <2>7. CASE Expire(i) BY <2>7 DEF Expire, runVars
  <2> QED BY <1>4, <2>1, <2>2, <2>3, <2>4, <2>5, <2>6, <2>7 DEF EnvStep
<1>5. ASSUME PollStep \/ Stop \/ UNCHANGED vars PROVE Place(j)'
  <2>1. UNCHANGED <<pc, disk, proc>>
    BY <1>5 DEF PollStep, PollStart, ReadDirFails, ScanStore, ScanInterrupted,
                PollObserve, PollEnd, OfferRecheck, Stop, vars, runVars
  <2> QED BY <2>1
<1>6. ASSUME Restart PROVE Place(j)'
  <2>1. UNCHANGED <<disk, proc>>
    BY <1>6 DEF Restart
  <2>2. pc'[j] = IF j \in Active THEN "lost" ELSE pc[j]
    BY <1>6 DEF Restart
  <2>3. pc[j] \in {"unborn", "over", "lost"} \/ j \in Active
    BY DEF Active
  <2> QED BY <2>1, <2>2, <2>3
<1> QED BY <1>1, <1>2, <1>3, <1>4, <1>5, <1>6 DEF Next, Crash, Shutdown

-----------------------------------------------------------------------------
(* BaseInv, under every fault. *)

(* BaseInv holds initially.                                                *)
LEMMA BaseInit == Init => BaseInv
<1> SUFFICES ASSUME Init PROVE BaseInv
  OBVIOUS
<1>1. TypeOK
  BY DEF Init, TypeOK, PC, Disk, PollPC
<1>2. Ledger
  <2>1. Counted = {} /\ {i \in Instance : Supervised(i)} = {}
    BY DEF Init, Counted, PassedPC, Supervised
  <2> QED BY <2>1, FS_EmptySet DEF Init, Ledger
<1>3. Beginnings /\ Scanning /\ Reservations
  <2>1. Cardinality(found) = 0
    BY FS_EmptySet DEF Init
  <2> QED BY <2>1, ManagerAssumption
          DEF Init, Beginnings, Scanning, Reservations, FailClosed
<1>4. Tickets
  <2>1. ASSUME NEW n \in 0 .. Capacity PROVE TicketsUpTo(n) = {}
    BY DEF Init, TicketsUpTo, Counted, PassedPC
  <2> QED BY <2>1, FS_EmptySet, ManagerAssumption DEF Tickets
<1>5. Lifecycles
  <2>1. Active = {}
    BY DEF Init, Active
  <2> QED BY <2>1, FS_EmptySet, ManagerAssumption DEF Init, Lifecycles
<1>6. Places
  BY DEF Init, Places, Place, Supervised
<1> QED BY <1>1, <1>2, <1>3, <1>4, <1>5, <1>6 DEF BaseInv

(* BaseInv is preserved by every step.                                     *)
LEMMA BaseStep == BaseInv /\ [Next]_vars => BaseInv'
<1> SUFFICES ASSUME BaseInv, [Next]_vars PROVE BaseInv'
  OBVIOUS
<1> USE DEF BaseInv
<1>1. Ledger' /\ local' \in Nat BY LedgerStep
<1>2. TypeOK' BY <1>1, TypesStep
<1>3. Beginnings' /\ Scanning' BY BeginningsStep, ScanningStep
<1>4. Reservations' /\ Tickets' BY ReservationsStep, TicketsStep
<1>5. Lifecycles' /\ Places' BY LifecyclesStep, PlacesStep
<1> QED BY <1>1, <1>2, <1>3, <1>4, <1>5

(* BaseInv is an invariant of the manager.                                 *)
THEOREM BaseInvariance == Spec => []BaseInv
  BY BaseInit, BaseStep, PTL DEF Spec

(* Every variable keeps its type; in particular neither counter of the     *)
(* manager ever goes below zero.                                           *)
THEOREM TypeCorrect == Spec => []TypeOK
<1>1. BaseInv => TypeOK BY DEF BaseInv
<1> QED BY <1>1, BaseInvariance, PTL

(* Whatever fails, every directory without a Run that the last stored      *)
(* reconciliation listed, and that is still there, holds a slot.           *)
THEOREM FailsClosed == Spec => []FailClosed
<1>1. BaseInv => FailClosed BY DEF BaseInv, Reservations, FailClosed
<1> QED BY <1>1, BaseInvariance, PTL

(* Reconciliation never touches a directory or a process that a Run of the *)
(* same process supervises.                                                *)
THEOREM SupervisedSafe == Spec => SupervisedUntouched
<1> DEFINE Untouched == \A i \in Instance : Supervised(i) => /\ disk'[i] = disk[i]
                                                             /\ proc'[i] = proc[i]
           Turn == todo' # todo \/ poll' # poll => Untouched
<1>1. ASSUME BaseInv, [Next]_vars
      PROVE  Turn
  <2>0. TypeOK /\ Ledger /\ Scanning
    BY <1>1 DEF BaseInv
  <2>1. ASSUME NEW i \in Instance, ScanStep(i) PROVE Untouched
    <3>1. CASE ScanRemove(i) \/ ScanRemoveFails(i)
      <4>1. i \in todo \ owned
        BY <2>0, <3>1 DEF ScanRemove, ScanRemoveFails, Discardable, Examined,
                          Scanning
      <4>2. /\ proc' = proc
            /\ \A k \in Instance \ {i} : disk'[k] = disk[k]
        BY <2>0, <3>1 DEF ScanRemove, ScanRemoveFails, WritePhase, RemovalFails,
                          TypeOK
      <4> QED BY <2>0, <4>1, <4>2 DEF Ledger
    <3>2. CASE ScanKill(i)
      <4>1. i \in todo \ owned
        BY <2>0, <3>2 DEF ScanKill, Scanning
      <4>2. /\ disk' = disk
            /\ \A k \in Instance \ {i} : proc'[k] = proc[k]
        BY <2>0, <3>2 DEF ScanKill, Killed, TypeOK
      <4> QED BY <2>0, <4>1, <4>2 DEF Ledger
    <3>3. CASE ScanOwned(i) \/ ScanUnverified(i) \/ ScanMatches(i)
               \/ ScanKeep(i) \/ ScanKillFails(i)
      BY <3>3 DEF ScanOwned, ScanUnverified, ScanMatches, ScanKeep, ScanKillFails
    <3> QED BY <2>1, <3>1, <3>2, <3>3 DEF ScanStep
  <2>2. ASSUME PollStep \/ Restart \/ \E i \in Instance : OfferInsert(i)
        PROVE  Untouched
    BY <2>2 DEF PollStep, PollStart, ReadDirFails, ScanStore, ScanInterrupted,
                PollObserve, PollEnd, OfferRecheck, Restart, OfferInsert
  <2>3. ASSUME NEW i \in Instance, RunStep(i) \/ EnvStep(i)
        PROVE  UNCHANGED <<todo, poll>>
    <3>1. RunStep(i) => UNCHANGED <<todo, poll>>
      BY DEF pollVars, RunStep, RunEnter, RunAdmit, RunReject, RunNoID, RunOwn,
             RunCopy, RunPrepare, RunDiscard, RunStart, RunStartFails,
             RunRecord, RunAbort, RunAssigned, RunExits, RunTimesOut,
             RunCancelled, RunDrained, RunClose, RunClean, RunRemove,
             RunDisown, RunReturn, Retire
    <3>2. EnvStep(i) => UNCHANGED <<todo, poll>>
      BY DEF pollVars, EnvStep, TakeJob, FinishJob, Quit, Signal, RecyclePid,
             ReleasePid, Expire
    <3> QED BY <2>3, <3>1, <3>2
  <2>4. Stop \/ UNCHANGED vars => UNCHANGED <<todo, poll>>
    BY DEF Stop, vars, pollVars
  <2> QED BY <1>1, <2>1, <2>2, <2>3, <2>4 DEF Next, Crash, Shutdown
<1>2. BaseInv /\ [Next]_vars => [Turn]_vars
  BY <1>1
<1>3. SupervisedUntouched <=> [][Turn]_vars
  BY DEF SupervisedUntouched
<1> HIDE DEF Turn
<1> QED BY <1>2, <1>3, BaseInvariance, PTL DEF Spec

(* A Run is refused only because of directories that nobody runs, or of    *)
(* foreign entries; its ticket alone is never above the capacity.          *)
THEOREM RejectionsJustified == Spec => RejectedForRecovered
<1> DEFINE Justified == \A i \in Instance :
             pc[i] = "entered" /\ pc'[i] = "rejected"
               => found # {} \/ Strays > 0
<1>1. ASSUME BaseInv, [Next]_vars PROVE Justified
  <2> SUFFICES ASSUME NEW j \in Instance, pc[j] = "entered", pc'[j] = "rejected"
               PROVE  found # {} \/ Strays > 0
    OBVIOUS
  <2>1. /\ TypeOK /\ Lifecycles /\ Capacity \in Nat /\ Strays \in Nat
        /\ recovered <= Cardinality(found) + Strays
    BY <1>1, ManagerAssumption DEF BaseInv, Reservations
  <2>2. ASSUME NEW i \in Instance, RunStep(i) PROVE ~Fits(j)
    <3>1. CASE RunReject(i)
      BY <2>1, <3>1 DEF RunReject, Goto, TypeOK
    <3>2. CASE ~RunReject(i)
      BY <2>1, <2>2, <3>2
      DEF TypeOK, Goto, RunStep, RunEnter, RunAdmit, RunNoID, RunOwn, RunCopy,
          RunPrepare, RunDiscard, RunStart, RunStartFails, RunRecord, RunAbort,
          RunAssigned, RunExits, RunTimesOut, RunCancelled, RunDrained,
          RunClose, RunClean, RunRemove, RunDisown, RunReturn, Retire
    <3> QED BY <3>1, <3>2
  <2>3. ASSUME NEW i \in Instance, OfferInsert(i) PROVE FALSE
    BY <2>1, <2>3 DEF OfferInsert, Goto, TypeOK
  <2>4. Restart => FALSE
    BY DEF Restart
  <2>5. ~Fits(j)
    BY <1>1, <2>2, <2>3, <2>4, GoroutineFrame
  <2>6. recovered > 0
    BY <2>1, <2>5 DEF Fits, Lifecycles, TypeOK
  <2>7. CASE found = {}
    <3>1. Cardinality(found) = 0
      BY <2>7, FS_EmptySet
    <3> QED BY <2>1, <2>6, <3>1 DEF TypeOK
  <2> QED BY <2>7
<1>2. BaseInv /\ [Next]_vars => [Justified]_vars
  BY <1>1
<1>3. RejectedForRecovered <=> [][Justified]_vars
  BY DEF RejectedForRecovered
<1> HIDE DEF Justified
<1> QED BY <1>2, <1>3, BaseInvariance, PTL DEF Spec

(* Whatever fails, a job whose assignment is on disk outlives every crash  *)
(* and every reconciliation.                                               *)
THEOREM RecordedJobSafe == Spec => RecordedJobSurvives
<1> DEFINE Spared == \A i \in Instance :
                       /\ disk[i] = "assigned"
                       /\ proc[i] = "busy"
                       /\ pc' # pc \/ poll' # poll
                       /\ ~stopping
                       => proc'[i] = "busy"
<1>1. ASSUME BaseInv, [Next]_vars PROVE Spared
  <2> SUFFICES ASSUME NEW j \in Instance, disk[j] = "assigned", proc[j] = "busy",
                      pc' # pc \/ poll' # poll, ~stopping
               PROVE  proc'[j] = "busy"
    OBVIOUS
  <2>0. Place(j) /\ TypeOK
    BY <1>1 DEF BaseInv, Places
  <2>1. ASSUME NEW i \in Instance, RunStep(i) PROVE proc'[j] = "busy"
    <3>1. CASE RunStart(i) \/ RunAbort(i) \/ RunTimesOut(i)
      <4>1. i # j
        BY <2>0, <3>1 DEF Place, RunStart, RunAbort, RunTimesOut, Goto
      <4> QED BY <2>0, <3>1, <4>1 DEF TypeOK, RunStart, RunAbort, RunTimesOut,
                                      Killed, TerminateFails
    <3>2. ~RunCancelled(i)
      BY DEF RunCancelled
    <3>3. CASE ~(RunStart(i) \/ RunAbort(i) \/ RunTimesOut(i))
      BY <2>1, <3>2, <3>3
      DEF RunStep, RunEnter, RunAdmit, RunReject, RunNoID, RunOwn, RunCopy,
          RunPrepare, RunDiscard, RunStartFails, RunRecord, RunAssigned,
          RunExits, RunDrained, RunClose, RunClean, RunRemove, RunDisown,
          RunReturn, Retire
    <3> QED BY <3>1, <3>3
  <2>2. ASSUME NEW i \in Instance, ScanStep(i) PROVE proc'[j] = "busy"
    <3>1. CASE ScanKill(i)
      <4>1. i # j
        BY <3>1 DEF ScanKill, Expired
      <4> QED BY <2>0, <3>1, <4>1 DEF TypeOK, ScanKill, Killed
    <3>2. CASE ~ScanKill(i)
      BY <2>2, <3>2 DEF ScanStep, ScanOwned, ScanRemove, ScanRemoveFails,
                        ScanUnverified, ScanMatches, ScanKeep, ScanKillFails
    <3> QED BY <3>1, <3>2
  <2>3. ASSUME NEW i \in Instance, EnvStep(i) PROVE FALSE
    BY <2>3 DEF EnvStep, TakeJob, FinishJob, Quit, Signal, RecyclePid,
                ReleasePid, Expire, runVars, pollVars
  <2>4. ASSUME PollStep \/ Restart \/ Stop \/ UNCHANGED vars
               \/ \E i \in Instance : OfferInsert(i)
        PROVE  proc'[j] = "busy"
    BY <2>4 DEF PollStep, PollStart, ReadDirFails, ScanStore, ScanInterrupted,
                PollObserve, PollEnd, OfferRecheck, Stop, Restart, OfferInsert,
                vars
  <2> QED BY <1>1, <2>1, <2>2, <2>3, <2>4 DEF Next, Crash, Shutdown
<1>2. BaseInv /\ [Next]_vars => [Spared]_vars
  BY <1>1
<1>3. RecordedJobSurvives <=> [][Spared]_vars
  BY DEF RecordedJobSurvives
<1> HIDE DEF Spared
<1> QED BY <1>2, <1>3, BaseInvariance, PTL DEF Spec

-----------------------------------------------------------------------------
(* NoOrphan, when a Run can terminate its runner, no crash falls between   *)
(* the start of a runner and the manifest that names it, and no manifest   *)
(* that is in order fails to be read.                                      *)

Observed == Faults \cap {"terminate", "launch_window", "unread"} = {}

(* No step loses sight of a live runner.                                   *)
LEMMA NoOrphanStep ==
  ASSUME Observed, BaseInv, NoOrphan, [Next]_vars
  PROVE  NoOrphan'
<1> SUFFICES ASSUME NEW j \in Instance, Alive(j)'
             PROVE  Watched(j)' \/ (pc'[j] = "lost" /\ disk'[j] \in {"waiting", "assigned"})
  BY DEF NoOrphan, Live, Alive
<1>0. /\ Place(j) /\ TypeOK /\ Ledger /\ Scanning
      /\ (pc[j] \in EarlyPC => disk[j] = "absent" /\ proc[j] = "none")
      /\ Alive(j) => Watched(j) \/ (pc[j] = "lost" /\ disk[j] \in {"waiting", "assigned"})
  BY DEF BaseInv, Places, Beginnings, NoOrphan, Live
<1> DEFINE Seen == Watched(j)' \/ (pc'[j] = "lost" /\ disk'[j] \in {"waiting", "assigned"})
<1> USE <1>0 DEF Observed, TypeOK, PC, Place, Supervised, Watched, Alive, EarlyPC,
            Goto, WritePhase, WriteFails, WriteOrIgnore, RemovalFails, Killed,
            TerminateFails, CleanupFailed
<1>1. ASSUME NEW i \in Instance, RunStep(i) PROVE Seen
  <2>1. CASE RunEnter(i) BY <2>1 DEF RunEnter
  <2>2. CASE RunAdmit(i) BY <2>2 DEF RunAdmit
  <2>3. CASE RunReject(i) BY <2>3 DEF RunReject
  <2>4. CASE RunNoID(i) BY <2>4 DEF RunNoID
  <2>5. CASE RunOwn(i) BY <2>5 DEF RunOwn
  <2>6. CASE RunCopy(i) BY <2>6 DEF RunCopy
  <2>7. CASE RunPrepare(i) BY <2>7 DEF RunPrepare
  <2>8. CASE RunDiscard(i) BY <2>8 DEF RunDiscard
  <2>9. CASE RunStart(i) BY <2>9 DEF RunStart
  <2>10. CASE RunStartFails(i) BY <2>10 DEF RunStartFails
  <2>11. CASE RunRecord(i) BY <2>11 DEF RunRecord
  <2>12. CASE RunAbort(i) BY <2>12 DEF RunAbort
  <2>13. CASE RunAssigned(i) BY <2>13 DEF RunAssigned
  <2>14. CASE RunExits(i) BY <2>14 DEF RunExits
  <2>15. CASE RunTimesOut(i) BY <2>15 DEF RunTimesOut
  <2>16. CASE RunCancelled(i) BY <2>16 DEF RunCancelled
  <2>17. CASE RunDrained(i) BY <2>17 DEF RunDrained
  <2>18. CASE RunClose(i) BY <2>18 DEF RunClose
  <2>19. CASE RunClean(i) BY <2>19 DEF RunClean
  <2>20. CASE RunRemove(i) BY <2>20 DEF RunRemove
  <2>21. CASE RunDisown(i) BY <2>21 DEF RunDisown
  <2>22. CASE RunReturn(i) BY <2>22 DEF RunReturn
  <2>23. CASE Retire(i) BY <2>23 DEF Retire
  <2> QED BY <1>1, <2>1, <2>2, <2>3, <2>4, <2>5, <2>6, <2>7, <2>8, <2>9, <2>10, <2>11, <2>12, <2>13, <2>14, <2>15, <2>16, <2>17, <2>18, <2>19, <2>20, <2>21, <2>22, <2>23 DEF RunStep
<1>2. ASSUME NEW i \in Instance, ScanStep(i) PROVE Seen
  <2>1. pc' = pc
    BY <1>2 DEF ScanStep, ScanOwned, ScanRemove, ScanRemoveFails, runVars,
                ScanUnverified, ScanMatches, ScanKeep, ScanKill, ScanKillFails
  <2>2. ScanRemove(i) \/ ScanRemoveFails(i)
          => i \in todo \ owned /\ (Removable(i) \/ ~Alive(i))
    BY DEF ScanRemove, ScanRemoveFails, Discardable, Examined, Missing, Unreadable,
           Removable, Scanning
  <2>3. CASE ScanRemove(i) \/ ScanRemoveFails(i)
    <3>1. ~Supervised(i) /\ (Removable(i) \/ ~Alive(i))
      BY <2>2, <2>3 DEF Ledger
    <3>2. proc' = proc /\ \A k \in Instance \ {i} : disk'[k] = disk[k]
      BY <2>3 DEF ScanRemove, ScanRemoveFails
    <3> QED BY <2>1, <3>1, <3>2 DEF Removable
  <2>4. CASE ScanKill(i)
    <3>1. disk' = disk /\ proc' = [proc EXCEPT ![i] = IF Alive(i) THEN "gone" ELSE @]
      BY <2>4 DEF ScanKill
    <3> QED BY <2>1, <3>1
  <2>5. CASE ScanOwned(i) \/ ScanUnverified(i) \/ ScanMatches(i) \/ ScanKeep(i)
             \/ ScanKillFails(i)
    <3>1. UNCHANGED <<disk, proc>>
      BY <2>5 DEF ScanOwned, ScanUnverified, ScanMatches, ScanKeep, ScanKillFails
    <3> QED BY <2>1, <3>1
  <2> QED BY <1>2, <2>3, <2>4, <2>5 DEF ScanStep
<1>3. ASSUME NEW i \in Instance, OfferInsert(i) PROVE Seen
  BY <1>3 DEF OfferInsert
<1>4. ASSUME NEW i \in Instance, EnvStep(i) PROVE Seen
  <2>1. CASE TakeJob(i) BY <2>1 DEF TakeJob, runVars
  <2>2. CASE FinishJob(i) BY <2>2 DEF FinishJob, runVars
  <2>3. CASE Quit(i) BY <2>3 DEF Quit, runVars
  <2>4. CASE Signal(i) BY <2>4 DEF Signal, runVars
  <2>5. CASE RecyclePid(i) BY <2>5 DEF RecyclePid, runVars
  <2>6. CASE ReleasePid(i) BY <2>6 DEF ReleasePid, runVars
  <2>7. CASE Expire(i) BY <2>7 DEF Expire, runVars
  <2> QED BY <1>4, <2>1, <2>2, <2>3, <2>4, <2>5, <2>6, <2>7 DEF EnvStep
<1>5. ASSUME PollStep \/ Stop \/ UNCHANGED vars PROVE Seen
  <2>1. UNCHANGED <<pc, disk, proc>>
    BY <1>5 DEF PollStep, PollStart, ReadDirFails, ScanStore, ScanInterrupted,
                PollObserve, PollEnd, OfferRecheck, Stop, vars, runVars
  <2> QED BY <2>1
<1>6. ASSUME Restart PROVE Seen
  <2>1. UNCHANGED <<disk, proc>> /\ ~InLaunchWindow(j)
    BY <1>6 DEF Restart
  <2>2. pc'[j] = IF j \in Active THEN "lost" ELSE pc[j]
    BY <1>6 DEF Restart
  <2> QED BY <2>1, <2>2 DEF InLaunchWindow, Active
<1> QED BY <1>1, <1>2, <1>3, <1>4, <1>5, <1>6 DEF Next, Crash, Shutdown

(* A live runner is watched by its Run or recorded for the next one,       *)
(* whether or not the state directory can be listed, as long as manifests  *)
(* in order can be read.                                                   *)
THEOREM NoRunnerOrphaned ==
  ASSUME Observed
  PROVE  Spec => []NoOrphan
<1>1. Init => NoOrphan
  BY DEF Init, NoOrphan, Live, Alive
<1>2. BaseInv /\ NoOrphan /\ [Next]_vars => NoOrphan'
  BY NoOrphanStep
<1> QED BY <1>1, <1>2, BaseInvariance, PTL DEF Spec

-----------------------------------------------------------------------------
(* IInv, when moreover the state directory can be listed. *)

Benign == Observed /\ "readdir" \notin Faults

(* Nothing is offered before the first count.                              *)
LEMMA CountedFirstStep ==
  ASSUME Benign, TypeOK, CountedFirst, [Next]_vars
  PROVE  CountedFirst'
<1> USE DEF Benign, TypeOK, PC, CountedFirst, Active, vars, runVars, pollVars,
            ctxVars, Goto, Pass, Free, Reserve, ReserveWithProblem
<1>1. ASSUME NEW i \in Instance, RunStep(i) PROVE CountedFirst'
  <2>1. CASE RunEnter(i) BY <2>1 DEF RunEnter
  <2>2. CASE RunAdmit(i) BY <2>2 DEF RunAdmit
  <2>3. CASE RunReject(i) BY <2>3 DEF RunReject
  <2>4. CASE RunNoID(i) BY <2>4 DEF RunNoID
  <2>5. CASE RunOwn(i) BY <2>5 DEF RunOwn
  <2>6. CASE RunCopy(i) BY <2>6 DEF RunCopy
  <2>7. CASE RunPrepare(i) BY <2>7 DEF RunPrepare
  <2>8. CASE RunDiscard(i) BY <2>8 DEF RunDiscard
  <2>9. CASE RunStart(i) BY <2>9 DEF RunStart
  <2>10. CASE RunStartFails(i) BY <2>10 DEF RunStartFails
  <2>11. CASE RunRecord(i) BY <2>11 DEF RunRecord
  <2>12. CASE RunAbort(i) BY <2>12 DEF RunAbort
  <2>13. CASE RunAssigned(i) BY <2>13 DEF RunAssigned
  <2>14. CASE RunExits(i) BY <2>14 DEF RunExits
  <2>15. CASE RunTimesOut(i) BY <2>15 DEF RunTimesOut
  <2>16. CASE RunCancelled(i) BY <2>16 DEF RunCancelled
  <2>17. CASE RunDrained(i) BY <2>17 DEF RunDrained
  <2>18. CASE RunClose(i) BY <2>18 DEF RunClose
  <2>19. CASE RunClean(i) BY <2>19 DEF RunClean
  <2>20. CASE RunRemove(i) BY <2>20 DEF RunRemove
  <2>21. CASE RunDisown(i) BY <2>21 DEF RunDisown
  <2>22. CASE RunReturn(i) BY <2>22 DEF RunReturn
  <2>23. CASE Retire(i) BY <2>23 DEF Retire
  <2> QED BY <1>1, <2>1, <2>2, <2>3, <2>4, <2>5, <2>6, <2>7, <2>8, <2>9, <2>10, <2>11, <2>12, <2>13, <2>14, <2>15, <2>16, <2>17, <2>18, <2>19, <2>20, <2>21, <2>22, <2>23 DEF RunStep
<1>2. ASSUME NEW i \in Instance, ScanStep(i) PROVE CountedFirst'
  <2>1. CASE ScanOwned(i) BY <2>1 DEF ScanOwned
  <2>2. CASE ScanRemove(i) BY <2>2 DEF ScanRemove
  <2>3. CASE ScanRemoveFails(i) BY <2>3 DEF ScanRemoveFails
  <2>4. CASE ScanUnverified(i) BY <2>4 DEF ScanUnverified
  <2>5. CASE ScanMatches(i) BY <2>5 DEF ScanMatches
  <2>6. CASE ScanKeep(i) BY <2>6 DEF ScanKeep
  <2>7. CASE ScanKill(i) BY <2>7 DEF ScanKill
  <2>8. CASE ScanKillFails(i) BY <2>8 DEF ScanKillFails
  <2> QED BY <1>2, <2>1, <2>2, <2>3, <2>4, <2>5, <2>6, <2>7, <2>8 DEF ScanStep
<1>3. ASSUME NEW i \in Instance, OfferInsert(i) PROVE CountedFirst'
  BY <1>3 DEF OfferInsert
<1>4. ASSUME NEW i \in Instance, EnvStep(i) PROVE CountedFirst'
  <2>1. CASE TakeJob(i) BY <2>1 DEF TakeJob
  <2>2. CASE FinishJob(i) BY <2>2 DEF FinishJob
  <2>3. CASE Quit(i) BY <2>3 DEF Quit
  <2>4. CASE Signal(i) BY <2>4 DEF Signal
  <2>5. CASE RecyclePid(i) BY <2>5 DEF RecyclePid
  <2>6. CASE ReleasePid(i) BY <2>6 DEF ReleasePid
  <2>7. CASE Expire(i) BY <2>7 DEF Expire
  <2> QED BY <1>4, <2>1, <2>2, <2>3, <2>4, <2>5, <2>6, <2>7 DEF EnvStep
<1>5. ASSUME PollStep PROVE CountedFirst'
  <2>1. CASE PollStart BY <2>1 DEF PollStart
  <2>2. CASE ReadDirFails BY <2>2 DEF ReadDirFails
  <2>3. CASE ScanStore BY <2>3 DEF ScanStore
  <2>4. CASE ScanInterrupted BY <2>4 DEF ScanInterrupted
  <2>5. CASE PollObserve BY <2>5 DEF PollObserve, GateOpens
  <2>6. CASE PollEnd BY <2>6 DEF PollEnd
  <2>7. CASE OfferRecheck BY <2>7 DEF OfferRecheck
  <2> QED BY <1>5, <2>1, <2>2, <2>3, <2>4, <2>5, <2>6, <2>7 DEF PollStep
<1>6. ASSUME Restart PROVE CountedFirst'
  <2>1. Active' = {}
    BY <1>6 DEF Restart
  <2> QED BY <1>6, <2>1 DEF Restart
<1>7. CASE Stop BY <1>7 DEF Stop
<1>8. CASE UNCHANGED vars BY <1>8
<1> QED BY <1>1, <1>2, <1>3, <1>4, <1>5, <1>6, <1>7, <1>8 DEF Next, Crash, Shutdown

(* Live runners belong to a Run of this incarnation or to an earlier one.  *)
LEMMA LiveAccounted ==
  ASSUME NoOrphan
  PROVE  Live \subseteq LiveLost \cup Passed
  BY DEF Live, LiveLost, Passed, PassedPC, NoOrphan, Watched, Alive

(* The runners of earlier incarnations only become fewer.                  *)
LEMMA LiveLostShrinks ==
  ASSUME TypeOK, Ledger, Beginnings, Scanning, Places, [Next]_vars, ~Restart
  PROVE  LiveLost' \subseteq LiveLost
<1> SUFFICES ASSUME NEW j \in Instance, pc'[j] = "lost", Alive(j)'
             PROVE  pc[j] = "lost" /\ Alive(j)
  BY DEF LiveLost
<1> USE DEF TypeOK, PC, Alive, Killed, TerminateFails, Goto, Places, Place, vars, runVars
<1>1. ASSUME NEW i \in Instance, RunStep(i) PROVE pc[j] = "lost" /\ Alive(j)
  <2>1. CASE RunEnter(i) BY <2>1 DEF RunEnter
  <2>2. CASE RunAdmit(i) BY <2>2 DEF RunAdmit
  <2>3. CASE RunReject(i) BY <2>3 DEF RunReject
  <2>4. CASE RunNoID(i) BY <2>4 DEF RunNoID
  <2>5. CASE RunOwn(i) BY <2>5 DEF RunOwn
  <2>6. CASE RunCopy(i) BY <2>6 DEF RunCopy
  <2>7. CASE RunPrepare(i) BY <2>7 DEF RunPrepare
  <2>8. CASE RunDiscard(i) BY <2>8 DEF RunDiscard
  <2>9. CASE RunStart(i) BY <2>9 DEF RunStart
  <2>10. CASE RunStartFails(i) BY <2>10 DEF RunStartFails
  <2>11. CASE RunRecord(i) BY <2>11 DEF RunRecord
  <2>12. CASE RunAbort(i) BY <2>12 DEF RunAbort
  <2>13. CASE RunAssigned(i) BY <2>13 DEF RunAssigned
  <2>14. CASE RunExits(i) BY <2>14 DEF RunExits
  <2>15. CASE RunTimesOut(i) BY <2>15 DEF RunTimesOut
  <2>16. CASE RunCancelled(i) BY <2>16 DEF RunCancelled
  <2>17. CASE RunDrained(i) BY <2>17 DEF RunDrained
  <2>18. CASE RunClose(i) BY <2>18 DEF RunClose
  <2>19. CASE RunClean(i) BY <2>19 DEF RunClean
  <2>20. CASE RunRemove(i) BY <2>20 DEF RunRemove
  <2>21. CASE RunDisown(i) BY <2>21 DEF RunDisown
  <2>22. CASE RunReturn(i) BY <2>22 DEF RunReturn
  <2>23. CASE Retire(i) BY <2>23 DEF Retire
  <2> QED BY <1>1, <2>1, <2>2, <2>3, <2>4, <2>5, <2>6, <2>7, <2>8, <2>9, <2>10, <2>11, <2>12, <2>13, <2>14, <2>15, <2>16, <2>17, <2>18, <2>19, <2>20, <2>21, <2>22, <2>23 DEF RunStep
<1>2. ASSUME NEW i \in Instance, ScanStep(i) PROVE pc[j] = "lost" /\ Alive(j)
  BY <1>2 DEF ScanStep, ScanOwned, ScanRemove, ScanRemoveFails, ScanUnverified,
              ScanMatches, ScanKeep, ScanKill, ScanKillFails
<1>3. ASSUME NEW i \in Instance, OfferInsert(i) PROVE pc[j] = "lost" /\ Alive(j)
  BY <1>3 DEF OfferInsert
<1>4. ASSUME NEW i \in Instance, EnvStep(i) PROVE pc[j] = "lost" /\ Alive(j)
  BY <1>4 DEF EnvStep, TakeJob, FinishJob, Quit, Signal, RecyclePid,
              ReleasePid, Expire
<1>5. ASSUME PollStep \/ Stop \/ UNCHANGED vars
      PROVE  pc[j] = "lost" /\ Alive(j)
  BY <1>5 DEF PollStep, PollStart, ReadDirFails, ScanStore, ScanInterrupted,
              PollObserve, PollEnd, OfferRecheck, Stop
<1> QED BY <1>1, <1>2, <1>3, <1>4, <1>5 DEF Next, Crash, Shutdown

(* A Run passes by being admitted and in no other way.                     *)
LEMMA PassedStep ==
  ASSUME TypeOK, [Next]_vars, NEW j \in Passed', ~Restart
  PROVE  ticket'[j] = ticket[j] /\ (j \in Passed \/ RunAdmit(j))
<1> USE DEF TypeOK, Goto, Passed, PassedPC
<1>1. ASSUME NEW i \in Instance, RunStep(i)
      PROVE  ticket'[j] = ticket[j] /\ (j \in Passed \/ RunAdmit(j))
  <2>1. CASE RunEnter(i) BY <2>1 DEF RunEnter
  <2>2. CASE RunAdmit(i) BY <2>2 DEF RunAdmit
  <2>3. CASE RunReject(i) BY <2>3 DEF RunReject
  <2>4. CASE RunNoID(i) BY <2>4 DEF RunNoID
  <2>5. CASE RunOwn(i) BY <2>5 DEF RunOwn
  <2>6. CASE RunCopy(i) BY <2>6 DEF RunCopy
  <2>7. CASE RunPrepare(i) BY <2>7 DEF RunPrepare
  <2>8. CASE RunDiscard(i) BY <2>8 DEF RunDiscard
  <2>9. CASE RunStart(i) BY <2>9 DEF RunStart
  <2>10. CASE RunStartFails(i) BY <2>10 DEF RunStartFails
  <2>11. CASE RunRecord(i) BY <2>11 DEF RunRecord
  <2>12. CASE RunAbort(i) BY <2>12 DEF RunAbort
  <2>13. CASE RunAssigned(i) BY <2>13 DEF RunAssigned
  <2>14. CASE RunExits(i) BY <2>14 DEF RunExits
  <2>15. CASE RunTimesOut(i) BY <2>15 DEF RunTimesOut
  <2>16. CASE RunCancelled(i) BY <2>16 DEF RunCancelled
  <2>17. CASE RunDrained(i) BY <2>17 DEF RunDrained
  <2>18. CASE RunClose(i) BY <2>18 DEF RunClose
  <2>19. CASE RunClean(i) BY <2>19 DEF RunClean
  <2>20. CASE RunRemove(i) BY <2>20 DEF RunRemove
  <2>21. CASE RunDisown(i) BY <2>21 DEF RunDisown
  <2>22. CASE RunReturn(i) BY <2>22 DEF RunReturn
  <2>23. CASE Retire(i) BY <2>23 DEF Retire
  <2> QED BY <1>1, <2>1, <2>2, <2>3, <2>4, <2>5, <2>6, <2>7, <2>8, <2>9, <2>10, <2>11, <2>12, <2>13, <2>14, <2>15, <2>16, <2>17, <2>18, <2>19, <2>20, <2>21, <2>22, <2>23 DEF RunStep
<1>2. ASSUME NEW i \in Instance, OfferInsert(i)
      PROVE  ticket'[j] = ticket[j] /\ j \in Passed
  BY <1>2 DEF OfferInsert
<1>3. ASSUME UNCHANGED <<pc, ticket, owned, local>>
      PROVE  ticket'[j] = ticket[j] /\ j \in Passed
  BY <1>3
<1> QED BY <1>1, <1>2, <1>3, GoroutineFrame

(* Admissions is preserved.  A Run is admitted against a count that covers *)
(* every directory, hence every runner, of the earlier incarnations.       *)
LEMMA AdmissionsStep ==
  ASSUME IInv, [Next]_vars
  PROVE  Admissions'
<1> DEFINE L == Cardinality(LiveLost)
<1>1. /\ LiveLost \in SUBSET Instance /\ LiveLost' \in SUBSET Instance
      /\ LostDirs \in SUBSET Instance /\ Live \in SUBSET Instance
      /\ Passed \in SUBSET Instance /\ Passed' \in SUBSET Instance
      /\ LiveLost \cup Passed \in SUBSET Instance
  BY DEF LiveLost, LostDirs, Live, Passed
<1>2. /\ L \in Nat /\ Cardinality(LiveLost') \in Nat
      /\ Cardinality(LostDirs) \in Nat /\ Cardinality(Live) \in Nat
      /\ Cardinality(LiveLost \cup Passed) \in Nat
      /\ Capacity \in Nat
  BY <1>1, FiniteParts, ManagerAssumption
<1>3. TypeOK /\ Ledger /\ Beginnings /\ Scanning /\ Places /\ NoOrphan
      /\ Admissions
  BY DEF IInv, BaseInv
<1>4. CASE ~Restart
  <2>1. Cardinality(LiveLost') <= L
    BY <1>1, <1>3, <1>4, LiveLostShrinks, Monotone
  <2>2. ASSUME NEW j \in Passed'
        PROVE  ticket'[j] + Cardinality(LiveLost') <= Capacity
    <3>1. ticket'[j] = ticket[j] /\ ticket[j] \in Nat
      BY <1>1, <1>3, <1>4, PassedStep DEF TypeOK
    <3>2. CASE j \in Passed
      BY <1>2, <1>3, <2>1, <3>1, <3>2 DEF Admissions
    <3>3. CASE RunAdmit(j)
      <4>1. ticket[j] + recovered <= Capacity /\ pc[j] = "entered"
        BY <3>3 DEF RunAdmit, Fits, Goto
      <4>2. j \in Active
        BY <1>1, <4>1 DEF Active
      <4>3. Cardinality(LostDirs) <= recovered /\ recovered \in Nat
        <5>1. reconciled /\ Reservations
          BY <4>2 DEF IInv, BaseInv, CountedFirst
        <5> QED BY <1>3, <5>1, LostCounted DEF TypeOK
      <4>4. LiveLost \in SUBSET LostDirs
        BY <1>3 DEF LiveLost, LostDirs, Live, NoOrphan, Watched
      <4>5. L <= Cardinality(LostDirs)
        BY <1>1, <4>4, Monotone
      <4> QED BY <1>2, <2>1, <3>1, <4>1, <4>3, <4>5
    <3> QED BY <1>3, <1>4, <3>2, <3>3, PassedStep
  <2> QED BY <1>2, <1>3, <2>1, <2>2 DEF Admissions
<1>5. CASE Restart
  <2>1. Passed' = {}
    BY <1>3, <1>5 DEF TypeOK, PC, Restart, Active, Passed, PassedPC
  <2>2. LiveLost' \in SUBSET Live
    BY <1>5 DEF Restart, LiveLost, Live, Alive
  <2>3. Cardinality(LiveLost') <= Cardinality(Live)
    BY <1>1, <2>2, Monotone
  <2>4. Cardinality(Live) <= Cardinality(LiveLost \cup Passed)
    BY <1>1, <1>3, LiveAccounted, Monotone
  <2>5. Cardinality(LiveLost \cup Passed) <= Capacity
    BY Room
  <2> QED BY <1>2, <2>1, <2>3, <2>4, <2>5 DEF Admissions
<1> QED BY <1>4, <1>5

(* IInv holds initially.                                                   *)
LEMMA IInit == Init => IInv
<1> SUFFICES ASSUME Init PROVE IInv
  OBVIOUS
<1>1. NoOrphan
  BY DEF Init, NoOrphan, Live, Alive
<1>2. CountedFirst
  BY DEF Init, CountedFirst, Active
<1>3. LiveLost = {} /\ Passed = {}
  BY DEF Init, LiveLost, Passed, PassedPC
<1>4. Admissions
  BY <1>3, FS_EmptySet, ManagerAssumption DEF Admissions
<1> QED BY <1>1, <1>2, <1>4, BaseInit DEF IInv

(* IInv is preserved by every step in a benign environment.                *)
LEMMA IStep == Benign /\ IInv /\ [Next]_vars => IInv'
<1> SUFFICES ASSUME Benign, IInv, [Next]_vars PROVE IInv'
  OBVIOUS
<1>1. BaseInv' BY BaseStep DEF IInv
<1>2. NoOrphan' BY NoOrphanStep DEF IInv, Benign
<1>3. CountedFirst' BY CountedFirstStep DEF IInv, BaseInv
<1>4. Admissions' BY AdmissionsStep
<1> QED BY <1>1, <1>2, <1>3, <1>4 DEF IInv

(* IInv is an invariant in a benign environment.                           *)
THEOREM IInvariance ==
  ASSUME Benign
  PROVE  Spec => []IInv
<1>1. IInv /\ [Next]_vars => IInv' BY IStep
<1> QED BY <1>1, IInit, PTL DEF Spec

(* The runners of all incarnations together stay within capacity.          *)
THEOREM CapacitySafe ==
  ASSUME Benign
  PROVE  Spec => []CapacityRespected
<1>1. IInv => CapacityRespected
  <2> SUFFICES ASSUME IInv PROVE Cardinality(Live) <= Capacity
    BY DEF CapacityRespected
  <2>1. LiveLost \cup Passed \in SUBSET Instance /\ Live \in SUBSET Instance
    BY DEF LiveLost, Passed, Live
  <2>2. Cardinality(Live) <= Cardinality(LiveLost \cup Passed)
    BY <2>1, LiveAccounted, Monotone DEF IInv
  <2>3. Cardinality(Live) \in Nat /\ Cardinality(LiveLost \cup Passed) \in Nat
        /\ Capacity \in Nat
    BY <2>1, FiniteParts, ManagerAssumption
  <2> QED BY <2>2, <2>3, Room
<1> QED BY <1>1, IInvariance, PTL

-----------------------------------------------------------------------------
(* The manager implements RunnerPool. *)

Workspaces == {i \in Instance : disk[i] # "absent"}

(* A runner about to start has room: with it the pool is still within      *)
(* capacity.                                                               *)
LEMMA RoomToStart ==
  ASSUME IInv, NEW i \in Passed, ~Alive(i)
  PROVE  Cardinality(Live) < Capacity
<1>1. /\ LiveLost \cup Passed \in SUBSET Instance
      /\ Live \in SUBSET Instance
      /\ Live \cup {i} \in SUBSET LiveLost \cup Passed
  BY LiveAccounted DEF LiveLost, Passed, Live, IInv
<1>2. Cardinality(Live \cup {i}) <= Cardinality(LiveLost \cup Passed)
  BY <1>1, Monotone
<1>3. IsFiniteSet(Live) /\ Cardinality(Live) \in Nat
      /\ Cardinality(LiveLost \cup Passed) \in Nat /\ Capacity \in Nat
  BY <1>1, FiniteParts, ManagerAssumption
<1>4. Cardinality(Live \cup {i}) = Cardinality(Live) + 1
  BY <1>3, FS_AddElement DEF Live
<1> QED BY <1>2, <1>3, <1>4, Room

(* A step of a Run is a step of the pool or leaves it alone.               *)
LEMMA RunRefines ==
  ASSUME IInv, NEW i \in Instance, RunStep(i)
  PROVE  \/ Pool!Step(i)
         \/ Workspaces' = Workspaces /\ proc' = proc
<1>0. /\ TypeOK /\ Place(i) /\ Beginnings
      /\ Alive(i) => Watched(i) \/ pc[i] = "lost"
  BY DEF IInv, BaseInv, Places, NoOrphan, Live
<1> DEFINE Same == Workspaces' = Workspaces /\ proc' = proc
<1> USE <1>0 DEF TypeOK, Workspaces, Goto, WritePhase, WriteFails, WriteOrIgnore
<1>1. CASE RunCopy(i)
  <2>1. Same \/ Pool!Prepare(i)
    BY <1>1 DEF RunCopy, Beginnings, EarlyPC, Pool!Prepare
  <2> QED BY <2>1 DEF Pool!Step
<1>2. CASE RunStart(i)
  <2>1. i \in Passed /\ proc[i] = "none" /\ disk[i] = "preparing"
    BY <1>2 DEF RunStart, Passed, PassedPC, Place
  <2>2. Cardinality(Live) < Capacity
    BY <2>1, RoomToStart DEF Alive
  <2>3. Pool!Cardinality(Pool!Live) < Capacity
    <3>1. Pool!Live = Live
      BY DEF Pool!Live, Live, Alive
    <3>2. Pool!Cardinality(Live) = Cardinality(Live)
      BY DEF Pool!Cardinality, Cardinality
    <3> QED BY <2>2, <3>1, <3>2
  <2>4. Pool!Launch(i)
    <3>1. disk' = disk /\ proc' = [proc EXCEPT ![i] = "idle"]
      BY <1>2 DEF RunStart
    <3> QED BY <2>1, <2>3, <3>1 DEF Pool!Launch
  <2> QED BY <2>4 DEF Pool!Step
<1>3. CASE RunAbort(i) \/ RunTimesOut(i) \/ RunCancelled(i)
  <2>1. Same \/ Pool!End(i)
    BY <1>3 DEF RunAbort, RunTimesOut, RunCancelled, Killed, TerminateFails,
                Alive, Pool!End, Pool!Live
  <2> QED BY <2>1 DEF Pool!Step
<1>4. CASE RunDiscard(i) \/ RunRemove(i)
  <2>1. ~Alive(i)
    BY <1>4 DEF RunDiscard, RunRemove, Watched
  <2>2. Same \/ Pool!Reclaim(i)
    BY <1>4, <2>1 DEF RunDiscard, RunRemove, RemovalFails, CleanupFailed, Place,
                      Supervised, Alive, Pool!Reclaim, Pool!Live
  <2> QED BY <2>2 DEF Pool!Step
<1>5. CASE RunPrepare(i) \/ RunStartFails(i) \/ RunRecord(i) \/ RunAssigned(i)
           \/ RunClose(i) \/ RunClean(i)
  <2>1. disk[i] # "absent"
    BY <1>5 DEF RunPrepare, RunStartFails, RunRecord, RunAssigned, RunClose,
                RunClean, Place, Supervised
  <2> QED BY <1>5, <2>1 DEF RunPrepare, RunStartFails, RunRecord, RunAssigned,
                            RunClose, RunClean
<1>6. CASE RunEnter(i) \/ RunAdmit(i) \/ RunReject(i) \/ RunNoID(i) \/ RunOwn(i)
           \/ RunExits(i) \/ RunDrained(i) \/ RunDisown(i) \/ RunReturn(i)
           \/ Retire(i)
  BY <1>6 DEF RunEnter, RunAdmit, RunReject, RunNoID, RunOwn, RunExits,
              RunDrained, RunDisown, RunReturn, Retire
<1> QED BY <1>1, <1>2, <1>3, <1>4, <1>5, <1>6 DEF RunStep

(* An entry of the reconciliation is a step of the pool or leaves it alone.*)
LEMMA ScanRefines ==
  ASSUME Observed, IInv, NEW i \in Instance, ScanStep(i)
  PROVE  \/ Pool!Step(i)
         \/ Workspaces' = Workspaces /\ proc' = proc
<1>0. /\ TypeOK /\ Ledger /\ Scanning
      /\ Alive(i) => Watched(i) \/ disk[i] \in {"waiting", "assigned"}
  BY DEF IInv, BaseInv, NoOrphan, Live
<1> DEFINE Same == Workspaces' = Workspaces /\ proc' = proc
<1> USE <1>0 DEF TypeOK, Workspaces, WritePhase
<1>1. CASE ScanRemove(i)
  <2>1. ~Alive(i)
    <3>1. i \in todo \ owned /\ (Removable(i) \/ ~Alive(i))
      BY <1>1 DEF ScanRemove, Discardable, Examined, Missing, Unreadable,
                  Removable, Observed, Scanning
    <3> QED BY <3>1 DEF Removable, Ledger, Supervised, Watched
  <2>2. Same \/ Pool!Reclaim(i)
    BY <1>1, <2>1 DEF ScanRemove, Alive, Pool!Reclaim, Pool!Live
  <2> QED BY <2>2 DEF Pool!Step
<1>2. CASE ScanKill(i)
  <2>1. Same \/ Pool!End(i)
    BY <1>2 DEF ScanKill, Killed, Alive, Pool!End, Pool!Live
  <2> QED BY <2>1 DEF Pool!Step
<1>3. CASE ScanRemoveFails(i)
  BY <1>3 DEF ScanRemoveFails, RemovalFails
<1>4. CASE ScanOwned(i) \/ ScanUnverified(i) \/ ScanMatches(i) \/ ScanKeep(i)
           \/ ScanKillFails(i)
  BY <1>4 DEF ScanOwned, ScanUnverified, ScanMatches, ScanKeep, ScanKillFails
<1> QED BY <1>1, <1>2, <1>3, <1>4 DEF ScanStep

(* So is a step of the runner, the operating system or the clock.          *)
LEMMA EnvRefines ==
  ASSUME TypeOK, NEW i \in Instance, EnvStep(i)
  PROVE  \/ Pool!Step(i)
         \/ Workspaces' = Workspaces /\ proc' = proc
<1> USE DEF TypeOK, Workspaces
<1>1. CASE TakeJob(i)
  BY <1>1 DEF TakeJob, Pool!TakeJob, Pool!Step
<1>2. CASE FinishJob(i) \/ Quit(i)
  BY <1>2 DEF FinishJob, Quit, Pool!End, Pool!Live, Pool!Step
<1>3. CASE Signal(i) \/ RecyclePid(i) \/ ReleasePid(i) \/ Expire(i)
  BY <1>3 DEF Signal, RecyclePid, ReleasePid, Expire
<1> QED BY <1>1, <1>2, <1>3 DEF EnvStep

(* The manager keeps the promise of RunnerPool, crashes included.          *)
THEOREM Refinement ==
  ASSUME Benign
  PROVE  Spec => PoolSpec
<1>1. Init => Pool!Init
  BY DEF Init, Pool!Init
<1>2. IInv /\ [Next]_vars => [Pool!Next]_(Pool!vars)
  <2> SUFFICES ASSUME IInv, [Next]_vars
               PROVE  \/ Pool!Next
                      \/ Workspaces' = Workspaces /\ proc' = proc
    BY DEF Pool!vars, Workspaces
  <2>1. ASSUME NEW i \in Instance, RunStep(i) \/ ScanStep(i) \/ EnvStep(i)
        PROVE  Pool!Next \/ (Workspaces' = Workspaces /\ proc' = proc)
    BY <2>1, RunRefines, ScanRefines, EnvRefines DEF Benign, IInv, BaseInv, Pool!Next
  <2>2. ASSUME PollStep \/ Restart \/ Stop \/ UNCHANGED vars
               \/ \E i \in Instance : OfferInsert(i)
        PROVE  UNCHANGED <<disk, proc>>
    BY <2>2 DEF PollStep, PollStart, ReadDirFails, ScanStore, ScanInterrupted,
                PollObserve, PollEnd, OfferRecheck, Stop, Restart, OfferInsert,
                vars
  <2> QED BY <2>1, <2>2 DEF Next, Crash, Shutdown, Workspaces
<1> QED BY <1>1, <1>2, IInvariance, PTL DEF Spec, PoolSpec, Pool!Spec

=============================================================================
