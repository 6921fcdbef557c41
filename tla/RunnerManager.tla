--------------------------- MODULE RunnerManager ---------------------------
(***************************************************************************)
(* The runner manager of one participant (internal/runner/manager.go):     *)
(* Manager.Run launches and supervises a runner process in a private       *)
(* directory, Manager.Reconcile recovers the directories left by earlier   *)
(* incarnations of the participant, and the poll loop of                   *)
(* internal/participant/participant.go calls both.                         *)
(*                                                                         *)
(* A Run is a goroutine: pc[i] is the place where the Run of instance i    *)
(* is, one action is one step between two accesses to state shared with    *)
(* the poll loop, the disk or the operating system.  The participant may   *)
(* die between any two steps; its memory goes, while directories and       *)
(* runner processes stay.                                                  *)
(***************************************************************************)
EXTENDS Integers, FiniteSets

CONSTANTS
  Instance,   \* the instance identifiers randomID can return, never reused
  Capacity,   \* cfg.Capacity
  MaxExits,   \* bound: how often the participant dies or is stopped
  Strays,     \* the entries of the state directory that are no directory
              \* or that are links: nobody made them and nobody removes them
  Faults      \* the failures of the environment that may happen

FaultKind == {
  "disk",          \* copying, writing a manifest or deleting files fails
  "start",         \* drawing an ID or starting the runner process fails
  "inspect",       \* Reconcile's Inspect or Terminate call fails
  "terminate",     \* Run's own attempt to terminate its runner fails
  "readdir",       \* the state directory cannot be listed
  "unread",        \* Reconcile cannot read a manifest that is in order
  "crash",         \* the participant dies anywhere (SIGKILL, SIGTERM, power)
  "launch_window"} \* ... even between Start and the manifest naming the PID

ASSUME ManagerAssumption ==
  /\ IsFiniteSet(Instance)
  /\ Capacity \in Nat \ {0}
  /\ MaxExits \in Nat
  /\ Strays \in Nat
  /\ Faults \subseteq FaultKind

VARIABLES
  \* The memory of the participant.
  pc,         \* where the Run of each instance is
  ticket,     \* what localActive.Add(1) returned to it
  assigned,   \* whether its assigned channel is closed
  owned,      \* Manager.owned
  local,      \* Manager.localActive
  recovered,  \* Manager.recoveredActive
  poll,       \* where the poll loop is
  todo,       \* the entries ReadDir returned that are still to be examined
  entry,      \* the entry whose process Inspect has just matched, if any
  count,      \* the local variable recovered of Reconcile
  problem,    \* whether Reconcile has met an error
  stopping,   \* ctx is done
  \* History for the properties.
  reconciled, \* a Reconcile of this incarnation has stored its count
  left,       \* the directories without a Run when this Reconcile listed
  covered,    \* those of the last Reconcile that stored its count
  found,      \* the directories without a Run when it stored its count
  \* The disk, the operating system and the clock.
  disk,       \* what the instance's directory holds: no directory, a
              \* directory without a readable manifest, or the phase of its
              \* manifest.  The manifest names the process from "waiting" on.
  proc,       \* the runner process
  pidReuse,   \* whether an unrelated process holds a dead runner's PID
  overdue,    \* whether the acquisition deadline has passed
  exits       \* how often the participant has died or been stopped

runVars  == <<pc, ticket, assigned, owned, local>>
pollVars == <<recovered, poll, todo, entry, count, problem, reconciled, left,
              covered, found>>
osVars   == <<pidReuse, overdue>>
ctxVars  == <<stopping, exits>>
vars == <<runVars, pollVars, ctxVars, disk, proc, osVars>>

(* The places of a Run.  "unborn": not offered; "lost": the participant    *)
(* died while it was running; "over": its service entry is deleted.        *)
PC == {"unborn", "spawned", "entered", "rejected", "admitted", "owning",
       "copied", "discard", "prepared", "launched", "aborting", "waiting",
       "running", "draining", "exited", "timed_out", "cleaning", "removing",
       "leaving", "disowned", "returned", "over", "lost"}

Disk == {"absent", "bare", "preparing", "waiting", "assigned", "timed_out",
         "failed", "exited", "cleaning", "cleanup_failed"}

PollPC == {"tick", "scan", "matched", "killed", "gate", "offer", "jit"}

Alive(i) == proc[i] \in {"idle", "busy"}
Live == {i \in Instance : Alive(i)}
Present == {i \in Instance : disk[i] # "absent"}
Unclaimed == Present \ owned

\* Service.active, the runner lifecycles the service has not seen the end of.
ActiveOnceEntered ==
  {i \in Instance : pc[i] \notin {"unborn", "spawned", "over", "lost"}}
Active == {i \in Instance : pc[i] \notin {"unborn", "over", "lost"}}

TypeOK ==
  /\ pc \in [Instance -> PC]
  /\ ticket \in [Instance -> Nat]
  /\ assigned \in [Instance -> BOOLEAN]
  /\ owned \subseteq Instance
  /\ local \in Nat
  /\ recovered \in Nat
  /\ poll \in PollPC
  /\ todo \subseteq Instance
  /\ entry \subseteq Instance
  /\ count \in Nat
  /\ problem \in BOOLEAN
  /\ stopping \in BOOLEAN
  /\ reconciled \in BOOLEAN
  /\ left \subseteq Instance
  /\ covered \subseteq Instance
  /\ found \subseteq Instance
  /\ disk \in [Instance -> Disk]
  /\ proc \in [Instance -> {"none", "idle", "busy", "gone"}]
  /\ pidReuse \in [Instance -> {"never", "holds", "released"}]
  /\ overdue \in [Instance -> BOOLEAN]
  /\ exits \in Nat

Init ==
  /\ pc = [i \in Instance |-> "unborn"]
  /\ ticket = [i \in Instance |-> 0]
  /\ assigned = [i \in Instance |-> FALSE]
  /\ owned = {}
  /\ local = 0
  /\ recovered = 0
  /\ poll = "tick"
  /\ todo = {}
  /\ entry = {}
  /\ count = 0
  /\ problem = FALSE
  /\ stopping = FALSE
  /\ reconciled = FALSE
  /\ left = {}
  /\ covered = {}
  /\ found = {}
  /\ disk = [i \in Instance |-> "absent"]
  /\ proc = [i \in Instance |-> "none"]
  /\ pidReuse = [i \in Instance |-> "never"]
  /\ overdue = [i \in Instance |-> FALSE]
  /\ exits = 0

-----------------------------------------------------------------------------
(* Manager.Run. *)

Goto(i, from, to) ==
  /\ pc[i] = from
  /\ pc' = [pc EXCEPT ![i] = to]

\* writeManifest replaces the file atomically or leaves it as it was.
WritePhase(i, phase) == disk' = [disk EXCEPT ![i] = phase]
WriteFails == "disk" \in Faults /\ UNCHANGED disk
WriteOrIgnore(i, phase) == WritePhase(i, phase) \/ WriteFails

\* localActive.Add(1), and its result.
RunEnter(i) ==
  /\ Goto(i, "spawned", "entered")
  /\ local' = local + 1
  /\ ticket' = [ticket EXCEPT ![i] = local + 1]
  /\ UNCHANGED <<assigned, owned, pollVars, ctxVars, disk, proc, osVars>>

Fits(i) == ticket[i] + recovered <= Capacity

RunAdmit(i) ==
  /\ Fits(i)
  /\ Goto(i, "entered", "admitted")
  /\ UNCHANGED <<ticket, assigned, owned, local, pollVars, ctxVars, disk, proc,
                 osVars>>

RunReject(i) ==
  /\ ~Fits(i)
  /\ Goto(i, "entered", "rejected")
  /\ UNCHANGED <<ticket, assigned, owned, local, pollVars, ctxVars, disk, proc,
                 osVars>>

RunNoID(i) ==
  /\ "start" \in Faults
  /\ Goto(i, "admitted", "disowned")
  /\ UNCHANGED <<ticket, assigned, owned, local, pollVars, ctxVars, disk, proc,
                 osVars>>

\* manager.owned[instanceID] = true, before anything is on disk.
OwnNothing(i) == UNCHANGED owned
Own(i) == owned' = owned \cup {i}

RunOwn(i) ==
  /\ Goto(i, "admitted", "owning")
  /\ Own(i)
  /\ UNCHANGED <<ticket, assigned, local, pollVars, ctxVars, disk, proc, osVars>>

\* copyTree; a failure may come before or after the directory exists.
RunCopy(i) ==
  /\ \/ Goto(i, "owning", "copied") /\ WritePhase(i, "bare")
     \/ /\ "disk" \in Faults
        /\ Goto(i, "owning", "discard")
        /\ WritePhase(i, "bare") \/ UNCHANGED disk
  /\ UNCHANGED <<ticket, assigned, owned, local, pollVars, ctxVars, proc, osVars>>

RunPrepare(i) ==
  /\ \/ Goto(i, "copied", "prepared") /\ WritePhase(i, "preparing")
     \/ Goto(i, "copied", "discard") /\ WriteFails
  /\ UNCHANGED <<ticket, assigned, owned, local, pollVars, ctxVars, proc, osVars>>

\* What a failing removeInstance leaves: everything but the manifest may be
\* gone, and the manifest too when writing it back failed.
RemovalFails(i) == /\ "disk" \in Faults
                   /\ disk[i] # "absent"
                   /\ WritePhase(i, "bare") \/ UNCHANGED disk

RunDiscard(i) ==
  /\ Goto(i, "discard", "leaving")
  /\ WritePhase(i, "absent") \/ RemovalFails(i)
  /\ UNCHANGED <<ticket, assigned, owned, local, pollVars, ctxVars, proc, osVars>>

\* exec refuses to start a process under a context that is done.
RunStart(i) ==
  /\ ~stopping
  /\ Goto(i, "prepared", "launched")
  /\ proc' = [proc EXCEPT ![i] = "idle"]
  /\ UNCHANGED <<ticket, assigned, owned, local, pollVars, ctxVars, disk, osVars>>

RunStartFails(i) ==
  /\ "start" \in Faults \/ stopping
  /\ Goto(i, "prepared", "cleaning")
  /\ WriteOrIgnore(i, "failed")
  /\ UNCHANGED <<ticket, assigned, owned, local, pollVars, ctxVars, proc, osVars>>

\* The manifest now names the process.
RunRecordUnchecked(i) ==
  /\ Goto(i, "launched", "waiting")
  /\ WriteOrIgnore(i, "waiting")
  /\ UNCHANGED <<ticket, assigned, owned, local, pollVars, ctxVars, proc, osVars>>

RunRecord(i) ==
  /\ \/ Goto(i, "launched", "waiting") /\ WritePhase(i, "waiting")
     \/ Goto(i, "launched", "aborting") /\ WriteFails
  /\ UNCHANGED <<ticket, assigned, owned, local, pollVars, ctxVars, proc, osVars>>

\* Manager.terminate: Run stops its own process unless it is gone.
Killed(i) == proc' = [proc EXCEPT ![i] = IF Alive(i) THEN "gone" ELSE @]
TerminateFails == "terminate" \in Faults /\ UNCHANGED proc

RunAbort(i) ==
  /\ Goto(i, "aborting", "cleaning")
  /\ Killed(i) \/ TerminateFails
  /\ UNCHANGED <<ticket, assigned, owned, local, pollVars, ctxVars, disk, osVars>>

RunAssigned(i) ==
  /\ assigned[i]
  /\ \/ Goto(i, "waiting", "running") /\ WritePhase(i, "assigned")
     \/ Goto(i, "waiting", "aborting") /\ WriteFails
  /\ UNCHANGED <<ticket, assigned, owned, local, pollVars, ctxVars, proc, osVars>>

\* <-wait, in the first select or in the one after the assignment.
RunExits(i) ==
  /\ ~Alive(i)
  /\ Goto(i, "waiting", "exited") \/ Goto(i, "running", "exited")
  /\ UNCHANGED <<ticket, assigned, owned, local, pollVars, ctxVars, disk, proc,
                 osVars>>

\* <-timer.C: nothing here looks at what the runner is doing.
RunTimesOut(i) ==
  /\ overdue[i]
  /\ Goto(i, "waiting", "timed_out")
  /\ Killed(i) \/ TerminateFails
  /\ UNCHANGED <<ticket, assigned, owned, local, pollVars, ctxVars, disk, osVars>>

\* <-ctx.Done() in either select; the error of terminate is dropped.
RunCancelled(i) ==
  /\ stopping
  /\ Goto(i, "waiting", "draining") \/ Goto(i, "running", "draining")
  /\ Killed(i) \/ TerminateFails
  /\ UNCHANGED <<ticket, assigned, owned, local, pollVars, ctxVars, disk, osVars>>

\* The <-wait that follows.  After an assignment the phase becomes exited;
\* before one it is still waiting, and writing it again changes nothing.
RunDrained(i) ==
  /\ ~Alive(i)
  /\ Goto(i, "draining", IF disk[i] = "assigned" THEN "exited" ELSE "cleaning")
  /\ UNCHANGED <<ticket, assigned, owned, local, pollVars, ctxVars, disk, proc,
                 osVars>>

RunClose(i) ==
  /\ \E phase \in {"exited", "timed_out"} :
       Goto(i, phase, "cleaning") /\ WriteOrIgnore(i, phase)
  /\ UNCHANGED <<ticket, assigned, owned, local, pollVars, ctxVars, proc, osVars>>

\* Manager.cleanup: the phase, then the removal, then perhaps a phase again.
RunClean(i) ==
  /\ Goto(i, "cleaning", "removing")
  /\ WriteOrIgnore(i, "cleaning")
  /\ UNCHANGED <<ticket, assigned, owned, local, pollVars, ctxVars, proc, osVars>>

CleanupFailed(i) ==
  \/ RemovalFails(i)
  \/ "disk" \in Faults /\ WritePhase(i, "cleanup_failed")

RunRemoveInsists(i) ==
  /\ \/ Goto(i, "removing", "leaving") /\ WritePhase(i, "absent")
     \/ Goto(i, "removing", "removing") /\ CleanupFailed(i)
  /\ UNCHANGED <<ticket, assigned, owned, local, pollVars, ctxVars, proc, osVars>>

RunRemove(i) ==
  /\ Goto(i, "removing", "leaving")
  /\ WritePhase(i, "absent") \/ CleanupFailed(i)
  /\ UNCHANGED <<ticket, assigned, owned, local, pollVars, ctxVars, proc, osVars>>

\* The two deferred functions, last in first out.
RunDisown(i) ==
  /\ Goto(i, "leaving", "disowned")
  /\ owned' = owned \ {i}
  /\ UNCHANGED <<ticket, assigned, local, pollVars, ctxVars, disk, proc, osVars>>

Released(i) == local - 1

RunReturn(i) ==
  /\ Goto(i, "disowned", "returned") \/ Goto(i, "rejected", "returned")
  /\ local' = Released(i)
  /\ UNCHANGED <<ticket, assigned, owned, pollVars, ctxVars, disk, proc, osVars>>

\* The goroutine of Service.offer deletes the lifecycle from Service.active.
Retire(i) ==
  /\ Goto(i, "returned", "over")
  /\ UNCHANGED <<ticket, assigned, owned, local, pollVars, ctxVars, disk, proc,
                 osVars>>

RunStep(i) ==
  \/ RunEnter(i) \/ RunAdmit(i) \/ RunReject(i) \/ RunNoID(i) \/ RunOwn(i)
  \/ RunCopy(i) \/ RunPrepare(i) \/ RunDiscard(i) \/ RunStart(i)
  \/ RunStartFails(i) \/ RunRecord(i) \/ RunAbort(i) \/ RunAssigned(i)
  \/ RunExits(i) \/ RunTimesOut(i) \/ RunCancelled(i) \/ RunDrained(i)
  \/ RunClose(i) \/ RunClean(i) \/ RunRemove(i) \/ RunDisown(i)
  \/ RunReturn(i) \/ Retire(i)

-----------------------------------------------------------------------------
(* Service.PollOnce and, inside it, Manager.Reconcile. *)

ListedWithManifest(i) == disk[i] \notin {"absent", "bare"}
Listed(i) == disk[i] # "absent"

\* Every entry that is no directory of the manager is reported and holds a
\* slot; which of the entries come first makes no difference.
PollStart ==
  /\ poll = "tick"
  /\ ~stopping
  /\ poll' = "scan"
  /\ todo' = {i \in Instance : Listed(i)}
  /\ left' = Unclaimed
  /\ count' = Strays
  /\ problem' = (Strays > 0)
  /\ UNCHANGED <<runVars, recovered, entry, reconciled, covered, found,
                 ctxVars, disk, proc, osVars>>

\* os.ReadDir fails: Reconcile returns without storing a count.
ReadDirFails ==
  /\ "readdir" \in Faults
  /\ poll = "tick"
  /\ ~stopping
  /\ poll' = "gate"
  /\ problem' = TRUE
  /\ UNCHANGED <<runVars, recovered, todo, entry, count, reconciled, left,
                 covered, found, ctxVars, disk, proc, osVars>>

\* The entry is dealt with, with nothing to report or with one reservation.
Pass(i) == todo' = todo \ {i} /\ poll' = "scan" /\ entry' = {}
Free(i) == Pass(i) /\ UNCHANGED <<count, problem>>
Reserve(i) == Pass(i) /\ count' = count + 1 /\ UNCHANGED problem
ProblemOnly(i) == Pass(i) /\ problem' = TRUE /\ UNCHANGED count
ReserveWithProblem(i) == Pass(i) /\ count' = count + 1 /\ problem' = TRUE

ScanOwned(i) ==
  /\ poll = "scan"
  /\ i \in todo \cap owned
  /\ Free(i)
  /\ UNCHANGED <<runVars, recovered, reconciled, left, covered, found,
                 ctxVars, disk, proc, osVars>>

\* The phases that need no process, and the manifests that name none.
Removable(i) == disk[i] \notin {"waiting", "assigned"}

\* What controller.Inspect says of the process a manifest names.
Missing(i) == ~Alive(i) /\ pidReuse[i] # "holds"
Mismatched(i) == ~Alive(i) /\ pidReuse[i] = "holds"

Examined(i) == ~stopping /\ poll = "scan" /\ i \in todo \ owned

\* A manifest that cannot be read is taken for one that was never finished,
\* whatever it says and whatever the reason.
Unreadable(i) == disk[i] = "bare" \/ "unread" \in Faults

Discardable(i) ==
  \/ Examined(i) /\ (Unreadable(i) \/ Removable(i) \/ Missing(i))
  \/ poll = "killed" /\ i \in entry

ScanRemove(i) ==
  /\ Discardable(i)
  /\ WritePhase(i, "absent")
  /\ Free(i)
  /\ UNCHANGED <<runVars, recovered, reconciled, left, covered, found,
                 ctxVars, proc, osVars>>

ScanRemoveFails(i) ==
  /\ Discardable(i)
  /\ RemovalFails(i)
  /\ ReserveWithProblem(i)
  /\ UNCHANGED <<runVars, recovered, reconciled, left, covered, found,
                 ctxVars, proc, osVars>>

ScanUnverified(i) ==
  /\ Examined(i)
  /\ ~Removable(i)
  /\ "inspect" \in Faults \/ Mismatched(i)
  /\ ReserveWithProblem(i)
  /\ UNCHANGED <<runVars, recovered, reconciled, left, covered, found,
                 ctxVars, disk, proc, osVars>>

ScanMatches(i) ==
  /\ Examined(i)
  /\ ~Removable(i)
  /\ Alive(i)
  /\ poll' = "matched"
  /\ entry' = {i}
  /\ UNCHANGED <<runVars, recovered, todo, count, problem, reconciled, left,
                 covered, found, ctxVars, disk, proc, osVars>>

ExpiredInAnyPhase(i) == overdue[i]
Expired(i) == disk[i] = "waiting" /\ overdue[i]

ScanKeep(i) ==
  /\ poll = "matched"
  /\ i \in entry
  /\ ~Expired(i)
  /\ Reserve(i)
  /\ UNCHANGED <<runVars, recovered, reconciled, left, covered, found,
                 ctxVars, disk, proc, osVars>>

\* Terminate verifies the identity again and does nothing to a process that
\* is gone; what the runner is doing is not asked.
ScanKill(i) ==
  /\ poll = "matched"
  /\ i \in entry
  /\ Expired(i)
  /\ ~Mismatched(i)
  /\ Killed(i)
  /\ poll' = "killed"
  /\ UNCHANGED <<runVars, recovered, todo, entry, count, problem, reconciled,
                 left, covered, found, ctxVars, disk, osVars>>

ScanKillErrorIgnored(i) ==
  /\ poll = "matched"
  /\ i \in entry
  /\ Expired(i)
  /\ "inspect" \in Faults \/ Mismatched(i)
  /\ poll' = "killed"
  /\ UNCHANGED <<runVars, recovered, todo, entry, count, problem, reconciled,
                 left, covered, found, ctxVars, disk, proc, osVars>>

ScanKillFails(i) ==
  /\ poll = "matched"
  /\ i \in entry
  /\ Expired(i)
  /\ "inspect" \in Faults \/ Mismatched(i)
  /\ ReserveWithProblem(i)
  /\ UNCHANGED <<runVars, recovered, reconciled, left, covered, found,
                 ctxVars, disk, proc, osVars>>

\* manager.recoveredActive.Store(recovered)
Stored == count

ScanStore ==
  /\ poll = "scan"
  /\ todo = {}
  /\ poll' = "gate"
  /\ recovered' = Stored
  /\ reconciled' = TRUE
  /\ covered' = left \cap Present
  /\ found' = Unclaimed
  /\ left' = {}
  /\ UNCHANGED <<runVars, todo, entry, count, problem, ctxVars, disk, proc, osVars>>

\* ctx.Err() at the head of the loop; a foreign entry may be still to come.
ScanInterruptedStores ==
  /\ poll = "scan"
  /\ stopping
  /\ todo # {}
  /\ poll' = "gate"
  /\ todo' = {}
  /\ problem' = TRUE
  /\ recovered' = count
  /\ reconciled' = TRUE
  /\ covered' = left \cap Present
  /\ found' = Unclaimed
  /\ left' = {}
  /\ UNCHANGED <<runVars, entry, count, ctxVars, disk, proc, osVars>>

ScanInterrupted ==
  /\ poll = "scan"
  /\ stopping
  /\ todo # {} \/ Strays > 0
  /\ poll' = "gate"
  /\ todo' = {}
  /\ problem' = TRUE
  /\ left' = {}
  /\ UNCHANGED <<runVars, recovered, entry, count, reconciled, covered,
                 found, ctxVars, disk, proc, osVars>>

\* The error of Reconcile matters only when no slot is free; under a context
\* that is done the observation of GitHub fails.
GateOpens == ~stopping /\ (problem => local + recovered < Capacity)

PollObserve ==
  /\ poll = "gate"
  /\ GateOpens
  /\ poll' = "offer"
  /\ UNCHANGED <<runVars, recovered, todo, entry, count, problem, reconciled,
                 left, covered, found, ctxVars, disk, proc, osVars>>

\* The poll gives up, fails on a call to GitHub, or has no job left to offer.
PollEnd ==
  /\ poll \in {"gate", "offer", "jit"}
  /\ poll' = "tick"
  /\ UNCHANGED <<runVars, recovered, todo, entry, count, problem, reconciled,
                 left, covered, found, ctxVars, disk, proc, osVars>>

\* Service.localCapacity: the lifecycles or the reservations, not their sum.
Used == IF local + recovered > Cardinality(Active)
        THEN local + recovered ELSE Cardinality(Active)

OfferRecheck ==
  /\ poll = "offer"
  /\ ~stopping
  /\ Capacity - Used >= 1
  /\ poll' = "jit"
  /\ UNCHANGED <<runVars, recovered, todo, entry, count, problem, reconciled,
                 left, covered, found, ctxVars, disk, proc, osVars>>

\* After GenerateJITConfig: the second check, and a goroutine for Run.
OfferInsert(i) ==
  /\ poll = "jit"
  /\ Cardinality(Active) < Capacity
  /\ Goto(i, "unborn", "spawned")
  /\ poll' = "offer"
  /\ UNCHANGED <<ticket, assigned, owned, local, recovered, todo, entry, count,
                 problem, reconciled, left, covered, found, ctxVars, disk,
                 proc, osVars>>

ScanStep(i) ==
  \/ ScanOwned(i) \/ ScanRemove(i) \/ ScanRemoveFails(i) \/ ScanUnverified(i)
  \/ ScanMatches(i) \/ ScanKeep(i) \/ ScanKill(i) \/ ScanKillFails(i)

PollStep ==
  \/ PollStart \/ ReadDirFails \/ ScanStore \/ ScanInterrupted \/ PollObserve
  \/ PollEnd \/ OfferRecheck

-----------------------------------------------------------------------------
(* The runner, GitHub, the operating system and the service manager. *)

TakeJob(i) ==
  /\ proc[i] = "idle"
  /\ proc' = [proc EXCEPT ![i] = "busy"]
  /\ UNCHANGED <<runVars, pollVars, ctxVars, disk, osVars>>

\* A just-in-time runner ends after its one job, or earlier by itself.
FinishJob(i) ==
  /\ proc[i] = "busy"
  /\ proc' = [proc EXCEPT ![i] = "gone"]
  /\ UNCHANGED <<runVars, pollVars, ctxVars, disk, osVars>>

Quit(i) ==
  /\ proc[i] = "idle"
  /\ proc' = [proc EXCEPT ![i] = "gone"]
  /\ UNCHANGED <<runVars, pollVars, ctxVars, disk, osVars>>

\* watchAssignment has seen the job of this runner and closes the channel.
Signal(i) ==
  /\ proc[i] = "busy"
  /\ pc[i] \in {"launched", "waiting"}
  /\ ~assigned[i]
  /\ assigned' = [assigned EXCEPT ![i] = TRUE]
  /\ UNCHANGED <<pc, ticket, owned, local, pollVars, ctxVars, disk, proc, osVars>>

\* Bounds: a PID matters only while a manifest without a Run names it, and is
\* taken over by another process at most once.
RecyclePid(i) ==
  /\ proc[i] = "gone"
  /\ pc[i] = "lost"
  /\ ~Removable(i)
  /\ pidReuse[i] = "never"
  /\ pidReuse' = [pidReuse EXCEPT ![i] = "holds"]
  /\ UNCHANGED <<runVars, pollVars, ctxVars, disk, proc, overdue>>

ReleasePid(i) ==
  /\ pidReuse[i] = "holds"
  /\ pidReuse' = [pidReuse EXCEPT ![i] = "released"]
  /\ UNCHANGED <<runVars, pollVars, ctxVars, disk, proc, overdue>>

Expire(i) ==
  /\ disk[i] = "waiting"
  /\ ~overdue[i]
  /\ overdue' = [overdue EXCEPT ![i] = TRUE]
  /\ UNCHANGED <<runVars, pollVars, ctxVars, disk, proc, pidReuse>>

\* os.Interrupt cancels the context.
Stop ==
  /\ ~stopping
  /\ exits < MaxExits
  /\ stopping' = TRUE
  /\ UNCHANGED <<runVars, pollVars, exits, disk, proc, osVars>>

\* Start has returned, or its manifest could not be written, and the manifest
\* does not name the process.
InLaunchWindow(i) ==
  pc[i] = "launched" \/ (pc[i] = "aborting" /\ disk[i] = "preparing")

\* The process ends and is started again: NewManager and NewService.
Restart ==
  /\ exits < MaxExits
  /\ "launch_window" \in Faults \/ \A i \in Instance : ~InLaunchWindow(i)
  /\ exits' = exits + 1
  /\ pc' = [i \in Instance |-> IF i \in Active THEN "lost" ELSE pc[i]]
  /\ ticket' = [i \in Instance |-> 0]
  /\ assigned' = [i \in Instance |-> FALSE]
  /\ owned' = {}
  /\ local' = 0
  /\ recovered' = 0
  /\ poll' = "tick"
  /\ todo' = {}
  /\ entry' = {}
  /\ count' = 0
  /\ problem' = FALSE
  /\ stopping' = FALSE
  /\ reconciled' = FALSE
  /\ left' = {}
  /\ covered' = {}
  /\ found' = {}
  /\ UNCHANGED <<disk, proc, osVars>>

Crash == "crash" \in Faults /\ Restart

\* Service.Run returns between two polls, without waiting for the Runs.
Shutdown == stopping /\ poll = "tick" /\ Restart

EnvStep(i) == \/ TakeJob(i) \/ FinishJob(i) \/ Quit(i) \/ Signal(i)
              \/ RecyclePid(i) \/ ReleasePid(i) \/ Expire(i)

Next == \/ \E i \in Instance :
             RunStep(i) \/ ScanStep(i) \/ OfferInsert(i) \/ EnvStep(i)
        \/ PollStep \/ Stop \/ Crash \/ Shutdown

Spec == Init /\ [][Next]_vars

-----------------------------------------------------------------------------
(* Safety. *)

(* However often the participant dies, and whatever becomes of disk and    *)
(* GitHub, the runner processes of all its incarnations together stay      *)
(* within capacity (Run's admission, manager.go:61, and the count that     *)
(* Reconcile leaves for it, manager.go:252).                               *)
CapacityRespected == Cardinality(Live) <= Capacity

(* A live runner is never out of sight: its Run still watches it, or its   *)
(* directory holds a manifest that names the process, so that the next     *)
(* incarnation finds it.  In particular no phase that lets Reconcile       *)
(* delete the directory unseen is on disk while the process runs           *)
(* (manager.go:215).                                                       *)
Watched(i) == /\ pc[i] \in {"launched", "aborting", "waiting", "running"}
              /\ disk[i] \in {"preparing", "waiting", "assigned"}
NoOrphan ==
  \A i \in Live :
    Watched(i) \/ (pc[i] = "lost" /\ disk[i] \in {"waiting", "assigned"})

(* Every directory that had no Run when the last reconciliation that       *)
(* stored its count listed it, and that is still there, holds one slot,    *)
(* whatever went wrong with it: an unreadable process, a foreign PID, a    *)
(* failed deletion; and so does every foreign entry.  That is every        *)
(* directory of an earlier incarnation from the first such reconciliation  *)
(* on, and one that a Run failed to delete from the next one on            *)
(* (manager.go:169-179 and 188-252).                                       *)
LostDirs == {i \in Instance : pc[i] = "lost" /\ disk[i] # "absent"}
FailClosed ==
  reconciled => /\ Cardinality(covered \cap Present) + Strays <= recovered
                /\ LostDirs \subseteq covered

(* A reconciliation running beside the Runs of its own process never       *)
(* touches the directory or the process of one of them, although it works  *)
(* from a listing made earlier (manager.go:192-197).                       *)
Supervised(i) ==
  pc[i] \in {"owning", "copied", "discard", "prepared", "launched",
             "aborting", "waiting", "running", "draining", "exited",
             "timed_out", "cleaning", "removing", "leaving"}
SupervisedUntouched ==
  [][todo' # todo \/ poll' # poll =>
       \A i \in Instance : Supervised(i) => /\ disk'[i] = disk[i]
                                            /\ proc'[i] = proc[i]]_vars

(* A job whose assignment is on disk survives a crash of the participant   *)
(* and every reconciliation after it, deadline or not: only an orderly     *)
(* stop kills its runner (manager.go:118-135 and 239).                     *)
RecordedJobSurvives ==
  [][\A i \in Instance :
       /\ disk[i] = "assigned"
       /\ proc[i] = "busy"
       /\ pc' # pc \/ poll' # poll
       /\ ~stopping
       => proc'[i] = "busy"]_vars

(* The two ledgers agree: Service.active bounds Manager.localActive, and a *)
(* reconciliation counts nothing that a Run of this process still holds.   *)
(* So a Run is refused for want of capacity only if the last stored        *)
(* reconciliation ended with a directory nobody runs, left by an earlier   *)
(* incarnation or by a Run of this one that could not delete it, or with a *)
(* foreign entry; the Runs under way alone never cause it                  *)
(* (participant.go:179 and 294-302, manager.go:61, 192-197 and 252).       *)
RejectedForRecovered ==
  [][\A i \in Instance :
       pc[i] = "entered" /\ pc'[i] = "rejected"
         => found # {} \/ Strays > 0]_vars

(* The manager keeps the promise of RunnerPool.                            *)
Pool == INSTANCE RunnerPool WITH
          runner <- proc,
          workspace <- {i \in Instance : disk[i] # "absent"}
PoolSpec == Pool!Spec

-----------------------------------------------------------------------------
(* The inductive invariants behind the safety properties.  BaseInv holds    *)
(* under every fault; NoOrphan joins it when a Run can terminate its own   *)
(* runner, no crash hits the launch window and manifests in order can be   *)
(* read, and the rest of IInv when the state directory can be listed too.  *)

EarlyPC == {"unborn", "spawned", "entered", "rejected", "admitted", "owning"}
PassedPC == {"admitted", "owning", "copied", "discard", "prepared", "launched",
             "aborting", "waiting", "running", "draining", "exited",
             "timed_out", "cleaning", "removing", "leaving", "disowned"}

Counted == {i \in Instance : pc[i] \in PassedPC \cup {"entered", "rejected"}}
Passed == {i \in Instance : pc[i] \in PassedPC}
LiveLost == {i \in Instance : pc[i] = "lost" /\ Alive(i)}

\* The counter and the map of the manager say what the Runs have done.
Ledger == /\ local = Cardinality(Counted)
          /\ owned = {i \in Instance : Supervised(i)}

\* A Run at its beginning has no directory and no process.
Beginnings == \A i \in Instance :
                pc[i] \in EarlyPC => disk[i] = "absent" /\ proc[i] = "none"

\* Reconciliation looks only at instances whose Run is past its beginning.
Scanning ==
  /\ \A i \in todo : pc[i] \notin EarlyPC
  /\ poll \in {"matched", "killed"}
       => \E i \in todo \ owned : /\ entry = {i}
                                  /\ disk[i] \in {"waiting", "assigned"}
                                  /\ poll = "killed" => ~Alive(i)

\* A directory without a Run is counted or still to come, and stays without;
\* and nothing else is counted but the foreign entries.
Departed == {"disowned", "returned", "over", "lost"}
Settled == (left \cap Present) \ todo
Dealt == Unclaimed \ todo
Reservations ==
  /\ FailClosed
  /\ poll \in {"scan", "matched", "killed"}
       => /\ Cardinality(Settled) + Strays <= count
          /\ count <= Cardinality(Dealt) + Strays
          /\ LostDirs \subseteq left
  /\ recovered <= Cardinality(found) + Strays
  /\ \A i \in left \cup covered : pc[i] \in Departed

\* At most n Runs hold a ticket up to n: a ticket is a rank at entry.
TicketsUpTo(n) == {i \in Counted : ticket[i] <= n}
Tickets == \A n \in 0 .. Capacity : Cardinality(TicketsUpTo(n)) <= n

\* Service.active stays within capacity, hence so does every ticket.
Lifecycles ==
  /\ Cardinality(Active) <= Capacity
  /\ \A i \in Instance : pc[i] = "entered" => ticket[i] <= Capacity

\* What the place of a Run says of its directory and its process.
Place(i) ==
  /\ Supervised(i) /\ pc[i] \notin {"owning", "discard", "leaving"}
       => disk[i] # "absent"
  /\ pc[i] \in {"copied", "discard", "prepared"} => proc[i] = "none"
  /\ pc[i] = "copied" => disk[i] = "bare"
  /\ pc[i] = "discard" => disk[i] \in {"absent", "bare"}
  /\ pc[i] \in {"prepared", "launched"} => disk[i] = "preparing"
  /\ pc[i] = "waiting" => disk[i] = "waiting"
  /\ pc[i] = "running" => disk[i] = "assigned"
  /\ pc[i] = "aborting" => disk[i] \in {"preparing", "waiting"}
Places == \A i \in Instance : Place(i)

BaseInv == /\ TypeOK /\ Ledger /\ Beginnings /\ Scanning
           /\ Reservations /\ Tickets /\ Lifecycles /\ Places

\* An incarnation offers nothing before it has counted.
CountedFirst ==
  /\ poll \in {"offer", "jit"} => reconciled
  /\ poll = "gate" => reconciled \/ stopping
  /\ Active # {} => reconciled

\* The ticket that admitted a Run left room for the runners of before.
Admissions ==
  /\ Cardinality(LiveLost) <= Capacity
  /\ \A i \in Passed : ticket[i] + Cardinality(LiveLost) <= Capacity

IInv == BaseInv /\ NoOrphan /\ CountedFirst /\ Admissions

-----------------------------------------------------------------------------
(* What the documents of the repository say and the code does not do.      *)

(* A runner still active when the participant restarts is reconciled       *)
(* before more local capacity is offered.                                  *)
ReconciledBeforeOffers ==
  poll \in {"offer", "jit"} /\ LiveLost # {} => reconciled

(* data-model.md: in phase cleaning the process is stopped.                *)
CleaningMeansStopped ==
  \A i \in Instance : disk[i] = "cleaning" => ~Alive(i)

(* A job running on the runner cancels the acquisition timeout: the timer  *)
(* of Run does not kill a busy runner.                                     *)
TimeoutSparesBusy ==
  [][\A i \in Instance :
       pc[i] = "waiting" /\ pc'[i] = "timed_out" => proc[i] # "busy"]_vars

(* The actual assignment is observed before the acquisition timeout is     *)
(* applied, also by the reconciliation after a restart.                    *)
RecoveredBusySpared ==
  [][\A i \in Instance :
       poll = "matched" /\ poll' = "killed" /\ i \in entry
         => proc[i] # "busy"]_vars

(* Invalid state belongs to an interrupted pre-launch copy: what a         *)
(* reconciliation deletes without having matched or killed a process has   *)
(* no live runner (the comment at manager.go:206).                         *)
DiscardsPrelaunch ==
  [][\A i \in Present :
       poll = "scan" /\ i \in todo \ todo' /\ disk'[i] = "absent"
         => ~Alive(i)]_vars

(* A directory whose cleanup failed blocks new capacity until the cleanup  *)
(* is retried: it and the new runners together stay within capacity.       *)
FailedCleanupBlocks ==
  [][\A i \in Instance :
       pc[i] = "spawned" /\ pc'[i] = "entered"
         => Cardinality({k \in Instance : disk[k] = "cleanup_failed"})
              < Capacity]_vars

-----------------------------------------------------------------------------
(* Liveness. *)

(* The scheduler runs every goroutine; jobs, deadlines and foreign         *)
(* processes come to an end; a deletion, or a listing of the state         *)
(* directory, that is retried succeeds at last (strong fairness: the disk  *)
(* does not fail every time); a participant that is told to stop reaches   *)
(* the end of its poll.                                                    *)
Fairness ==
  /\ \A i \in Instance :
       /\ WF_vars(RunStep(i))
       /\ WF_vars(ScanStep(i))
       /\ SF_vars(ScanRemove(i))
       /\ SF_vars(ScanMatches(i))
       /\ SF_vars(ScanKill(i))
       /\ WF_vars(FinishJob(i))
       /\ WF_vars(Expire(i))
       /\ WF_vars(ReleasePid(i))
  /\ WF_vars(PollStep)
  /\ SF_vars(PollStart)
  /\ WF_vars(Shutdown)

FairSpec == Spec /\ Fairness


(* Every lifecycle the service counts as active ends.                      *)
LifecyclesEnd == \A i \in Instance : (i \in Active) ~> (i \notin Active)


=============================================================================
