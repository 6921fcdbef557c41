------------------------------ MODULE Dispatch ------------------------------
(***************************************************************************)
(* Several participants and GitHub (internal/participant/participant.go):  *)
(* each participant polls for queued jobs, waits its claim delay, checks   *)
(* the job again, registers a just-in-time runner, supervises it and       *)
(* removes the registration.  Participants share nothing but GitHub, which *)
(* gives a queued job to any runner that can serve it.                     *)
(*                                                                         *)
(* The runner manager is reduced to what RunnerManager shows of it: it     *)
(* admits a Run when a slot is free, starts a process and names it in the  *)
(* manifest, kills a runner that is not known to have a job, and counts    *)
(* the runners of earlier incarnations that it can see.                    *)
(***************************************************************************)
EXTENDS Integers, FiniteSets, Sequences, SequencesExt

CONSTANTS
  Participant,
  Job,        \* job IDs, natural numbers
  Runner,     \* bound: the runner names in use at a time, natural numbers
  Serves,     \* the jobs whose labels each participant has (labelsMatch)
  Eager,      \* the participants without a claim delay
  Capacity,   \* cfg.Capacity
  MaxExits,   \* bound: how often participants die or are stopped
  Faults

FaultKind == {
  "cancel",      \* a queued job is cancelled at GitHub
  "repeat",      \* a run is listed twice: it went from queued to in progress
                 \* between the two listings, or pages were shifted
  "read",        \* a request that reads fails, retries included
  "create",      \* a registration is refused
  "lost_reply",  \* a registration is made and the reply lost; the name is
                 \* then taken, so that the retry is refused
  "delete",      \* removing a registration fails, retries included
  "outage",      \* polls fail for longer than the claim tracker remembers
  "overflow",    \* more jobs match than the claim tracker holds
  "launch",      \* the manager cannot start the runner or record its process
  "terminate",   \* a process survives its termination
  "readdir",     \* the manager cannot list its state directory
  "unread",      \* nor read the manifest of a recovered runner
  "stop",        \* a participant is interrupted
  "crash",       \* a participant dies
  "launch_window"} \* also between the start of a process and its manifest

ASSUME DispatchAssumption ==
  /\ IsFiniteSet(Participant)
  /\ Job \subseteq Nat /\ IsFiniteSet(Job)
  /\ Runner \subseteq Nat /\ IsFiniteSet(Runner)
  /\ Serves \in [Participant -> SUBSET Job]
  /\ Eager \subseteq Participant
  /\ Capacity \in Nat \ {0}
  /\ MaxExits \in Nat
  /\ Faults \subseteq FaultKind

VARIABLES
  \* GitHub.
  job,         \* the status of each job
  worker,      \* RunnerName of each job, as a set of at most one runner
  registered,  \* the runners registered
  \* Each runner, from the request for its registration on.
  owner,       \* the participant that asked for it, as a set
  prompt,      \* the job that prompted it, as a set
  stage,       \* how far its lifecycle is
  proc,        \* its process
  assigned,    \* its assigned channel is closed
  \* The memory of each participant.
  claims,      \* the claim tracker: the jobs known, in order of FirstSeenAt
  ripe,        \* those of them whose claim delay is over
  poll,        \* where the poll loop is
  todo,        \* the jobs this poll has still to look at
  seen,        \* the matching queued jobs this poll has found
  twice,       \* those of them it has found twice
  queue,       \* the eligible jobs still to be offered
  active,      \* Service.active
  local,       \* Manager.localActive
  recovered,   \* Manager.recoveredActive
  stopping,    \* ctx is done
  exits

githubVars == <<job, worker, registered>>
runnerVars == <<owner, prompt, stage, proc, assigned>>
claimVars  == <<claims, ripe>>
pollVars   == <<poll, todo, seen, twice, queue>>
slotVars   == <<active, local, recovered>>
ctxVars    == <<stopping, exits>>
vars == <<githubVars, runnerVars, claimVars, pollVars, slotVars, ctxVars>>

(* The stages of a runner.  "created": registered, the reply received;     *)
(* "launched": started, its process not yet in the manifest; "settled": so *)
(* is its assignment; "orphan": nobody has its ID; "lost" and "kept": its  *)
(* participant died, before or after the assignment was on disk; "unseen": *)
(* the manager does not know of its process any more.                      *)
Stage == {"none", "created", "spawned", "launched", "running", "settled",
          "ended", "deleted", "orphan", "lost", "kept", "unseen"}
Slotted == {"launched", "running", "settled"}
Underway == Slotted \cup {"spawned", "ended", "deleted"}

Alive(r) == proc[r] \in {"idle", "busy"}
Of(p) == {r \in Runner : owner[r] = {p}}
Lifecycles(p) == {r \in Of(p) : stage[r] \in Underway}
Recovered(p) == {r \in Of(p) : stage[r] \in {"lost", "kept"} /\ Alive(r)}

TypeOK ==
  /\ job \in [Job -> {"unborn", "queued", "in_progress", "completed"}]
  /\ worker \in [Job -> SUBSET Runner]
  /\ registered \subseteq Runner
  /\ owner \in [Runner -> SUBSET Participant]
  /\ prompt \in [Runner -> SUBSET Job]
  /\ stage \in [Runner -> Stage]
  /\ proc \in [Runner -> {"none", "idle", "busy", "gone"}]
  /\ assigned \in [Runner -> BOOLEAN]
  /\ claims \in [Participant -> Seq(Job)]
  /\ ripe \in [Participant -> SUBSET Job]
  /\ poll \in [Participant ->
                 {"tick", "observe", "offer", "fetched", "create", "insert"}]
  /\ todo \in [Participant -> SUBSET Job]
  /\ seen \in [Participant -> SUBSET Job]
  /\ twice \in [Participant -> SUBSET Job]
  /\ queue \in [Participant -> Seq(Job)]
  /\ active \in [Participant -> SUBSET Job]
  /\ local \in [Participant -> Nat]
  /\ recovered \in [Participant -> Nat]
  /\ stopping \in [Participant -> BOOLEAN]
  /\ exits \in Nat

Init ==
  /\ job = [j \in Job |-> "unborn"]
  /\ worker = [j \in Job |-> {}]
  /\ registered = {}
  /\ owner = [r \in Runner |-> {}]
  /\ prompt = [r \in Runner |-> {}]
  /\ stage = [r \in Runner |-> "none"]
  /\ proc = [r \in Runner |-> "none"]
  /\ assigned = [r \in Runner |-> FALSE]
  /\ claims = [p \in Participant |-> <<>>]
  /\ ripe = [p \in Participant |-> {}]
  /\ poll = [p \in Participant |-> "tick"]
  /\ todo = [p \in Participant |-> {}]
  /\ seen = [p \in Participant |-> {}]
  /\ twice = [p \in Participant |-> {}]
  /\ queue = [p \in Participant |-> <<>>]
  /\ active = [p \in Participant |-> {}]
  /\ local = [p \in Participant |-> 0]
  /\ recovered = [p \in Participant |-> 0]
  /\ stopping = [p \in Participant |-> FALSE]
  /\ exits = 0

-----------------------------------------------------------------------------
(* GitHub. *)

Submit(j) ==
  /\ job[j] = "unborn"
  /\ job' = [job EXCEPT ![j] = "queued"]
  /\ UNCHANGED <<worker, registered, runnerVars, claimVars, pollVars, slotVars,
                 ctxVars>>

Cancel(j) ==
  /\ "cancel" \in Faults
  /\ job[j] = "queued"
  /\ job' = [job EXCEPT ![j] = "completed"]
  /\ UNCHANGED <<worker, registered, runnerVars, claimVars, pollVars, slotVars,
                 ctxVars>>

\* Any registered runner that is waiting gets any job its labels allow.
Assign(j, r) ==
  /\ job[j] = "queued"
  /\ r \in registered
  /\ proc[r] = "idle"
  /\ \E p \in owner[r] : j \in Serves[p]
  /\ job' = [job EXCEPT ![j] = "in_progress"]
  /\ worker' = [worker EXCEPT ![j] = {r}]
  /\ proc' = [proc EXCEPT ![r] = "busy"]
  /\ UNCHANGED <<registered, owner, prompt, stage, assigned, claimVars,
                 pollVars, slotVars, ctxVars>>

\* A just-in-time runner ends with its job, and GitHub forgets it.
Finish(j, r) ==
  /\ job[j] = "in_progress"
  /\ worker[j] = {r}
  /\ proc[r] = "busy"
  /\ job' = [job EXCEPT ![j] = "completed"]
  /\ proc' = [proc EXCEPT ![r] = "gone"]
  /\ registered' = registered \ {r}
  /\ UNCHANGED <<worker, owner, prompt, stage, assigned, claimVars, pollVars,
                 slotVars, ctxVars>>

\* GitHub gives up a job whose runner does not answer any more.
Abandon(j) ==
  /\ job[j] = "in_progress"
  /\ \A r \in worker[j] : proc[r] = "gone"
  /\ job' = [job EXCEPT ![j] = "completed"]
  /\ UNCHANGED <<worker, registered, runnerVars, claimVars, pollVars, slotVars,
                 ctxVars>>

-----------------------------------------------------------------------------
(* The poll loop: Service.PollOnce, observe and offer. *)

Goto(p, from, to) ==
  /\ poll[p] = from
  /\ poll' = [poll EXCEPT ![p] = to]

\* Requests fail under a context that is done.
MayFail(p, fault) == fault \in Faults \/ stopping[p]

CountKept(p, K) == Cardinality({r \in Recovered(p) : stage[r] = "kept"})
CountLeft(p, K) == Cardinality(Recovered(p) \ K)

\* The manager reconciles: it discards the directories of the runners U whose
\* manifests it cannot read, kills some of the recovered ones whose deadline is
\* over and whose job it does not know of, and counts the rest.
PollStart(p) ==
  /\ Goto(p, "tick", "observe")
  /\ todo' = [todo EXCEPT ![p] = Serves[p]]
  /\ \E U \in SUBSET Recovered(p) :
       /\ U # {} => "unread" \in Faults
       /\ stage' = [r \in Runner |-> IF r \in U THEN "unseen" ELSE stage[r]]
       /\ \E K \in SUBSET {r \in Recovered(p) \ U : stage[r] = "lost"} :
            /\ proc' = [r \in Runner |-> IF r \in K THEN "gone" ELSE proc[r]]
            /\ recovered' = [recovered EXCEPT ![p] = CountLeft(p, K \cup U)]
  /\ UNCHANGED <<githubVars, owner, prompt, assigned, claimVars, seen, twice,
                 queue, active, local, ctxVars>>

\* When the directory cannot be listed, the poll goes on all the same while the
\* manager still counts fewer runners than the capacity.
PollUncounted(p) ==
  /\ "readdir" \in Faults
  /\ local[p] + recovered[p] < Capacity
  /\ Goto(p, "tick", "observe")
  /\ todo' = [todo EXCEPT ![p] = Serves[p]]
  /\ UNCHANGED <<githubVars, runnerVars, claimVars, seen, twice, queue,
                 slotVars, ctxVars>>

\* The status of the jobs is read one after another; those with other labels
\* are left out here.  The jobs of a run listed twice are read again later.
Observe(p, j) ==
  /\ poll[p] = "observe"
  /\ j \in todo[p]
  /\ todo' = [todo EXCEPT ![p] = @ \ {j}]
  /\ seen' = IF job[j] = "queued" THEN [seen EXCEPT ![p] = @ \cup {j}] ELSE seen
  /\ UNCHANGED <<githubVars, runnerVars, claimVars, poll, twice, queue,
                 slotVars, ctxVars>>

ObserveAgain(p, j) ==
  /\ "repeat" \in Faults
  /\ poll[p] = "observe"
  /\ j \in seen[p] /\ job[j] = "queued"
  /\ twice' = [twice EXCEPT ![p] = @ \cup {j}]
  /\ UNCHANGED <<githubVars, runnerVars, claimVars, poll, todo, seen, queue,
                 slotVars, ctxVars>>

Known(p) == ToSet(claims[p])

\* The order in which eligibleClaims sorts: by FirstSeenAt, which a job that is
\* new to the tracker, now that it has forgotten those of F, is given now, then
\* by ID.
Sooner(p, F, j, k) ==
  LET left == Known(p) \ F
  IN  \/ {j, k} \subseteq left
         /\ \E m, n \in DOMAIN claims[p] : m < n /\ claims[p][m] = j /\ claims[p][n] = k
      \/ j \in left /\ k \notin left
      \/ {j, k} \cap left = {} /\ j < k

\* The jobs of S so sorted, those of T two times.
Sorted(p, F, S, T) ==
  {s \in [1 .. Cardinality(S) + Cardinality(S \cap T) -> S] :
     /\ \A j \in S : Cardinality({n \in DOMAIN s : s[n] = j})
                         = IF j \in T THEN 2 ELSE 1
     /\ \A m, n \in DOMAIN s : m < n => ~Sooner(p, F, s[n], s[m])}

\* claimTracker.observe and eligibleClaims: the jobs of F are forgotten, as too
\* old or to make room, those that are new or forgotten are first seen now,
\* and of those in view the ones whose delay is over are offered, one that was
\* found twice two times.  Those of G are forgotten at once, for want of room.
DueIfNew(p, new, F) == IF p \in Eager THEN new ELSE {}
Due(p, new, F) == (ripe[p] \ F) \cup (IF p \in Eager THEN new ELSE {})

ClaimWith(p, F, G) ==
  LET left == Known(p) \ F
      due == Due(p, seen[p] \ left, F)
  IN  /\ todo[p] = {}
      /\ Goto(p, "observe", "offer")
      /\ \E all \in Sorted(p, F, (left \cup seen[p]) \ G, {}) :
           claims' = [claims EXCEPT ![p] = all]
      /\ ripe' = [ripe EXCEPT ![p] = due \ G]
      /\ \E eligible \in Sorted(p, F, seen[p] \cap due, twice[p]) :
           queue' = [queue EXCEPT ![p] = eligible]
      /\ seen' = [seen EXCEPT ![p] = {}]
      /\ twice' = [twice EXCEPT ![p] = {}]
      /\ UNCHANGED <<githubVars, runnerVars, todo, slotVars, ctxVars>>

Claim(p) == \E F \in SUBSET (Known(p) \ seen[p]) : ClaimWith(p, F, {})

\* A job in view is forgotten only after an outage, or when the jobs in view
\* alone are too many; its delay begins anew.
ClaimAnew(p) ==
  \E F \in SUBSET Known(p), G \in SUBSET seen[p] :
    /\ (F \cap seen[p]) \cup G # {}
    /\ F \cap seen[p] # {} => "outage" \in Faults
    /\ G # {} => "overflow" \in Faults /\ Known(p) \ seen[p] \subseteq F
    /\ ClaimWith(p, F, G)

\* Time passes: the claim delay of the job known longest is over.
Ripen(p) ==
  /\ \E n \in DOMAIN claims[p] :
       /\ claims[p][n] \notin ripe[p]
       /\ \A m \in 1 .. n - 1 : claims[p][m] \in ripe[p]
       /\ ripe' = [ripe EXCEPT ![p] = @ \cup {claims[p][n]}]
  /\ UNCHANGED <<githubVars, runnerVars, claims, pollVars, slotVars, ctxVars>>

\* Service.localCapacity.
UsedByRuns(p) == local[p] + recovered[p]
Used(p) == IF local[p] + recovered[p] > Cardinality(active[p])
             THEN local[p] + recovered[p] ELSE Cardinality(active[p])

SkippedWhenFull(p) == Used(p) >= Capacity
Skipped(p) == Used(p) >= Capacity \/ Head(queue[p]) \in active[p]

Pop(p) == queue' = [queue EXCEPT ![p] = Tail(@)]

Skip(p) ==
  /\ poll[p] = "offer"
  /\ queue[p] # <<>>
  /\ Skipped(p)
  /\ Pop(p)
  /\ UNCHANGED <<githubVars, runnerVars, claimVars, poll, todo, seen, twice,
                 slotVars, ctxVars>>

\* A poll that fails ends; what it had found or still to offer is dropped.
\* (Observing keeps nothing, so that it need not fail before its end.)
PollFails(p) ==
  /\ todo[p] = {}
  /\ \/ poll[p] = "observe" /\ MayFail(p, "read")
     \/ poll[p] = "offer" /\ queue[p] # <<>> /\ ~Skipped(p) /\ MayFail(p, "read")
     \/ poll[p] = "fetched" /\ MayFail(p, "read")
     \/ poll[p] = "create" /\ MayFail(p, "create")
  /\ poll' = [poll EXCEPT ![p] = "tick"]
  /\ seen' = [seen EXCEPT ![p] = {}]
  /\ twice' = [twice EXCEPT ![p] = {}]
  /\ queue' = [queue EXCEPT ![p] = <<>>]
  /\ UNCHANGED <<githubVars, runnerVars, claimVars, todo, slotVars, ctxVars>>

\* GetJob, and what finalMetadataConsistent says of its status.
StillWanted(j) == job[j] = "queued"

Fetch(p) ==
  /\ poll[p] = "offer"
  /\ queue[p] # <<>>
  /\ ~Skipped(p)
  /\ IF StillWanted(Head(queue[p]))
       THEN Goto(p, "offer", "fetched") /\ UNCHANGED queue
       ELSE Pop(p) /\ UNCHANGED poll
  /\ UNCHANGED <<githubVars, runnerVars, claimVars, todo, seen, twice,
                 slotVars, ctxVars>>

\* After GetWorkflowRun.
Recheck(p) ==
  /\ poll[p] = "fetched"
  /\ IF Used(p) < Capacity
       THEN Goto(p, "fetched", "create") /\ UNCHANGED queue
       ELSE Goto(p, "fetched", "offer") /\ Pop(p)
  /\ UNCHANGED <<githubVars, runnerVars, claimVars, todo, seen, twice,
                 slotVars, ctxVars>>

\* A name is used again when nothing refers to it any more.
Fresh(r) ==
  /\ stage[r] \in {"none", "orphan", "lost", "kept", "unseen"}
  /\ ~Alive(r)
  /\ r \notin registered
  /\ \A j \in Job : r \notin worker[j]

(* The names are random; which one is fresh makes no difference.           *)
Register(p, r, s) ==
  /\ Fresh(r)
  /\ \A n \in Runner : Fresh(n) => r <= n
  /\ registered' = registered \cup {r}
  /\ owner' = [owner EXCEPT ![r] = {p}]
  /\ prompt' = [prompt EXCEPT ![r] = {Head(queue[p])}]
  /\ stage' = [stage EXCEPT ![r] = s]
  /\ proc' = [proc EXCEPT ![r] = "none"]
  /\ assigned' = [assigned EXCEPT ![r] = FALSE]

\* GenerateJITConfig.
Create(p, r) ==
  /\ ~stopping[p]
  /\ Goto(p, "create", "insert")
  /\ Register(p, r, "created")
  /\ UNCHANGED <<job, worker, claimVars, todo, seen, twice, queue,
                 slotVars, ctxVars>>

CreateLost(p, r) ==
  /\ "lost_reply" \in Faults
  /\ Goto(p, "create", "tick")
  /\ Register(p, r, "orphan")
  /\ queue' = [queue EXCEPT ![p] = <<>>]
  /\ UNCHANGED <<job, worker, claimVars, todo, seen, twice,
                 slotVars, ctxVars>>

FullTooSoon(p) == \/ Head(queue[p]) \in active[p]
                  \/ Cardinality(active[p]) + 1 >= Capacity

\* The second look at Service.active; a registration that finds no place
\* there is left alone.
Full(p) == \/ Head(queue[p]) \in active[p]
           \/ Cardinality(active[p]) >= Capacity

Insert(p, r) ==
  /\ Goto(p, "insert", "offer")
  /\ r \in Of(p)
  /\ stage[r] = "created"
  /\ IF Full(p)
       THEN /\ stage' = [stage EXCEPT ![r] = "orphan"]
            /\ UNCHANGED active
       ELSE /\ stage' = [stage EXCEPT ![r] = "spawned"]
            /\ active' = [active EXCEPT ![p] = @ \cup {Head(queue[p])}]
  /\ Pop(p)
  /\ UNCHANGED <<githubVars, owner, prompt, proc, assigned, claimVars, todo,
                 seen, twice, local, recovered, ctxVars>>

PollDone(p) ==
  /\ queue[p] = <<>>
  /\ Goto(p, "offer", "tick")
  /\ UNCHANGED <<githubVars, runnerVars, claimVars, todo, seen, twice, queue,
                 slotVars, ctxVars>>

-----------------------------------------------------------------------------
(* The lifecycle of a runner: the goroutines of Service.offer. *)

Move(r, from, to) ==
  /\ stage[r] \in from
  /\ stage' = [stage EXCEPT ![r] = to]

\* Manager.Run takes a slot and starts the process, is refused, or fails.
HasSlot(p) == local[p] + 1 + recovered[p] <= Capacity

RunStarts(p, r) ==
  /\ r \in Of(p)
  /\ HasSlot(p)
  /\ ~stopping[p]
  /\ Move(r, {"spawned"}, "launched")
  /\ proc' = [proc EXCEPT ![r] = "idle"]
  /\ local' = [local EXCEPT ![p] = @ + 1]
  /\ UNCHANGED <<githubVars, owner, prompt, assigned, claimVars, pollVars,
                 active, recovered, ctxVars>>

\* The manifest names the process.
RunRecords(r) ==
  /\ Move(r, {"launched"}, "running")
  /\ UNCHANGED <<githubVars, owner, prompt, proc, assigned, claimVars, pollVars,
                 slotVars, ctxVars>>

Refused(p) == ~HasSlot(p) \/ MayFail(p, "launch")

RunRefusedTwice(p, r) ==
  /\ r \in Of(p) /\ Refused(p)
  /\ Move(r, {"spawned"}, "ended")
  /\ local' = [local EXCEPT ![p] = @ - 1]
  /\ UNCHANGED <<githubVars, owner, prompt, proc, assigned, claimVars, pollVars,
                 active, recovered, ctxVars>>

RunRefused(p, r) ==
  /\ r \in Of(p) /\ Refused(p)
  /\ Move(r, {"spawned"}, "ended")
  /\ UNCHANGED <<githubVars, owner, prompt, proc, assigned, claimVars, pollVars,
                 slotVars, ctxVars>>

\* watchAssignment finds the runner in the job that prompted it, or in a job
\* of a run in progress.
SeesAssignment(r) ==
  \E j \in Job : worker[j] = {r} /\ (j \in prompt[r] \/ job[j] = "in_progress")

Watch(r) ==
  /\ stage[r] \in {"spawned", "launched", "running"}
  /\ ~assigned[r]
  /\ SeesAssignment(r)
  /\ assigned' = [assigned EXCEPT ![r] = TRUE]
  /\ UNCHANGED <<githubVars, owner, prompt, stage, proc, claimVars, pollVars,
                 slotVars, ctxVars>>

RunAssigned(r) ==
  /\ assigned[r]
  /\ Move(r, {"running"}, "settled")
  /\ UNCHANGED <<githubVars, owner, prompt, proc, assigned, claimVars, pollVars,
                 slotVars, ctxVars>>

Quit(r) ==
  /\ proc[r] = "idle"
  /\ proc' = [proc EXCEPT ![r] = "gone"]
  /\ UNCHANGED <<githubVars, owner, prompt, stage, assigned, claimVars, pollVars,
                 slotVars, ctxVars>>

Released(p, r) == [local EXCEPT ![p] = @ - 1]

\* Run returns: the process ended, or ctx is done and Run has waited for its
\* end; the timer fired, or a manifest could not be written, and the process is
\* terminated, which may fail.
RunEnds(p, r) ==
  /\ r \in Of(p)
  /\ \/ /\ ~Alive(r) \/ stopping[p]
        /\ Move(r, {"running", "settled"}, "ended")
        /\ proc' = [proc EXCEPT ![r] = "gone"]
     \/ /\ \/ Move(r, {"running"}, "ended")
           \/ "launch" \in Faults /\ Move(r, {"launched"}, "ended")
        /\ \/ proc' = [proc EXCEPT ![r] = "gone"]
           \/ "terminate" \in Faults /\ UNCHANGED proc
  /\ local' = Released(p, r)
  /\ UNCHANGED <<githubVars, owner, prompt, assigned, claimVars, pollVars,
                 active, recovered, ctxVars>>

\* DeleteRunner; an error is logged and not retried later.
RemovedIfRun(r) == IF proc[r] = "none" THEN registered ELSE registered \ {r}
Removed(r) == registered \ {r}

Delete(r) ==
  /\ Move(r, {"ended"}, "deleted")
  /\ \/ registered' = Removed(r)
     \/ "delete" \in Faults /\ UNCHANGED registered
  /\ UNCHANGED <<job, worker, owner, prompt, proc, assigned, claimVars, pollVars,
                 slotVars, ctxVars>>

KeepsActive(p, r) == active
Retired(p, r) == [active EXCEPT ![p] = @ \ prompt[r]]

Retire(p, r) ==
  /\ r \in Of(p)
  /\ Move(r, {"deleted"}, IF Alive(r) THEN "unseen" ELSE "none")
  /\ active' = Retired(p, r)
  /\ owner' = [owner EXCEPT ![r] = IF Alive(r) THEN @ ELSE {}]
  /\ prompt' = [prompt EXCEPT ![r] = {}]
  /\ assigned' = [assigned EXCEPT ![r] = FALSE]
  /\ UNCHANGED <<githubVars, proc, claimVars, pollVars, local, recovered, ctxVars>>

-----------------------------------------------------------------------------
(* The end of a participant and its next incarnation. *)

Interrupt(p) ==
  /\ "stop" \in Faults
  /\ exits < MaxExits
  /\ ~stopping[p]
  /\ stopping' = [stopping EXCEPT ![p] = TRUE]
  /\ exits' = exits + 1
  /\ UNCHANGED <<githubVars, runnerVars, claimVars, pollVars, slotVars>>

LeftBehind(r) ==
  CASE stage[r] = "created"            -> "orphan"
    [] stage[r] = "settled"            -> "kept"
    [] stage[r] \in {"spawned", "running"} -> "lost"
    [] OTHER                           -> "unseen"

Launching(p) == {r \in Of(p) : stage[r] = "launched"}

Restart(p) ==
  /\ Launching(p) # {} => "launch_window" \in Faults
  /\ stage' = [r \in Runner |->
                 IF r \in Lifecycles(p) \/ (r \in Of(p) /\ stage[r] = "created")
                   THEN LeftBehind(r) ELSE stage[r]]
  /\ claims' = [claims EXCEPT ![p] = <<>>]
  /\ ripe' = [ripe EXCEPT ![p] = {}]
  /\ poll' = [poll EXCEPT ![p] = "tick"]
  /\ todo' = [todo EXCEPT ![p] = {}]
  /\ seen' = [seen EXCEPT ![p] = {}]
  /\ twice' = [twice EXCEPT ![p] = {}]
  /\ queue' = [queue EXCEPT ![p] = <<>>]
  /\ active' = [active EXCEPT ![p] = {}]
  /\ local' = [local EXCEPT ![p] = 0]
  /\ recovered' = [recovered EXCEPT ![p] = 0]
  /\ stopping' = [stopping EXCEPT ![p] = FALSE]
  /\ UNCHANGED <<githubVars, owner, prompt, proc, assigned>>

Crash(p) ==
  /\ "crash" \in Faults
  /\ exits < MaxExits
  /\ exits' = exits + 1
  /\ Restart(p)

\* Service.Run returns between two polls and main with it; nothing waits for
\* the goroutines of the runners.
Exit(p) ==
  /\ stopping[p]
  /\ poll[p] = "tick"
  /\ Restart(p)
  /\ UNCHANGED exits

-----------------------------------------------------------------------------
PollStep(p) ==
  \/ PollStart(p) \/ PollUncounted(p) \/ PollFails(p) \/ Claim(p) \/ ClaimAnew(p)
  \/ Skip(p) \/ Fetch(p) \/ Recheck(p) \/ PollDone(p)
  \/ \E j \in Job : Observe(p, j) \/ ObserveAgain(p, j)
  \/ \E r \in Runner : Create(p, r) \/ CreateLost(p, r) \/ Insert(p, r)

LifecycleStep(p, r) ==
  \/ RunStarts(p, r) \/ RunRefused(p, r) \/ RunEnds(p, r) \/ Retire(p, r)

RunnerStep(r) ==
  RunRecords(r) \/ Watch(r) \/ RunAssigned(r) \/ Quit(r) \/ Delete(r)

JobStep(j) ==
  \/ Submit(j) \/ Cancel(j) \/ Abandon(j)
  \/ \E r \in Runner : Assign(j, r) \/ Finish(j, r)

ParticipantStep(p) ==
  \/ PollStep(p) \/ Ripen(p) \/ Interrupt(p) \/ Crash(p) \/ Exit(p)
  \/ \E r \in Runner : LifecycleStep(p, r)

Next == \/ \E p \in Participant : ParticipantStep(p)
        \/ \E r \in Runner : RunnerStep(r)
        \/ \E j \in Job : JobStep(j)

Spec == Init /\ [][Next]_vars

-----------------------------------------------------------------------------
(* Safety. *)

(* Service.active is exactly the set of jobs that prompted the lifecycles  *)
(* under way, no two of them prompted by the same job and never more than  *)
(* Capacity (participant.go:92, 179-184 and 205-207), and localActive      *)
(* counts those that hold a slot.                                          *)
LedgersAgree ==
  \A p \in Participant :
    /\ active[p] = UNION {prompt[r] : r \in Lifecycles(p)}
    /\ Cardinality(active[p]) = Cardinality(Lifecycles(p))
    /\ Cardinality(active[p]) <= Capacity
    /\ local[p] = Cardinality({r \in Lifecycles(p) : stage[r] \in Slotted})

(* A registration always finds its place: the branch that would drop it    *)
(* (participant.go:179-182) is never taken, although lifecycles come to    *)
(* their end between the checks.                                           *)
InsertFits == \A p \in Participant : poll[p] = "insert" => ~Full(p)

(* Across its incarnations a participant never runs more processes than    *)
(* its capacity: what an earlier one left is counted before a poll offers  *)
(* anything, and counted too high rather than too low afterwards           *)
(* (participant.go:76 and 294-302, manager.go:61).                         *)
WithinCapacity ==
  \A p \in Participant : Cardinality({r \in Of(p) : Alive(r)}) <= Capacity

(* Nor does it ever have more runners registered at GitHub, counting the   *)
(* one a poll is about to record and those whose lifecycle is ending       *)
(* (participant.go:153 and 171-184).                                       *)
RegistrationsBounded ==
  \A p \in Participant : Cardinality({r \in registered : owner[r] = {p}}) <= Capacity

(* Every registration has somebody who will remove it: the poll that just  *)
(* made it, the lifecycle it belongs to, or GitHub once its process has    *)
(* done its job (participant.go:193-199).                                  *)
RegistrationsHeld ==
  \A r \in registered :
    Alive(r) \/ stage[r] \in Slotted \cup {"created", "spawned", "ended"}

-----------------------------------------------------------------------------
(* Liveness. *)

(* GitHub gives a queued job to a runner that can serve it if there is one *)
(* again and again; a request that is repeated does not fail every time,   *)
(* nor does every launch; the scheduler runs every goroutine; jobs, claim  *)
(* delays and acquisition timeouts come to an end.                         *)
Fairness ==
  /\ \A j \in Job :
       /\ SF_vars(\E r \in Runner : Assign(j, r))
       /\ WF_vars(Abandon(j) \/ \E r \in Runner : Finish(j, r))
  /\ \A p \in Participant :
       /\ WF_vars(PollStep(p))
       /\ SF_vars(Claim(p))
       /\ SF_vars(Fetch(p))
       /\ SF_vars(Recheck(p))
       /\ SF_vars(\E r \in Runner : Create(p, r))
       /\ WF_vars(Ripen(p))
       /\ SF_vars(\E r \in Runner : RunStarts(p, r))
       /\ \A r \in Runner :
            WF_vars(LifecycleStep(p, r) \/ (r \in Of(p) /\ (RunRecords(r) \/ Delete(r))))

FairSpec == Spec /\ Fairness

(* From some time on no outage is so long, and no set of matching jobs so  *)
(* large, that the tracker forgets a job in view.                          *)
Settles == <>[][\A p \in Participant : ~ClaimAnew(p)]_vars

(* If so, a queued job that some participant can serve does not stay       *)
(* queued, whatever else fails now and then, and although the runner made  *)
(* for it may be given another job or time out before GitHub uses it, and  *)
(* the place it takes in Service.active keeps other jobs waiting           *)
(* (participant.go:91-98 and 205-207, claim.go:25-51).                     *)
QueuedServed ==
  Settles => \A j \in Job : (\E p \in Participant : j \in Serves[p])
                               => (job[j] = "queued") ~> (job[j] # "queued")

(* Every lifecycle ends, and its job can be offered again.                 *)
LifecyclesEnd ==
  \A p \in Participant, j \in Job : (j \in active[p]) ~> (j \notin active[p])

=============================================================================
