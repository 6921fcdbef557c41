---------------------------- MODULE GitHubClient ----------------------------
(***************************************************************************)
(* The GitHub client (internal/github/client.go) under the two uses that   *)
(* the service makes of it: the listing of a poll, which is many requests  *)
(* to a server that changes between them, and the registration of a runner *)
(* and its removal, whose requests may be repeated after their effect.     *)
(*                                                                         *)
(* One request is one step of the server.  doJSON repeats a request twice  *)
(* after a transport error, a 5xx, a 429 or a limited 403; any other       *)
(* failure, a cut body, a timeout or a done context among them, is final.  *)
(* Concurrent calls share nothing, so the model makes one at a time, for   *)
(* one repository; of the jobs of a run, on any number of pages, one       *)
(* matters.                                                                *)
(***************************************************************************)
EXTENDS Integers, FiniteSets, Sequences

CONSTANTS
  Runs,      \* bound: how many runs are created, 1 is the oldest
  PageSize,  \* runs per page
  MaxPages,  \* pages per listing
  Faults     \* "transient", "final", "lost_reply"

ASSUME ClientAssumption ==
  /\ Runs \in Nat
  /\ PageSize \in Nat \ {0}
  /\ MaxPages \in Nat \ {0}
  /\ Faults \subseteq {"transient", "final", "lost_reply"}

Run == 1 .. Runs
Retries == 2

VARIABLES
  task,      \* the call being made
  attempt,   \* doJSON's counter for the current request
  \* A listing.
  step,      \* the status being listed, an index of Statuses
  page,      \* the page being asked for, of the runs or of the jobs of a run
  batch,     \* runs listed so far, then those whose jobs are still to be read
             \* in their order; one that two pages show is there twice
  observed,  \* runs whose job was seen queued
  outcome,   \* how the last listing ended
  \* The runner.
  runner, client,  \* see Registration
  \* GitHub, and history of it for the properties.
  state,     \* of every run
  steady,    \* runs whose job has been queued since the listing began
  shifted    \* a run has left the status whose pages were being read

callVars == <<task, attempt>>
listVars == <<step, page, batch, observed, outcome>>
runnerVars == <<runner, client>>
serverVars == <<state, steady, shifted>>
vars == <<callVars, listVars, runnerVars, serverVars>>

\* "partly": another job of the run has started, so that the run is in
\* progress while the job is still queued.
RunState == {"absent", "queued", "partly", "busy", "done"}
JobQueued(r) == state[r] \in {"queued", "partly"}

TypeOK ==
  /\ task \in {"idle", "runs", "jobs", "create", "delete"}
  /\ attempt \in 0 .. Retries
  /\ step \in {1, 2}
  /\ page \in 1 .. MaxPages
  /\ batch \in Seq(Run)
  /\ observed \subseteq Run
  /\ outcome \in {"none", "complete", "failed"}
  /\ runner \in {"absent", "present"}
  /\ client \in {"none", "held", "failed", "released", "unreleased"}
  /\ state \in [Run -> RunState]
  /\ steady \subseteq Run
  /\ shifted \in BOOLEAN

StatusesSwapped == <<"in_progress", "queued">>
Statuses == <<"queued", "in_progress">>

Init ==
  /\ task = "idle" /\ attempt = 0
  /\ step = 1 /\ page = 1 /\ batch = <<>> /\ observed = {}
  /\ outcome = "none"
  /\ runner = "absent" /\ client = "none"
  /\ state = [r \in Run |-> "absent"]
  /\ steady = {} /\ shifted = FALSE

-----------------------------------------------------------------------------
(* doJSON. *)

FailsOnceMore(end) ==
  \/ /\ "transient" \in Faults /\ attempt <= Retries
     /\ attempt' = attempt + 1
     /\ UNCHANGED <<task, listVars, client>>
  \/ "transient" \in Faults /\ attempt > Retries /\ end
  \/ "final" \in Faults /\ end

FailsUnbounded(end) ==
  \/ /\ "transient" \in Faults
     /\ attempt' = IF attempt < Retries THEN attempt + 1 ELSE 0
     /\ UNCHANGED <<task, listVars, client>>
  \/ "final" \in Faults /\ end

\* A request that fails is sent again or ends the call with "end".
Fails(end) ==
  \/ /\ "transient" \in Faults /\ attempt < Retries
     /\ attempt' = attempt + 1
     /\ UNCHANGED <<task, listVars, client>>
  \/ "transient" \in Faults /\ attempt = Retries /\ end
  \/ "final" \in Faults /\ end

Idle == task' = "idle" /\ attempt' = 0

-----------------------------------------------------------------------------
(* Service.observe: ListWorkflowRuns of both statuses, ListJobs of each run. *)

StatusOf(s) ==
  CASE s = "queued" -> "queued"
    [] s \in {"partly", "busy"} -> "in_progress"
    [] OTHER -> "other"

WithStatus == {r \in Run : StatusOf(state[r]) = Statuses[step]}

\* The server lists the newest run first.
Position(r) == Cardinality({q \in WithStatus : q >= r})

OnPage ==
  {r \in WithStatus : /\ (page - 1) * PageSize < Position(r)
                      /\ Position(r) <= page * PageSize}

\* The page as a sequence.
NewestFirst(s) ==
  /\ \A r \in OnPage : \E i \in DOMAIN s : s[i] = r
  /\ \A i, j \in DOMAIN s : i < j => s[i] > s[j]

HasNext == Cardinality(WithStatus) > page * PageSize

ListingFails ==
  /\ Idle
  /\ outcome' = "failed"
  /\ UNCHANGED <<step, page, batch, observed, client>>

StartListing ==
  /\ task = "idle" /\ client = "none"
  /\ task' = "runs" /\ attempt' = 0
  /\ step' = 1 /\ page' = 1 /\ batch' = <<>> /\ observed' = {}
  /\ outcome' = "none"
  /\ steady' = {r \in Run : JobQueued(r)} /\ shifted' = FALSE
  /\ UNCHANGED <<runnerVars, state>>

\* The jobs of every listed run, then the other status, then the end.
Proceed(runs, seen) ==
  /\ attempt' = 0 /\ page' = 1 /\ batch' = runs /\ observed' = seen
  /\ \/ /\ runs # <<>> /\ task' = "jobs"
        /\ UNCHANGED <<step, outcome>>
     \/ /\ runs = <<>> /\ step = 1 /\ task' = "runs"
        /\ step' = 2
        /\ UNCHANGED outcome
     \/ /\ runs = <<>> /\ step = 2 /\ task' = "idle"
        /\ outcome' = "complete"
        /\ UNCHANGED step

LimitPassed == page > MaxPages
AtLimit == page >= MaxPages

NextPage(runs, seen) ==
  /\ page' = page + 1 /\ attempt' = 0 /\ batch' = runs /\ observed' = seen
  /\ UNCHANGED <<task, step, outcome>>

\* The last page, the next page, or one page too many.
ListRuns ==
  /\ task = "runs"
  /\ \E s \in [1 .. Cardinality(OnPage) -> OnPage] :
       /\ NewestFirst(s)
       /\ \/ ~HasNext /\ Proceed(batch \o s, observed) /\ UNCHANGED client
          \/ HasNext /\ ~AtLimit /\ NextPage(batch \o s, observed) /\ UNCHANGED client
          \/ HasNext /\ AtLimit /\ ListingFails
  /\ UNCHANGED <<runner, serverVars>>

SeesJob == observed \cup {r \in {Head(batch)} : JobQueued(r)}

\* The same for the jobs of a run: GitHub says whether another page follows,
\* and the job that matters is on one of them.
ListJobs ==
  /\ task = "jobs"
  /\ \/ Proceed(Tail(batch), SeesJob) /\ UNCHANGED client
     \/ /\ ~AtLimit /\ UNCHANGED client
        /\ \E seen \in {observed, SeesJob} : NextPage(batch, seen)
     \/ AtLimit /\ ListingFails
  /\ UNCHANGED <<runner, serverVars>>

ListingRequestFails ==
  /\ task \in {"runs", "jobs"}
  /\ Fails(ListingFails)
  /\ UNCHANGED <<runner, serverVars>>

-----------------------------------------------------------------------------
(* GenerateJITConfig and DeleteRunner, as offer and its lifecycle use them. *)

Ends(result) == Idle /\ client' = result /\ UNCHANGED listVars

StartCreate ==
  /\ task = "idle" /\ client = "none"
  /\ task' = "create" /\ attempt' = 0
  /\ UNCHANGED <<listVars, runnerVars, serverVars>>

\* A name that exists is refused with a status that is not repeated.
Create ==
  /\ task = "create"
  /\ IF runner = "absent" THEN Ends("held") ELSE Ends("failed")
  /\ runner' = "present"
  /\ UNCHANGED serverVars

\* The reply of a failed request may have been lost after its effect.
Effect(applied) ==
  runner' \in {runner} \cup (IF "lost_reply" \in Faults THEN {applied} ELSE {})

CreateFails ==
  /\ task = "create"
  /\ Fails(Ends("failed"))
  /\ Effect("present")
  /\ UNCHANGED serverVars

StartDelete ==
  /\ task = "idle" /\ client = "held"
  /\ task' = "delete" /\ attempt' = 0
  /\ UNCHANGED <<listVars, runnerVars, serverVars>>

\* Deleted; or 404, which the lifecycle takes for success.
Delete ==
  /\ task = "delete"
  /\ Ends("released")
  /\ runner' = "absent"
  /\ UNCHANGED serverVars

DeleteFailsAsGone ==
  /\ task = "delete"
  /\ Fails(Ends("released"))
  /\ Effect("absent")
  /\ UNCHANGED serverVars

\* Any other error is logged, and the registration forgotten.
DeleteFails ==
  /\ task = "delete"
  /\ Fails(Ends("unreleased"))
  /\ Effect("absent")
  /\ UNCHANGED serverVars

NextRunner ==
  /\ task = "idle" /\ client \in {"failed", "released", "unreleased"}
  /\ client' = "none" /\ runner' = "absent"
  /\ UNCHANGED <<callVars, listVars, serverVars>>

-----------------------------------------------------------------------------
(* GitHub. *)

\* GitHub removes a just-in-time runner after its job.
RunnerEnds ==
  /\ client = "held" /\ runner = "present"
  /\ runner' = "absent"
  /\ UNCHANGED <<callVars, listVars, client, serverVars>>

Follows(s) ==
  CASE s = "absent" -> {"queued"}
    [] s = "queued" -> {"partly", "busy", "done"}
    [] s = "partly" -> {"busy", "done"}
    [] s = "busy" -> {"done"}
    [] OTHER -> {}

\* Runs are created in the order of their numbers.
RunChanges(r) ==
  /\ client = "none"
  /\ \A q \in Run : q < r => state[q] # "absent"
  /\ \E s \in Follows(state[r]) : state' = [state EXCEPT ![r] = s]
  /\ steady' = {q \in steady : state'[q] \in {"queued", "partly"}}
  /\ shifted' = (shifted \/ /\ task = "runs" /\ page > 1
                            /\ StatusOf(state[r]) = Statuses[step]
                            /\ StatusOf(state'[r]) # Statuses[step])
  /\ UNCHANGED <<callVars, listVars, runnerVars>>

Next ==
  \/ StartListing \/ ListRuns \/ ListJobs \/ ListingRequestFails
  \/ StartCreate \/ Create \/ CreateFails
  \/ StartDelete \/ Delete \/ DeleteFails \/ NextRunner
  \/ RunnerEnds \/ \E r \in Run : RunChanges(r)

Spec == Init /\ [][Next]_vars

\* The calls that are being made go on: replies come, or requests fail.
Fairness ==
  /\ WF_vars(ListRuns \/ ListJobs \/ ListingRequestFails)
  /\ WF_vars(Create \/ CreateFails \/ Delete \/ DeleteFails)

FairSpec == Spec /\ Fairness

-----------------------------------------------------------------------------

(***************************************************************************)
(* A listing that succeeds has found every job that was queued from its    *)
(* first request to its last, also one whose run went from queued to in    *)
(* progress meanwhile, unless pages were shifted under it.                 *)
(***************************************************************************)
ListingComplete == outcome = "complete" /\ ~shifted => steady \subseteq observed

(***************************************************************************)
(* However often the requests are repeated, one registration is made and   *)
(* one is released.                                                        *)
(***************************************************************************)
R == INSTANCE Registration

RegistrationSpec == R!Spec

(***************************************************************************)
(* Every call ends: the repetitions are bounded, and the pages are.        *)
(***************************************************************************)
CallsEnd == (task # "idle") ~> (task = "idle")

(***************************************************************************)
(* How many more requests the call under way can make: the pages of runs,  *)
(* the pages of jobs of each run they list, as often as they list it, and  *)
(* the other status; each request three times.  It holds however the lists *)
(* at GitHub grow meanwhile (client.go:189-210, 221-240, 301-318).         *)
(***************************************************************************)
PerPage == 1 + PageSize * MaxPages
PerStatus == MaxPages * PerPage
OtherStatus == IF step = 1 THEN PerStatus ELSE 0

Ahead ==
  CASE task = "runs" ->
         (MaxPages - page + 1) * PerPage + Len(batch) * MaxPages + OtherStatus
    [] task = "jobs" -> Len(batch) * MaxPages - (page - 1) + OtherStatus
    [] task = "idle" -> 0
    [] OTHER -> 1

RequestsLeft == (Retries + 1) * Ahead - attempt

RequestsBounded ==
  [][\/ task = "idle" /\ RequestsLeft' <= (Retries + 1) * 2 * PerStatus
     \/ RequestsLeft' \in Nat /\ RequestsLeft' < RequestsLeft
     \/ UNCHANGED <<callVars, step, page, batch>>]_vars

(* The same without the exception for shifted pages.                       *)
ListingExact == outcome = "complete" => steady \subseteq observed

=============================================================================
