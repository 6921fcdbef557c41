---------------------------- MODULE Authorization ----------------------------
(***************************************************************************)
(* Which queued jobs a participant may serve (internal/participant/        *)
(* policy.go and participant.go, internal/config/config.go): the trusted   *)
(* workflows of one repository are validated when the configuration is     *)
(* loaded, a job is authorized when it is listed, and, since its run can   *)
(* be started again, renamed or relabelled meanwhile, once more from a     *)
(* second reading of the job and of its run before a runner is registered. *)
(*                                                                         *)
(* Values that the code compares without regard to case are one value      *)
(* here, lists the validation keeps free of duplicates are sets.           *)
(***************************************************************************)
EXTENDS Integers, Sequences, SequencesExt

CONSTANTS
  Workflow,           \* workflow IDs, positive
  Path,               \* workflow paths without a ref
  Event, Actor, Label,
  ParticipantLabels,  \* cfg.Labels
  Configured,         \* the repositories a configuration may hold
  MaxChanges          \* bound: what may change at GitHub meanwhile

None == ""  \* metadata GitHub does not return
AnyActor == "*"

ASSUME AuthorizationAssumption ==
  /\ Workflow \subseteq Nat \ {0}
  /\ None \notin Path \cup Event \cup Actor
  /\ AnyActor \notin Actor
  /\ ParticipantLabels \subseteq Label
  /\ MaxChanges \in Nat

Rule == [events : SUBSET Event, actors : SUBSET (Actor \cup {AnyActor}),
         labels : SUBSET Label]

\* Exactly one of workflow and path is set; 0 and None stand for unset.
Trusted == [workflow : Workflow \cup {0}, path : Path \cup {None}, rules : Seq(Rule)]

Visibility == {"private", "public"}

ASSUME ConfiguredAssumption ==
  Configured \subseteq [visibility : Visibility, trusted : Seq(Trusted)]

Job == [status : {"queued", "in_progress", "completed"}, labels : SUBSET Label]
Run == [workflow : Workflow, path : Path, ref : BOOLEAN, event : Event,
        actor : Actor \cup {None}, trigger : Actor \cup {None}, private : BOOLEAN,
        live : BOOLEAN]  \* queued or in progress

VARIABLES
  repository,  \* its configuration
  job,         \* the job at GitHub
  run,         \* its workflow run at GitHub
  phase,       \* where the participant is with the job
  observed,    \* the job as it was listed, with its run
  fetched,     \* the job as GetJob returned it
  changes

vars == <<repository, job, run, phase, observed, fetched, changes>>

TypeOK ==
  /\ repository \in Configured
  /\ job \in Job
  /\ run \in Run
  /\ phase \in {"load", "refused", "list", "ignored", "recheck", "half", "denied",
                "offered"}
  /\ observed \in [job : Job, run : Run]
  /\ fetched \in Job
  /\ changes \in 0 .. MaxChanges

-----------------------------------------------------------------------------
(* Configuration: validateRepositories, validateTrustedWorkflows and       *)
(* validateRules.                                                          *)

ValidRule(rule) ==
  /\ rule.events # {} /\ rule.actors # {} /\ rule.labels # {}
  /\ AnyActor \in rule.actors => rule.actors = {AnyActor}
  /\ rule.labels \subseteq ParticipantLabels

ValidRules(rules) ==
  /\ rules # <<>>
  /\ IsInjective(rules)
  /\ \A i \in DOMAIN rules : ValidRule(rules[i])

Identity(trusted) == <<trusted.workflow, trusted.path>>

Valid(config) ==
  /\ config.visibility = "public" => config.trusted # <<>>
  /\ IsInjective([i \in DOMAIN config.trusted |-> Identity(config.trusted[i])])
  /\ \A i \in DOMAIN config.trusted :
       LET trusted == config.trusted[i]
       IN  /\ (trusted.workflow > 0) # (trusted.path # None)
           /\ ValidRules(trusted.rules)

-----------------------------------------------------------------------------
(* Authorization: authorizeJob of a job and its run, together. *)

Complete(meta) == meta.run.actor # None /\ meta.run.trigger # None

WorkflowMatches(trusted, meta) ==
  IF trusted.workflow > 0 THEN trusted.workflow = meta.run.workflow
                          ELSE trusted.path = meta.run.path

LabelsMatch(required, available) == required \subseteq available

\* The actor of the run only, whoever started it again.
RuleMatchesActor(rule, meta) ==
  /\ meta.run.event \in rule.events
  /\ LabelsMatch(rule.labels, meta.job.labels)
  /\ AnyActor \in rule.actors \/ meta.run.actor \in rule.actors

RuleMatches(rule, meta) ==
  /\ meta.run.event \in rule.events
  /\ LabelsMatch(rule.labels, meta.job.labels)
  /\ \/ rule.actors = {AnyActor}
     \/ {meta.run.actor, meta.run.trigger} \subseteq rule.actors

FirstRuleMatches(trusted, meta) == RuleMatches(Head(trusted.rules), meta)
SomeRuleMatches(trusted, meta) ==
  \E i \in DOMAIN trusted.rules : RuleMatches(trusted.rules[i], meta)

\* The first workflow that matches decides, with any of its rules.
Authorizes(trusted, meta) ==
  \E i \in DOMAIN trusted :
    /\ WorkflowMatches(trusted[i], meta)
    /\ \A k \in 1 .. i - 1 : ~WorkflowMatches(trusted[k], meta)
    /\ SomeRuleMatches(trusted[i], meta)

AuthorizeJob(config, meta) ==
  IF config.trusted = <<>>
    THEN config.visibility = "private"
    ELSE /\ Complete(meta)
         /\ meta.run.private = (config.visibility = "private")
         /\ Authorizes(config.trusted, meta)

\* finalMetadataConsistent, of the two readings.
SameRunButRerun(config, first, final) ==
  config.trusted # <<>> =>
    /\ final.workflow = first.workflow
    /\ <<final.path, final.ref>> = <<first.path, first.ref>>
    /\ final.event = first.event
    /\ final.actor = first.actor

SameRun(config, first, final) ==
  config.trusted # <<>> =>
    /\ final.workflow = first.workflow
    /\ <<final.path, final.ref>> = <<first.path, first.ref>>
    /\ final.event = first.event
    /\ <<final.actor, final.trigger>> = <<first.actor, first.trigger>>

Consistent(config, first, final) ==
  /\ final.job.status = "queued"
  /\ final.run.live
  /\ final.run.private = (config.visibility = "private")
  /\ final.job.labels = first.job.labels
  /\ SameRun(config, first.run, final.run)

-----------------------------------------------------------------------------
Init ==
  /\ repository \in Configured
  /\ job \in [status : {"queued"}, labels : SUBSET Label]
  /\ run \in {r \in Run : r.live}  \* only those are listed
  /\ phase = "load"
  /\ observed = [job |-> job, run |-> run]
  /\ fetched = job
  /\ changes = 0

\* GitHub.  A run that is started again has another triggering actor; a
\* workflow is renamed or replaced; a run ends; labels, visibility and the
\* status of the job change.
\* (What changed before the listing is in the choice of the initial state.)
Changed(newJob, newRun) ==
  /\ phase \in {"recheck", "half"}
  /\ changes < MaxChanges
  /\ changes' = changes + 1
  /\ job' = newJob
  /\ run' = newRun
  /\ UNCHANGED <<repository, phase, observed, fetched>>

Rerun == \E a \in Actor : Changed(job, [run EXCEPT !.trigger = a, !.live = TRUE])
Finish == run.live /\ Changed(job, [run EXCEPT !.live = FALSE])
Rename == \E p \in Path : Changed(job, [run EXCEPT !.path = p])
Replace == \E w \in Workflow : Changed(job, [run EXCEPT !.workflow = w])
Relabel == \E L \in SUBSET Label : Changed([job EXCEPT !.labels = L], run)
Publish == Changed(job, [run EXCEPT !.private = ~@])
Advance == \E s \in {"in_progress", "completed"} :
             Changed([job EXCEPT !.status = s], run)

Load ==
  /\ phase = "load"
  /\ phase' = IF Valid(repository) THEN "list" ELSE "refused"
  /\ UNCHANGED <<repository, job, run, observed, fetched, changes>>

\* Service.observe and matchingQueuedJobs.
Observe ==
  /\ phase = "list"
  /\ observed' = [job |-> job, run |-> run]
  /\ phase' = IF /\ AuthorizeJob(repository, observed')
                 /\ job.status = "queued"
                 /\ LabelsMatch(job.labels, ParticipantLabels)
                THEN "recheck" ELSE "ignored"
  /\ UNCHANGED <<repository, job, run, fetched, changes>>

FetchJob ==
  /\ phase = "recheck"
  /\ fetched' = job
  /\ phase' = "half"
  /\ UNCHANGED <<repository, job, run, observed, changes>>

\* GetWorkflowRun, and what offer decides from both.
FetchRun ==
  LET final == [job |-> fetched, run |-> run]
  IN  /\ phase = "half"
      /\ phase' = IF /\ Consistent(repository, observed, final)
                     /\ LabelsMatch(fetched.labels, ParticipantLabels)
                     /\ AuthorizeJob(repository, final)
                    THEN "offered" ELSE "denied"
      /\ UNCHANGED <<repository, job, run, observed, fetched, changes>>

Next == \/ Load \/ Observe \/ FetchJob \/ FetchRun
        \/ Rerun \/ Finish \/ Rename \/ Replace \/ Relabel \/ Publish \/ Advance

Spec == Init /\ [][Next]_vars

-----------------------------------------------------------------------------
(* Safety. *)

(* What a policy says, without an order: some rule of some workflow that   *)
(* is the job's allows the event, the labels, who started the run and who  *)
(* started it again.                                                       *)
Allowed(config, meta) ==
  \E i \in DOMAIN config.trusted :
    LET trusted == config.trusted[i]
    IN  /\ trusted.workflow = meta.run.workflow \/ trusted.path = meta.run.path
        /\ \E k \in DOMAIN trusted.rules :
             LET rule == trusted.rules[k]
             IN  /\ meta.run.event \in rule.events
                 /\ rule.labels \subseteq meta.job.labels
                 /\ \A a \in {meta.run.actor, meta.run.trigger} :
                      a # None /\ (AnyActor \in rule.actors \/ a \in rule.actors)

\* Two entries that are the same workflow for this job.
Ambiguous(config, meta) ==
  \E i, k \in DOMAIN config.trusted :
    i # k /\ WorkflowMatches(config.trusted[i], meta)
          /\ WorkflowMatches(config.trusted[k], meta)

(* A runner is registered for a job of a repository with trusted workflows *)
(* only if the run GitHub last reported, with the labels the job had when  *)
(* it was read before, is allowed by the policy; and for any other only in *)
(* a repository that is private (policy.go:10-37, participant.go:142-165). *)
OfferAllowed ==
  phase = "offered" =>
    IF repository.trusted = <<>>
      THEN repository.visibility = "private"
      ELSE Allowed(repository, [job |-> fetched, run |-> observed.run])

(* Jobs are not lost either: as long as at most one trusted workflow is    *)
(* the job's, one that is ignored at its listing is not allowed by the     *)
(* policy, does not fit the repository as configured, or has labels the    *)
(* participant lacks (policy.go:26-36).                                    *)
IgnoredRightly ==
  phase = "ignored" /\ repository.trusted # <<>> /\ ~Ambiguous(repository, observed) =>
    \/ ~Allowed(repository, observed)
    \/ observed.run.private # (repository.visibility = "private")
    \/ observed.job.status # "queued"
    \/ ~(observed.job.labels \subseteq ParticipantLabels)

(* What is different between listing and recheck denies the job, whichever *)
(* of the two readings shows it (participant.go:144-165, 213-227): the     *)
(* step that offers sees the run that was listed, and the job it goes with *)
(* was queued under the labels that were listed, in a run that had not     *)
(* ended.                                                                  *)
OfferUnchanged ==
  [][phase # "offered" /\ phase' = "offered" =>
       /\ fetched = observed.job
       /\ run.private = (repository.visibility = "private")
       /\ run.live
       /\ repository.trusted # <<>> => run = observed.run]_vars

(* A policy means the same in whatever order its workflows are listed.     *)
OrderIrrelevant ==
  phase \in {"ignored", "recheck"} =>
    (AuthorizeJob(repository, observed)
       <=> AuthorizeJob([repository EXCEPT !.trusted = Reverse(@)], observed))

=============================================================================
