------------------------- MODULE AuthorizationProofs -------------------------
(* Theorems about Authorization, for every configuration and any number of *)
(* changes at GitHub.                                                      *)
EXTENDS Authorization, TLAPS

(* Once listed, a job stays authorized as it was listed, which was queued  *)
(* in a run that had not ended.                                            *)
Listed ==
  /\ phase \in {"load", "list"} => run.live
  /\ phase \in {"recheck", "half"} =>
       /\ AuthorizeJob(repository, observed)
       /\ observed.job.status = "queued"
       /\ observed.run.live

(* Only a configuration that passed the validation is acted upon.          *)
Loaded == phase \notin {"load", "refused"} => Valid(repository)

IInv == TypeOK /\ Loaded /\ Listed /\ OfferAllowed /\ IgnoredRightly

-----------------------------------------------------------------------------
(* A policy that authorizes a job allows it, whatever its order: the first *)
(* workflow that matches is one that matches (policy.go:26-36).            *)
LEMMA AuthorizedAllowed ==
  ASSUME NEW config \in Configured, NEW meta \in [job : Job, run : Run],
         config.trusted # <<>>, AuthorizeJob(config, meta)
  PROVE  Allowed(config, meta)
<1>1. Complete(meta) /\ Authorizes(config.trusted, meta)
  BY DEF AuthorizeJob
<1>2. PICK i \in DOMAIN config.trusted :
        WorkflowMatches(config.trusted[i], meta) /\ SomeRuleMatches(config.trusted[i], meta)
  BY <1>1 DEF Authorizes
<1> DEFINE trusted == config.trusted[i]
<1>3. trusted.workflow = meta.run.workflow \/ trusted.path = meta.run.path
  BY <1>2 DEF WorkflowMatches
<1>4. PICK k \in DOMAIN trusted.rules : RuleMatches(trusted.rules[k], meta)
  BY <1>2 DEF SomeRuleMatches
<1> DEFINE rule == trusted.rules[k]
<1>5. meta.run.event \in rule.events /\ rule.labels \subseteq meta.job.labels
  BY <1>4 DEF RuleMatches, LabelsMatch
<1>6. \A a \in {meta.run.actor, meta.run.trigger} :
        a # None /\ (AnyActor \in rule.actors \/ a \in rule.actors)
  BY <1>1, <1>4 DEF RuleMatches, Complete
<1> QED
  BY <1>3, <1>5, <1>6 DEF Allowed

(* In a valid configuration, a job that the policy allows is authorized,   *)
(* as long as no other workflow listed matches it (policy.go:26-36).       *)
LEMMA AllowedAuthorized ==
  ASSUME NEW config \in Configured, NEW meta \in [job : Job, run : Run],
         Valid(config), Allowed(config, meta), ~Ambiguous(config, meta)
  PROVE  Complete(meta) /\ Authorizes(config.trusted, meta)
<1>1. config.trusted \in Seq(Trusted)
  BY ConfiguredAssumption
<1>2. PICK i \in DOMAIN config.trusted :
        /\ \/ config.trusted[i].workflow = meta.run.workflow
           \/ config.trusted[i].path = meta.run.path
        /\ \E k \in DOMAIN config.trusted[i].rules :
             LET rule == config.trusted[i].rules[k]
             IN  /\ meta.run.event \in rule.events
                 /\ rule.labels \subseteq meta.job.labels
                 /\ \A a \in {meta.run.actor, meta.run.trigger} :
                      a # None /\ (AnyActor \in rule.actors \/ a \in rule.actors)
  BY DEF Allowed
<1> DEFINE trusted == config.trusted[i]
<1>3. PICK k \in DOMAIN trusted.rules :
        /\ meta.run.event \in trusted.rules[k].events
        /\ trusted.rules[k].labels \subseteq meta.job.labels
        /\ \A a \in {meta.run.actor, meta.run.trigger} :
             a # None /\ (AnyActor \in trusted.rules[k].actors \/ a \in trusted.rules[k].actors)
  BY <1>2
<1>4. /\ (trusted.workflow > 0) # (trusted.path # None)
      /\ ValidRule(trusted.rules[k])
  BY <1>3 DEF Valid, ValidRules
<1>5. WorkflowMatches(trusted, meta)
  <2>1. meta.run.workflow \in Nat \ {0} /\ meta.run.path \in Path
    BY AuthorizationAssumption DEF Run
  <2>2. None \notin Path
    BY AuthorizationAssumption
  <2>3. CASE trusted.workflow = meta.run.workflow
    BY <2>1, <2>3 DEF WorkflowMatches
  <2>4. CASE trusted.path = meta.run.path
    BY <1>4, <2>1, <2>2, <2>4 DEF WorkflowMatches
  <2> QED BY <1>2, <2>3, <2>4
<1>6. ASSUME NEW n \in 1 .. i - 1 PROVE ~WorkflowMatches(config.trusted[n], meta)
  <2>1. n \in DOMAIN config.trusted /\ n # i
    BY <1>1
  <2> QED BY <1>5, <2>1 DEF Ambiguous
<1>7. SomeRuleMatches(trusted, meta)
  <2>1. RuleMatches(trusted.rules[k], meta)
    BY <1>3, <1>4 DEF RuleMatches, LabelsMatch, ValidRule
  <2> QED BY <1>3, <2>1 DEF SomeRuleMatches
<1>8. Complete(meta)
  BY <1>3 DEF Complete
<1> QED BY <1>5, <1>6, <1>7, <1>8 DEF Authorizes

(* Two runs that agree in what a policy looks at are allowed alike.        *)
LEMMA AllowedSameRun ==
  ASSUME NEW config, NEW first, NEW final, NEW j,
         config.trusted # <<>>, SameRun(config, first, final),
         Allowed(config, [job |-> j, run |-> final])
  PROVE  Allowed(config, [job |-> j, run |-> first])
BY DEF SameRun, Allowed

-----------------------------------------------------------------------------
LEMMA InitIInv == Init => IInv
BY AuthorizationAssumption
DEF Init, IInv, TypeOK, Loaded, Listed, OfferAllowed, IgnoredRightly, Job

(* GitHub changes nothing the participant has already read.                *)
LEMMA ChangedIInv ==
  ASSUME NEW newJob \in Job, NEW newRun \in Run, IInv, Changed(newJob, newRun)
  PROVE  IInv'
BY AuthorizationAssumption
DEF Changed, IInv, TypeOK, Loaded, Listed, OfferAllowed, IgnoredRightly

(* Whatever GitHub does to the job or its run is such a change.            *)
LEMMA EnvironmentChanges ==
  ASSUME TypeOK, Rerun \/ Finish \/ Rename \/ Replace \/ Relabel \/ Publish \/ Advance
  PROVE  \E newJob \in Job, newRun \in Run : Changed(newJob, newRun)
<1>1. CASE Rerun
  <2>1. PICK a \in Actor : Changed(job, [run EXCEPT !.trigger = a, !.live = TRUE])
    BY <1>1 DEF Rerun
  <2>2. [run EXCEPT !.trigger = a, !.live = TRUE] \in Run
    BY DEF TypeOK, Run
  <2> QED BY <2>1, <2>2 DEF TypeOK
<1>2. CASE Rename
  <2>1. PICK p \in Path : Changed(job, [run EXCEPT !.path = p])
    BY <1>2 DEF Rename
  <2>2. [run EXCEPT !.path = p] \in Run
    BY DEF TypeOK, Run
  <2> QED BY <2>1, <2>2 DEF TypeOK
<1>3. CASE Replace
  <2>1. PICK w \in Workflow : Changed(job, [run EXCEPT !.workflow = w])
    BY <1>3 DEF Replace
  <2>2. [run EXCEPT !.workflow = w] \in Run
    BY DEF TypeOK, Run
  <2> QED BY <2>1, <2>2 DEF TypeOK
<1>4. CASE Relabel
  <2>1. PICK L \in SUBSET Label : Changed([job EXCEPT !.labels = L], run)
    BY <1>4 DEF Relabel
  <2>2. [job EXCEPT !.labels = L] \in Job
    BY DEF TypeOK, Job
  <2> QED BY <2>1, <2>2 DEF TypeOK
<1>5. CASE Publish
  <2>1. [run EXCEPT !.private = ~@] \in Run
    BY DEF TypeOK, Run
  <2> QED BY <1>5, <2>1 DEF Publish, TypeOK
<1>6. CASE Advance
  <2>1. PICK s \in {"in_progress", "completed"} : Changed([job EXCEPT !.status = s], run)
    BY <1>6 DEF Advance
  <2>2. [job EXCEPT !.status = s] \in Job
    BY DEF TypeOK, Job
  <2> QED BY <2>1, <2>2 DEF TypeOK
<1>7. CASE Finish
  <2>1. [run EXCEPT !.live = FALSE] \in Run
    BY DEF TypeOK, Run
  <2> QED BY <1>7, <2>1 DEF Finish, TypeOK
<1> QED BY <1>1, <1>2, <1>3, <1>4, <1>5, <1>6, <1>7

(* The step that offers has just authorized the two readings together.     *)
LEMMA FetchRunIInv ==
  ASSUME IInv, FetchRun
  PROVE  IInv'
<1> DEFINE final == [job |-> fetched, run |-> run]
<1>1. TypeOK'
  BY DEF IInv, TypeOK, FetchRun
<1>2. Listed'
  BY DEF FetchRun, Listed
<1>3. OfferAllowed'
  <2> SUFFICES ASSUME phase' = "offered" PROVE OfferAllowed'
    BY DEF OfferAllowed
  <2>1. SameRun(repository, observed.run, run) /\ AuthorizeJob(repository, final)
    BY DEF FetchRun, Consistent
  <2>2. CASE repository.trusted = <<>>
    BY <2>1, <2>2 DEF AuthorizeJob, OfferAllowed, FetchRun
  <2>3. CASE repository.trusted # <<>>
    <3>1. final \in [job : Job, run : Run] /\ repository \in Configured
      BY DEF IInv, TypeOK
    <3>2. Allowed(repository, final)
      BY <2>1, <2>3, <3>1, AuthorizedAllowed
    <3>3. Allowed(repository, [job |-> fetched, run |-> observed.run])
      BY <2>1, <2>3, <3>2, AllowedSameRun
    <3> QED BY <2>3, <3>3 DEF OfferAllowed, FetchRun
  <2> QED BY <2>2, <2>3
<1>4. Loaded' /\ IgnoredRightly'
  BY DEF FetchRun, IInv, Loaded, IgnoredRightly
<1> QED BY <1>1, <1>2, <1>3, <1>4 DEF IInv

LEMMA NextIInv == IInv /\ [Next]_vars => IInv'
<1> SUFFICES ASSUME IInv, [Next]_vars PROVE IInv'
  OBVIOUS
<1>1. CASE Load
  BY <1>1 DEF Load, IInv, TypeOK, Loaded, Listed, OfferAllowed, IgnoredRightly
<1>2. CASE Observe
  <2>1. TypeOK'
    BY <1>2 DEF Observe, IInv, TypeOK
  <2>2. Listed'
    BY <1>2 DEF Observe, IInv, Listed
  <2>3. OfferAllowed'
    BY <1>2 DEF Observe, OfferAllowed
  <2>4. Loaded'
    BY <1>2 DEF Observe, IInv, Loaded
  <2>5. IgnoredRightly'
    <3> DEFINE meta == [job |-> job, run |-> run]
    <3> SUFFICES ASSUME phase' = "ignored", repository.trusted # <<>>,
                        ~Ambiguous(repository, meta), Allowed(repository, meta),
                        run.private = (repository.visibility = "private"),
                        job.status = "queued", job.labels \subseteq ParticipantLabels
                 PROVE  FALSE
      BY <1>2 DEF Observe, IgnoredRightly
    <3>1. repository \in Configured /\ meta \in [job : Job, run : Run]
      BY DEF IInv, TypeOK
    <3>2. Valid(repository)
      BY <1>2 DEF Observe, IInv, Loaded
    <3>3. AuthorizeJob(repository, meta)
      BY <3>1, <3>2, AllowedAuthorized DEF AuthorizeJob
    <3> QED BY <1>2, <3>3 DEF Observe, LabelsMatch
  <2> QED BY <2>1, <2>2, <2>3, <2>4, <2>5 DEF IInv
<1>3. CASE FetchJob
  BY <1>3 DEF FetchJob, IInv, TypeOK, Loaded, Listed, OfferAllowed, IgnoredRightly
<1>4. CASE FetchRun
  BY <1>4, FetchRunIInv
<1>5. CASE Rerun \/ Finish \/ Rename \/ Replace \/ Relabel \/ Publish \/ Advance
  BY <1>5, EnvironmentChanges, ChangedIInv DEF IInv
<1>6. CASE UNCHANGED vars
  BY <1>6 DEF vars, IInv, TypeOK, Loaded, Listed, OfferAllowed, IgnoredRightly
<1> QED BY <1>1, <1>2, <1>3, <1>4, <1>5, <1>6 DEF Next

LEMMA AlwaysIInv == Spec => []IInv
BY InitIInv, NextIInv, PTL DEF Spec

(* A runner is only registered for a job that the policy allows            *)
(* (policy.go:10-37, participant.go:142-165).                              *)
THEOREM OffersAllowed == Spec => []OfferAllowed
<1>1. IInv => OfferAllowed
  BY DEF IInv
<1> QED BY <1>1, AlwaysIInv, PTL

(* A job is only ignored when the policy does not allow it, or when two    *)
(* workflows of the policy are the job's (policy.go:26-36).                *)
THEOREM IgnoredOnlyRightly == Spec => []IgnoredRightly
<1>1. IInv => IgnoredRightly
  BY DEF IInv
<1> QED BY <1>1, AlwaysIInv, PTL

(* Whatever changed between listing and recheck denies the job             *)
(* (participant.go:144-165 and 213-227).                                   *)
THEOREM OffersUnchanged == Spec => OfferUnchanged
<1> DEFINE Step == phase # "offered" /\ phase' = "offered" =>
                     /\ fetched = observed.job
                     /\ run.private = (repository.visibility = "private")
                     /\ run.live
                     /\ repository.trusted # <<>> => run = observed.run
<1>1. ASSUME IInv, Next PROVE Step
  <2> SUFFICES ASSUME phase # "offered", phase' = "offered" PROVE Step
    OBVIOUS
  <2>1. FetchRun
    BY <1>1 DEF Next, Load, Observe, FetchJob, Rerun, Finish, Rename, Replace, Relabel,
                Publish, Advance, Changed
  <2>2. Consistent(repository, observed, [job |-> fetched, run |-> run])
    BY <2>1 DEF FetchRun
  <2>3. /\ AuthorizeJob(repository, observed)
        /\ observed.job.status = "queued"
        /\ observed.run.live
    BY <1>1, <2>1 DEF IInv, Listed, FetchRun
  <2>4. fetched.status = "queued" /\ fetched.labels = observed.job.labels
    BY <2>2 DEF Consistent
  <2>5. fetched = observed.job
    BY <1>1, <2>3, <2>4 DEF IInv, TypeOK, Job
  <2>6. run.private = (repository.visibility = "private") /\ run.live
    BY <2>2 DEF Consistent
  <2>7. ASSUME repository.trusted # <<>> PROVE run = observed.run
    <3>1. observed.run.private = run.private
      BY <2>3, <2>6, <2>7 DEF AuthorizeJob
    <3>2. SameRun(repository, observed.run, run)
      BY <2>2 DEF Consistent
    <3>3. run \in Run /\ observed.run \in Run
      BY <1>1 DEF IInv, TypeOK
    <3>4. observed.run.live = run.live
      BY <2>3, <2>6, <3>3 DEF Run
    <3> QED BY <2>7, <3>1, <3>2, <3>3, <3>4 DEF SameRun, Run
  <2> QED BY <2>5, <2>6, <2>7
<1>2. IInv /\ [Next]_vars => [Step]_vars
  BY <1>1
<1> QED BY <1>2, AlwaysIInv, PTL DEF Spec, OfferUnchanged

=============================================================================
