---------------------------- MODULE ClaimTracker ----------------------------
(***************************************************************************)
(* The claim tracker of one participant (internal/participant/claim.go):   *)
(* a bounded memory of when each queued job was first and last seen, from  *)
(* which PollOnce decides whose claim delay is over.                       *)
(*                                                                         *)
(* One action is one successful poll: observe and eligibleClaims run       *)
(* without a pause between them.  A poll that fails leaves the tracker     *)
(* alone and shows only as a longer gap to the next one.                   *)
(***************************************************************************)
EXTENDS Integers, FiniteSets

CONSTANTS
  Job,         \* the job keys, repository and job ID
  MaxEntries,  \* how many observations the tracker keeps
  StaleAfter,  \* how long a job may go unseen
  ClaimDelay,  \* cfg.ClaimDelay
  MaxGap,      \* bound: the longest time between two polls
  Horizon      \* bound: the last time of a poll

ASSUME TrackerAssumption ==
  /\ IsFiniteSet(Job)
  /\ MaxEntries \in Nat
  /\ StaleAfter \in Nat
  /\ ClaimDelay \in Nat
  /\ MaxGap \in Nat
  /\ Horizon \in Nat

VARIABLES
  now,       \* the time of the last poll
  entries,   \* claimTracker.entries: first and last sighting of some jobs
  queued,    \* the matching queued jobs that the last poll saw
  eligible,  \* the result of eligibleClaims
  \* History of this incarnation, for the properties.
  sighted,   \* when each job was last seen by a poll, 0 for never
  streak,    \* when it was first seen with no later gap beyond StaleAfter
  steady,    \* when it was first seen with no poll missing it since
  overflow   \* a poll has seen more jobs than MaxEntries

vars == <<now, entries, queued, eligible, sighted, streak, steady, overflow>>

Entry == [first : Nat, last : Nat]
Tracked == DOMAIN entries

TypeOK ==
  /\ now \in Nat \ {0}
  /\ Tracked \subseteq Job
  /\ entries \in [Tracked -> Entry]
  /\ queued \subseteq Job
  /\ eligible \subseteq queued
  /\ sighted \in [Job -> Nat]
  /\ streak \in [Job -> Nat]
  /\ steady \in [Job -> Nat]
  /\ overflow \in BOOLEAN

Forgotten ==
  /\ entries' = [j \in {} |-> [first |-> 0, last |-> 0]]
  /\ queued' = {}
  /\ eligible' = {}
  /\ sighted' = [j \in Job |-> 0]
  /\ streak' = [j \in Job |-> 0]
  /\ steady' = [j \in Job |-> 0]
  /\ overflow' = FALSE

Init ==
  /\ now = 1
  /\ entries = [j \in {} |-> [first |-> 0, last |-> 0]]
  /\ queued = {}
  /\ eligible = {}
  /\ sighted = [j \in Job |-> 0]
  /\ streak = [j \in Job |-> 0]
  /\ steady = [j \in Job |-> 0]
  /\ overflow = FALSE

\* The entries that are not deleted as stale at time t.
KeptForever(t) == Tracked
KeptAtDeadline(t) == {j \in Tracked : t - entries[j].last < StaleAfter}
Kept(t) == {j \in Tracked : t - entries[j].last <= StaleAfter}

\* FirstSeenAt of a job seen at time t.
FirstSeenLast(t, j) == IF j \in Kept(t) THEN entries[j].last ELSE t
FirstSeen(t, j) == IF j \in Kept(t) THEN entries[j].first ELSE t

\* The entries after the loop over the jobs.
Merged(t, jobs) ==
  [j \in Kept(t) \cup jobs |->
     IF j \in jobs THEN [first |-> FirstSeen(t, j), last |-> t] ELSE entries[j]]

\* What deleting the entry seen longest ago, one at a time, may leave: the
\* map is walked in any order, so among equals any entry may go.
TrimsAny(m) ==
  {K \in SUBSET DOMAIN m :
     IF Cardinality(DOMAIN m) <= MaxEntries
       THEN K = DOMAIN m
       ELSE Cardinality(K) = MaxEntries}
TrimsLate(m) ==
  {K \in SUBSET DOMAIN m :
     IF Cardinality(DOMAIN m) <= MaxEntries + 1
       THEN K = DOMAIN m
       ELSE /\ Cardinality(K) = MaxEntries + 1
            /\ \A k \in K, j \in DOMAIN m \ K : m[j].last <= m[k].last}
Trims(m) ==
  {K \in SUBSET DOMAIN m :
     IF Cardinality(DOMAIN m) <= MaxEntries
       THEN K = DOMAIN m
       ELSE /\ Cardinality(K) = MaxEntries
            /\ \A k \in K, j \in DOMAIN m \ K : m[j].last <= m[k].last}

Ripe(t, jobs) == {j \in jobs : t >= FirstSeen(t, j) + ClaimDelay}

Poll(gap, jobs) ==
  LET t == now + gap
      m == Merged(t, jobs)
  IN  /\ t <= Horizon
      /\ now' = t
      /\ \E K \in Trims(m) : entries' = [j \in K |-> m[j]]
      /\ queued' = jobs
      /\ eligible' = Ripe(t, jobs)
      /\ sighted' = [j \in Job |-> IF j \in jobs THEN t ELSE sighted[j]]
      /\ streak' = [j \in Job |->
                      IF j \in jobs /\ (sighted[j] = 0 \/ t - sighted[j] > StaleAfter)
                        THEN t ELSE streak[j]]
      /\ steady' = [j \in Job |->
                      IF j \in jobs /\ (j \notin queued \/ gap > StaleAfter)
                        THEN t ELSE steady[j]]
      /\ overflow' = (overflow \/ Cardinality(jobs) > MaxEntries)

\* The participant is started again with an empty tracker.
Restart == Forgotten /\ UNCHANGED now

Next == \/ \E gap \in 1 .. MaxGap, jobs \in SUBSET Job : Poll(gap, jobs)
        \/ Restart

Spec == Init /\ [][Next]_vars

-----------------------------------------------------------------------------
(* The memory is bounded, however many jobs are queued (claim.go:42-51).   *)
Bounded == Cardinality(Tracked) <= MaxEntries

(* No job is offered before this incarnation has known it for the claim    *)
(* delay, without losing sight of it for longer than StaleAfter: whatever  *)
(* was trimmed, forgotten or seen again, an eligible job has served its    *)
(* whole delay in its present streak (claim.go:24-41 and 55-61).           *)
DelayServed == \A j \in eligible : now >= streak[j] + ClaimDelay

(* A job in view at every poll for the whole delay is eligible, even when  *)
(* the memory is full of other jobs: trimming takes those out of view      *)
(* first (claim.go:46).  Polls that saw more jobs than the memory holds    *)
(* void the promise.                                                       *)
SteadyEligible ==
  ~overflow => \A j \in queued :
                 now >= steady[j] + ClaimDelay => j \in eligible

(* A job once eligible stays so while it is in view and the polls are not  *)
(* too far apart: no offer is taken back by the memory of the tracker.     *)
EligibleStays ==
  [][~overflow' /\ now' - now <= StaleAfter
       => eligible \cap queued' \subseteq eligible']_vars

-----------------------------------------------------------------------------
(* The inductive invariant.                                                *)

\* An entry is never older than the streak of its job, nor newer than now.
EntriesInStreak ==
  \A j \in Tracked : /\ entries[j].last = sighted[j]
                     /\ 0 < sighted[j]
                     /\ sighted[j] <= now
                     /\ streak[j] <= entries[j].first
                     /\ entries[j].first <= now

HistoryPast == \A j \in Job : streak[j] <= now /\ steady[j] <= now

\* Without overflow a job in view is remembered from the start of its view.
ViewRemembered ==
  ~overflow => \A j \in queued : /\ j \in Tracked
                                 /\ entries[j].first <= steady[j]
                                 /\ entries[j].last = now

EligibleAged == \A j \in eligible \cap Tracked :
                  now >= entries[j].first + ClaimDelay

TrackerInv == /\ TypeOK /\ Bounded /\ EntriesInStreak /\ HistoryPast
        /\ ViewRemembered /\ EligibleAged /\ DelayServed /\ SteadyEligible

=============================================================================
