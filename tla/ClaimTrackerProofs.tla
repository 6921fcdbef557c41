------------------------- MODULE ClaimTrackerProofs -------------------------
(***************************************************************************)
(* Proofs about ClaimTracker, for any set of jobs, any size of the memory  *)
(* and any delays.                                                         *)
(***************************************************************************)
EXTENDS ClaimTracker, FiniteSetTheorems, TLAPS

(* Every set of jobs is finite.                                            *)
LEMMA FiniteJobs ==
  ASSUME NEW S \in SUBSET Job
  PROVE  IsFiniteSet(S) /\ Cardinality(S) \in Nat
  BY TrackerAssumption, FS_Subset, FS_CardinalityType

(* Trimming leaves at most MaxEntries jobs.                                *)
LEMMA TrimBounds ==
  ASSUME NEW m, DOMAIN m \in SUBSET Job, NEW K \in Trims(m)
  PROVE  K \in SUBSET DOMAIN m /\ Cardinality(K) <= MaxEntries
<1>1. MaxEntries \in Nat /\ Cardinality(DOMAIN m) \in Nat
  BY TrackerAssumption, FiniteJobs
<1>2. CASE Cardinality(DOMAIN m) <= MaxEntries
  BY <1>2 DEF Trims
<1>3. CASE ~(Cardinality(DOMAIN m) <= MaxEntries)
  BY <1>1, <1>3 DEF Trims
<1> QED BY <1>2, <1>3

(* Trimming takes no job in view while one out of view is left: jobs that  *)
(* fit into the memory and were seen last of all stay.                     *)
LEMMA TrimSparesView ==
  ASSUME NEW m, DOMAIN m \in SUBSET Job, NEW K \in Trims(m), NEW t \in Nat,
         NEW jobs \in SUBSET DOMAIN m,
         Cardinality(jobs) <= MaxEntries,
         \A j \in DOMAIN m : m[j].last \in Nat,
         \A j \in jobs : m[j].last = t,
         \A j \in DOMAIN m \ jobs : m[j].last < t
  PROVE  jobs \subseteq K
<1> SUFFICES ASSUME NEW j \in jobs, j \notin K
             PROVE  FALSE
  OBVIOUS
<1>1. /\ K \in SUBSET DOMAIN m
      /\ Cardinality(K) = MaxEntries
      /\ \A k \in K : m[j].last <= m[k].last
  BY DEF Trims
<1>2. K \subseteq jobs \ {j}
  BY <1>1
<1>3. IsFiniteSet(jobs) /\ Cardinality(jobs) \in Nat
  BY FiniteJobs
<1>4. Cardinality(jobs \ {j}) = Cardinality(jobs) - 1
  BY <1>3, FS_RemoveElement
<1>5. IsFiniteSet(jobs \ {j}) /\ Cardinality(jobs \ {j}) \in Nat
  BY <1>3, FiniteJobs
<1>6. Cardinality(K) <= Cardinality(jobs \ {j})
  BY <1>2, <1>5, FS_Subset
<1> QED BY <1>1, <1>3, <1>4, <1>6, TrackerAssumption

-----------------------------------------------------------------------------
(* One poll. *)

(* What a poll at time t remembers of each job.                            *)
LEMMA MergedEntries ==
  ASSUME TrackerInv, NEW t \in Nat, t > now, NEW jobs \in SUBSET Job
  PROVE  /\ DOMAIN Merged(t, jobs) \in SUBSET Job
         /\ jobs \in SUBSET DOMAIN Merged(t, jobs)
         /\ \A j \in jobs : /\ FirstSeen(t, j) \in Nat
                            /\ FirstSeen(t, j) <= t
                            /\ Merged(t, jobs)[j].first = FirstSeen(t, j)
                            /\ Merged(t, jobs)[j].last = t
                            /\ Merged(t, jobs)[j] \in Entry
         /\ \A j \in DOMAIN Merged(t, jobs) \ jobs :
               j \in Kept(t) /\ Merged(t, jobs)[j] = entries[j]
         /\ \A j \in Kept(t) : /\ j \in Tracked
                               /\ entries[j] \in Entry
                               /\ t - entries[j].last <= StaleAfter
<1>1. /\ Tracked \subseteq Job
      /\ entries \in [Tracked -> Entry]
      /\ now \in Nat
  BY DEF TrackerInv, TypeOK
<1>2. \A j \in Kept(t) : /\ j \in Tracked
                         /\ entries[j] \in Entry
                         /\ entries[j].first \in Nat
                         /\ entries[j].first <= now
                         /\ t - entries[j].last <= StaleAfter
  BY <1>1 DEF Kept, TrackerInv, EntriesInStreak, Entry
<1>3. Kept(t) \subseteq Job
  BY <1>1 DEF Kept
<1>4. \A j \in jobs : FirstSeen(t, j) \in Nat /\ FirstSeen(t, j) <= t
  BY <1>1, <1>2 DEF FirstSeen
<1>5. DOMAIN Merged(t, jobs) = Kept(t) \cup jobs
  BY DEF Merged
<1>6. \A j \in jobs : Merged(t, jobs)[j] = [first |-> FirstSeen(t, j), last |-> t]
  BY DEF Merged
<1>7. \A j \in DOMAIN Merged(t, jobs) \ jobs :
         j \in Kept(t) /\ Merged(t, jobs)[j] = entries[j]
  BY DEF Merged
<1> QED BY <1>2, <1>3, <1>4, <1>5, <1>6, <1>7 DEF Entry

(* A poll counts the delay from within the present streak of a job, and    *)
(* from no later than the start of its steady view.                        *)
LEMMA FirstSeenBounds ==
  ASSUME TrackerInv, NEW gap \in 1 .. MaxGap, NEW jobs \in SUBSET Job,
         Poll(gap, jobs), NEW j \in jobs
  PROVE  /\ streak'[j] <= FirstSeen(now + gap, j)
         /\ ~overflow => FirstSeen(now + gap, j) <= steady'[j]
<1> DEFINE t == now + gap
<1>1. /\ now \in Nat /\ gap \in Nat /\ t \in Nat /\ t > now /\ j \in Job
      /\ streak[j] \in Nat /\ steady[j] \in Nat /\ sighted[j] \in Nat
      /\ streak[j] <= now /\ steady[j] <= now
      /\ entries \in [Tracked -> Entry] /\ StaleAfter \in Nat
  BY TrackerAssumption DEF TrackerInv, TypeOK, HistoryPast
<1>2. streak'[j] = IF sighted[j] = 0 \/ t - sighted[j] > StaleAfter
                     THEN t ELSE streak[j]
  BY <1>1 DEF Poll
<1>3. steady'[j] = IF j \notin queued \/ gap > StaleAfter THEN t ELSE steady[j]
  BY <1>1 DEF Poll
<1>4. FirstSeen(t, j) <= t
  BY <1>1, MergedEntries
<1>5. CASE j \in Kept(t)
  <2>1. FirstSeen(t, j) = entries[j].first
    BY <1>5 DEF FirstSeen
  <2>2. /\ j \in Tracked
        /\ t - entries[j].last <= StaleAfter
        /\ entries[j].last = sighted[j]
        /\ 0 < sighted[j]
        /\ streak[j] <= entries[j].first
    BY <1>5 DEF Kept, TrackerInv, EntriesInStreak
  <2>3. streak'[j] = streak[j]
    BY <1>1, <1>2, <2>2
  <2>4. ~overflow => FirstSeen(t, j) <= steady'[j]
    <3>1. CASE j \notin queued \/ gap > StaleAfter
      BY <1>3, <1>4, <3>1
    <3>2. CASE j \in queued /\ ~(gap > StaleAfter)
      BY <1>3, <2>1, <3>2 DEF TrackerInv, ViewRemembered
    <3> QED BY <3>1, <3>2
  <2> QED BY <2>1, <2>2, <2>3, <2>4
<1>6. CASE j \notin Kept(t)
  <2>1. FirstSeen(t, j) = t
    BY <1>6 DEF FirstSeen
  <2>2. streak'[j] <= t
    BY <1>1, <1>2
  <2>3. ASSUME ~overflow
        PROVE  j \notin queued \/ gap > StaleAfter
    <3> SUFFICES ASSUME j \in queued, ~(gap > StaleAfter)
                 PROVE  FALSE
      OBVIOUS
    <3>1. j \in Tracked /\ entries[j].last = now
      BY <2>3 DEF TrackerInv, ViewRemembered
    <3>2. t - entries[j].last <= StaleAfter
      BY <1>1, <3>1
    <3> QED BY <1>6, <3>1, <3>2 DEF Kept
  <2> QED BY <1>1, <1>3, <2>1, <2>2, <2>3
<1> QED BY <1>5, <1>6

LEMMA PollStep ==
  ASSUME TrackerInv, NEW gap \in 1 .. MaxGap, NEW jobs \in SUBSET Job, Poll(gap, jobs)
  PROVE  TrackerInv'
<1> DEFINE t == now + gap
           m == Merged(t, jobs)
<1>1. /\ now \in Nat /\ gap \in Nat /\ gap > 0 /\ t \in Nat /\ t > now
      /\ StaleAfter \in Nat /\ ClaimDelay \in Nat /\ MaxEntries \in Nat
  BY TrackerAssumption DEF TrackerInv, TypeOK
<1>2. PICK K \in Trims(m) : entries' = [j \in K |-> m[j]]
  BY DEF Poll
<1>3. /\ now' = t /\ queued' = jobs /\ eligible' = Ripe(t, jobs)
      /\ overflow' = (overflow \/ Cardinality(jobs) > MaxEntries)
  BY DEF Poll
<1>4. K \in SUBSET DOMAIN m /\ Cardinality(K) <= MaxEntries
  BY <1>1, MergedEntries, TrimBounds
<1>5. Tracked' = K /\ \A j \in K : entries'[j] = m[j]
  BY <1>2 DEF Tracked
<1>6. /\ sighted' = [j \in Job |-> IF j \in jobs THEN t ELSE sighted[j]]
      /\ streak' = [j \in Job |->
                      IF j \in jobs /\ (sighted[j] = 0 \/ t - sighted[j] > StaleAfter)
                        THEN t ELSE streak[j]]
      /\ steady' = [j \in Job |->
                      IF j \in jobs /\ (j \notin queued \/ gap > StaleAfter)
                        THEN t ELSE steady[j]]
  BY DEF Poll
<1>7. \A j \in DOMAIN m : m[j] \in Entry
  BY <1>1, MergedEntries
<1>8. DOMAIN m \in SUBSET Job
  BY <1>1, MergedEntries
<1>9. TypeOK'
  <2>1. entries' \in [K -> Entry]
    BY <1>2, <1>4, <1>7
  <2>2. K \subseteq Job
    BY <1>4, <1>8
  <2>3. eligible' \subseteq queued'
    BY <1>3 DEF Ripe
  <2>4. sighted' \in [Job -> Nat] /\ streak' \in [Job -> Nat] /\ steady' \in [Job -> Nat]
    BY <1>1, <1>6 DEF TrackerInv, TypeOK
  <2>5. overflow' \in BOOLEAN
    BY <1>3 DEF TrackerInv, TypeOK
  <2> QED BY <1>1, <1>3, <1>5, <2>1, <2>2, <2>3, <2>4, <2>5 DEF TypeOK
<1>10. Bounded'
  BY <1>4, <1>5 DEF Bounded
<1>11. EntriesInStreak'
  <2> SUFFICES ASSUME NEW j \in K
               PROVE  /\ entries'[j].last = sighted'[j]
                      /\ 0 < sighted'[j]
                      /\ sighted'[j] <= t
                      /\ streak'[j] <= entries'[j].first
                      /\ entries'[j].first <= t
    BY <1>3, <1>5 DEF EntriesInStreak
  <2>1. j \in Job /\ entries'[j] = m[j]
    BY <1>4, <1>5, <1>8
  <2>2. CASE j \in jobs
    <3>1. m[j].first = FirstSeen(t, j) /\ m[j].last = t /\ FirstSeen(t, j) <= t
      BY <1>1, <2>2, MergedEntries
    <3>2. streak'[j] <= FirstSeen(t, j)
      BY <2>2, FirstSeenBounds
    <3>3. sighted'[j] = t
      BY <1>6, <2>1, <2>2
    <3> QED BY <1>1, <2>1, <3>1, <3>2, <3>3
  <2>3. CASE j \notin jobs
    <3>1. j \in Tracked /\ m[j] = entries[j]
      BY <1>1, <1>4, <2>3, MergedEntries
    <3>2. sighted'[j] = sighted[j] /\ streak'[j] = streak[j]
      BY <1>6, <2>1, <2>3
    <3>3. /\ entries[j].last = sighted[j]
          /\ 0 < sighted[j]
          /\ sighted[j] <= now
          /\ streak[j] <= entries[j].first
          /\ entries[j].first <= now
      BY <3>1 DEF TrackerInv, EntriesInStreak
    <3>4. sighted[j] \in Nat /\ entries[j].first \in Nat
      BY <2>1, <3>1 DEF TrackerInv, TypeOK, Entry
    <3> QED BY <1>1, <2>1, <3>1, <3>2, <3>3, <3>4
  <2> QED BY <2>2, <2>3
<1>12. HistoryPast'
  <2> SUFFICES ASSUME NEW j \in Job
               PROVE  streak'[j] <= t /\ steady'[j] <= t
    BY <1>3 DEF HistoryPast
  <2>1. /\ streak[j] \in Nat /\ streak[j] <= now
        /\ steady[j] \in Nat /\ steady[j] <= now
    BY DEF TrackerInv, TypeOK, HistoryPast
  <2> QED BY <1>1, <1>6, <2>1
<1>13. \A j \in jobs : ~overflow => FirstSeen(t, j) <= steady'[j]
  BY FirstSeenBounds
<1>14. ViewRemembered'
  <2> SUFFICES ASSUME ~overflow', NEW j \in jobs
               PROVE  /\ j \in K
                      /\ m[j].first <= steady'[j]
                      /\ m[j].last = t
    BY <1>3, <1>5 DEF ViewRemembered
  <2>1. ~overflow /\ Cardinality(jobs) <= MaxEntries
    <3>1. Cardinality(jobs) \in Nat
      BY FiniteJobs
    <3>2. ~overflow /\ ~(Cardinality(jobs) > MaxEntries)
      BY <1>3, Zenon
    <3> QED BY <1>1, <3>1, <3>2
  <2>2. \A k \in DOMAIN m \ jobs : m[k].last < t
    <3> SUFFICES ASSUME NEW k \in DOMAIN m \ jobs
                 PROVE  m[k].last < t
      OBVIOUS
    <3>1. k \in Tracked /\ m[k] = entries[k]
      BY <1>1, MergedEntries
    <3>2. k \in Job /\ entries[k].last = sighted[k] /\ sighted[k] <= now
      BY <1>8, <3>1 DEF TrackerInv, EntriesInStreak
    <3>3. sighted[k] \in Nat
      BY <3>2 DEF TrackerInv, TypeOK
    <3> QED BY <1>1, <3>1, <3>2, <3>3
  <2>3. \A k \in DOMAIN m : m[k].last \in Nat
    BY <1>7 DEF Entry
  <2>4. jobs \in SUBSET DOMAIN m /\ \A k \in jobs : m[k].last = t
    BY <1>1, MergedEntries
  <2>5. jobs \subseteq K
    BY <1>1, <1>8, <2>1, <2>2, <2>3, <2>4, TrimSparesView
  <2>6. m[j].first = FirstSeen(t, j)
    BY <1>1, MergedEntries
  <2> QED BY <1>13, <2>1, <2>4, <2>5, <2>6
<1>15. EligibleAged'
  <2> SUFFICES ASSUME NEW j \in eligible', j \in K
               PROVE  t >= m[j].first + ClaimDelay
    BY <1>3, <1>5 DEF EligibleAged
  <2>1. j \in jobs /\ t >= FirstSeen(t, j) + ClaimDelay
    BY <1>3 DEF Ripe
  <2> QED BY <1>1, <2>1, MergedEntries
<1>16. DelayServed'
  <2> SUFFICES ASSUME NEW j \in eligible'
               PROVE  t >= streak'[j] + ClaimDelay
    BY <1>3 DEF DelayServed
  <2>1. j \in jobs /\ t >= FirstSeen(t, j) + ClaimDelay
    BY <1>3 DEF Ripe
  <2>2. streak'[j] <= FirstSeen(t, j)
    BY <2>1, FirstSeenBounds
  <2>3. streak'[j] \in Nat /\ FirstSeen(t, j) \in Nat
    BY <1>1, <1>9, <2>1, MergedEntries DEF TypeOK
  <2> QED BY <1>1, <2>1, <2>2, <2>3
<1>17. SteadyEligible'
  <2> SUFFICES ASSUME ~overflow', NEW j \in jobs, t >= steady'[j] + ClaimDelay
               PROVE  j \in Ripe(t, jobs)
    BY <1>3 DEF SteadyEligible
  <2>1. FirstSeen(t, j) <= steady'[j]
    BY <1>3, <1>13
  <2>2. steady'[j] \in Nat /\ FirstSeen(t, j) \in Nat
    BY <1>1, <1>9, MergedEntries DEF TypeOK
  <2> QED BY <1>1, <2>1, <2>2 DEF Ripe
<1> QED BY <1>9, <1>10, <1>11, <1>12, <1>14, <1>15, <1>16, <1>17 DEF TrackerInv

(* An empty tracker satisfies the invariant.                               *)
LEMMA EmptyTracker ==
  ASSUME now' \in Nat \ {0}, Forgotten
  PROVE  TrackerInv'
<1>1. Tracked' = {} /\ entries' \in [{} -> Entry]
  BY DEF Tracked, Forgotten
<1>2. Cardinality({}) = 0
  BY FS_EmptySet
<1>3. TypeOK'
  BY <1>1 DEF TypeOK, Forgotten
<1>4. Bounded'
  BY <1>1, <1>2, TrackerAssumption DEF Bounded
<1>5. HistoryPast'
  BY DEF HistoryPast, Forgotten
<1> QED BY <1>1, <1>3, <1>4, <1>5
     DEF TrackerInv, EntriesInStreak, ViewRemembered, EligibleAged, DelayServed,
         SteadyEligible, Forgotten

(* The inductive invariant holds, whatever jobs come and go and however    *)
(* far apart the polls are (claim.go:24-61).                               *)
THEOREM IInvariance == Spec => []TrackerInv
<1>1. Init => TrackerInv
  <2> SUFFICES ASSUME Init PROVE TrackerInv
    OBVIOUS
  <2>1. Tracked = {} /\ entries \in [{} -> Entry]
    BY DEF Tracked, Init
  <2>2. Cardinality({}) = 0
    BY FS_EmptySet
  <2>3. TypeOK
    <3>1. 1 \in Nat \ {0}
      OBVIOUS
    <3>2. now \in Nat \ {0} /\ overflow \in BOOLEAN
      BY <3>1 DEF Init
    <3>3. /\ sighted \in [Job -> Nat]
          /\ streak \in [Job -> Nat]
          /\ steady \in [Job -> Nat]
      BY DEF Init
    <3>4. queued \subseteq Job /\ eligible \subseteq queued
      BY DEF Init
    <3> QED BY <2>1, <3>2, <3>3, <3>4 DEF TypeOK
  <2>4. Bounded
    BY <2>1, <2>2, TrackerAssumption DEF Bounded
  <2>5. HistoryPast
    BY DEF HistoryPast, Init
  <2> QED BY <2>1, <2>3, <2>4, <2>5
       DEF TrackerInv, EntriesInStreak, ViewRemembered, EligibleAged, DelayServed,
           SteadyEligible, Init
<1>2. TrackerInv /\ [Next]_vars => TrackerInv'
  <2> SUFFICES ASSUME TrackerInv, [Next]_vars PROVE TrackerInv'
    OBVIOUS
  <2>1. ASSUME NEW gap \in 1 .. MaxGap, NEW jobs \in SUBSET Job, Poll(gap, jobs)
        PROVE  TrackerInv'
    BY <2>1, PollStep
  <2>2. CASE Restart
    BY <2>2, EmptyTracker DEF Restart, TrackerInv, TypeOK
  <2>3. CASE UNCHANGED vars
    BY <2>3 DEF vars, TrackerInv, TypeOK, Bounded, EntriesInStreak, HistoryPast,
                ViewRemembered, EligibleAged, DelayServed, SteadyEligible,
                Tracked
  <2> QED BY <2>1, <2>2, <2>3 DEF Next
<1> QED BY <1>1, <1>2, PTL DEF Spec

(* The memory never exceeds its bound (claim.go:42-51).                    *)
THEOREM MemoryBounded == Spec => []Bounded
<1>1. TrackerInv => Bounded
  BY DEF TrackerInv
<1> QED BY <1>1, IInvariance, PTL

(* No job is offered before its whole claim delay has passed within its    *)
(* present streak (claim.go:24-41 and 55-61).                              *)
THEOREM DelayRespected == Spec => []DelayServed
<1>1. TrackerInv => DelayServed
  BY DEF TrackerInv
<1> QED BY <1>1, IInvariance, PTL

(* A job in view for its whole delay is eligible, unless more jobs than    *)
(* the memory holds were in view at once (claim.go:42-51).                 *)
THEOREM SteadyServed == Spec => []SteadyEligible
<1>1. TrackerInv => SteadyEligible
  BY DEF TrackerInv
<1> QED BY <1>1, IInvariance, PTL

(* An eligible job stays eligible while it is in view and polls go on.     *)
THEOREM EligibilityKept == Spec => EligibleStays
<1>1. ASSUME TrackerInv, NEW gap \in 1 .. MaxGap, NEW jobs \in SUBSET Job,
             Poll(gap, jobs), ~overflow', now' - now <= StaleAfter,
             NEW j \in eligible \cap queued'
      PROVE  j \in eligible'
  <2> DEFINE t == now + gap
  <2>1. /\ now' = t /\ queued' = jobs /\ eligible' = Ripe(t, jobs)
        /\ overflow' = (overflow \/ Cardinality(jobs) > MaxEntries)
    BY <1>1 DEF Poll
  <2>2. now \in Nat /\ gap \in Nat /\ StaleAfter \in Nat /\ ClaimDelay \in Nat
    BY <1>1, TrackerAssumption DEF TrackerInv, TypeOK
  <2>3. j \in queued /\ j \in jobs /\ ~overflow
    BY <1>1, <2>1 DEF TrackerInv, TypeOK
  <2>4. j \in Tracked /\ entries[j].last = now
    BY <1>1, <2>3 DEF TrackerInv, ViewRemembered
  <2>5. now >= entries[j].first + ClaimDelay
    BY <1>1, <2>4 DEF TrackerInv, EligibleAged
  <2>6. t - entries[j].last <= StaleAfter
    BY <1>1, <2>1, <2>2, <2>4
  <2>7. FirstSeen(t, j) = entries[j].first
    BY <2>4, <2>6 DEF FirstSeen, Kept
  <2>8. entries[j].first \in Nat
    BY <2>4, <1>1 DEF TrackerInv, TypeOK, Entry
  <2> QED BY <2>1, <2>2, <2>3, <2>5, <2>7, <2>8 DEF Ripe
<1>2. ASSUME TrackerInv, [Next]_vars
      PROVE  [~overflow' /\ now' - now <= StaleAfter
                => eligible \cap queued' \subseteq eligible']_vars
  <2> SUFFICES ASSUME ~overflow', now' - now <= StaleAfter, Next,
                      NEW j \in eligible \cap queued'
               PROVE  j \in eligible'
    BY <1>2
  <2>1. CASE Restart
    BY <2>1 DEF Restart, Forgotten
  <2>2. ASSUME NEW gap \in 1 .. MaxGap, NEW jobs \in SUBSET Job, Poll(gap, jobs)
        PROVE  j \in eligible'
    BY <1>1, <1>2, <2>2
  <2> QED BY <2>1, <2>2 DEF Next
<1> QED BY <1>2, IInvariance, PTL DEF Spec, EligibleStays

=============================================================================
