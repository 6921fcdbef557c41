------------------------- MODULE GitHubClientProofs -------------------------
(***************************************************************************)
(* Proofs about GitHubClient, for any number of runs, any page size, any   *)
(* number of pages and every combination of faults.                        *)
(***************************************************************************)
EXTENDS GitHubClient, FiniteSetTheorems, TLAPS

Listing == task \in {"runs", "jobs"}

Elements(s) == {s[i] : i \in DOMAIN s}

\* Jobs are read while there are listed runs left.
BatchLeft == task = "jobs" => batch # <<>>

\* A run of the set S that is on page p or a later one.
Remains(S, p, r) ==
  r \in S /\ Cardinality({q \in S : q >= r}) > (p - 1) * PageSize

ToCome(r) == Remains(WithStatus, page, r)

\* A run whose job is queued was seen, or it is listed and will be looked at,
\* or it is on a page to come, of this status or of the next.
Found(r) ==
  \/ r \in observed \cup Elements(batch)
  \/ step = 1 /\ state[r] = "partly"
  \/ task = "runs" /\ ToCome(r)

SteadyFound ==
  /\ \A r \in steady : JobQueued(r)
  /\ Listing => outcome = "none"
  /\ Listing /\ ~shifted => \A r \in steady : Found(r)

\* The calls about a runner are made one after the other.
CallsOrdered ==
  /\ task = "create" => client = "none"
  /\ task = "delete" => client = "held"

IInv == TypeOK /\ BatchLeft /\ SteadyFound /\ CallsOrdered /\ ListingComplete

-----------------------------------------------------------------------------
(* Positions on the pages. *)

LEMMA FiniteRuns ==
  ASSUME NEW S \in SUBSET Run
  PROVE  IsFiniteSet(S) /\ Cardinality(S) \in Nat
<1>1. IsFiniteSet(Run)
  BY ClientAssumption, FS_Interval DEF Run
<1> QED BY <1>1, FS_Subset, FS_CardinalityType

LEMMA Monotone ==
  ASSUME NEW T \in SUBSET Run, NEW S \in SUBSET T
  PROVE  Cardinality(S) <= Cardinality(T)
BY FiniteRuns, FS_Subset

(* A run of a set has a position in it, and not beyond the last.           *)
LEMMA PositionBounds ==
  ASSUME NEW S \in SUBSET Run, NEW r \in S
  PROVE  /\ Cardinality({q \in S : q >= r}) \in Nat \ {0}
         /\ Cardinality(S) \in Nat
         /\ Cardinality({q \in S : q >= r}) <= Cardinality(S)
<1> DEFINE T == {q \in S : q >= r}
<1>1. r \in T
  BY ClientAssumption DEF Run
<1>2. T \in SUBSET S /\ T \in SUBSET Run
  OBVIOUS
<1>3. Cardinality(T) \in Nat /\ Cardinality(T) # 0
  BY <1>1, <1>2, FiniteRuns, FS_EmptySet
<1>4. Cardinality(T) <= Cardinality(S) /\ Cardinality(S) \in Nat
  BY <1>2, Monotone, FiniteRuns
<1> QED BY <1>3, <1>4

(* On the first page nothing has been passed.                              *)
LEMMA FirstPage ==
  ASSUME NEW S \in SUBSET Run, NEW r \in S
  PROVE  Remains(S, 1, r)
<1>1. (1 - 1) * PageSize = 0
  BY ClientAssumption
<1> DEFINE pos == Cardinality({q \in S : q >= r})
<1>2. pos \in Nat \ {0}
  BY PositionBounds
<1> HIDE DEF pos
<1>3. pos > (1 - 1) * PageSize
  BY <1>1, <1>2
<1> QED BY <1>3 DEF Remains, pos

(* Runs that come to have the status do not hide one that is to come.      *)
LEMMA RemainsGrows ==
  ASSUME NEW S \in SUBSET Run, NEW T \in SUBSET Run, S \subseteq T,
         NEW p \in Nat, NEW r, Remains(S, p, r)
  PROVE  Remains(T, p, r)
<1> DEFINE SS == {q \in S : q >= r}
           TT == {q \in T : q >= r}
<1>1. SS \in SUBSET TT /\ TT \in SUBSET Run /\ SS \in SUBSET Run
  OBVIOUS
<1>2. Cardinality(SS) <= Cardinality(TT)
  BY <1>1, Monotone
<1>3. Cardinality(SS) \in Nat /\ Cardinality(TT) \in Nat
  BY <1>1, FiniteRuns
<1>4. (p - 1) * PageSize \in Int
  BY ClientAssumption
<1>5. r \in T /\ Cardinality(SS) > (p - 1) * PageSize
  BY DEF Remains
<1> HIDE DEF SS, TT
<1>6. Cardinality(TT) > (p - 1) * PageSize
  BY <1>2, <1>3, <1>4, <1>5
<1> QED BY <1>5, <1>6 DEF Remains, TT

(* A run that is to come and not on this page is on one of the next.       *)
LEMMA PageTurns ==
  ASSUME page \in Nat, NEW r, ToCome(r), r \notin OnPage
  PROVE  HasNext /\ Remains(WithStatus, page + 1, r)
<1> DEFINE pos == Cardinality({q \in WithStatus : q >= r})
<1>1. r \in WithStatus /\ WithStatus \in SUBSET Run
  BY DEF ToCome, Remains, WithStatus
<1>2. pos \in Nat /\ Cardinality(WithStatus) \in Nat
      /\ pos <= Cardinality(WithStatus)
  BY <1>1, PositionBounds
<1>3. page * PageSize \in Nat /\ (page + 1) - 1 = page
  BY ClientAssumption
<1>4. ~(pos <= page * PageSize)
  BY <1>1 DEF ToCome, Remains, OnPage, Position
<1>5. pos > page * PageSize
  BY <1>2, <1>3, <1>4
<1>6. HasNext
  BY <1>2, <1>3, <1>5 DEF HasNext
<1> QED BY <1>1, <1>3, <1>5, <1>6 DEF Remains

LEMMA ElementsJoined ==
  ASSUME NEW s \in Seq(Run), NEW t \in Seq(Run)
  PROVE  /\ s \o t \in Seq(Run) /\ Len(s \o t) = Len(s) + Len(t)
         /\ Elements(s \o t) = Elements(s) \cup Elements(t)
<1>1. /\ s \o t \in Seq(Run) /\ Len(s \o t) = Len(s) + Len(t)
      /\ \A i \in 1 .. Len(s) + Len(t) :
           (s \o t)[i] = IF i <= Len(s) THEN s[i] ELSE t[i - Len(s)]
  OBVIOUS
<1>2. /\ DOMAIN s = 1 .. Len(s) /\ DOMAIN t = 1 .. Len(t)
      /\ DOMAIN (s \o t) = 1 .. Len(s) + Len(t) /\ Len(s) \in Nat /\ Len(t) \in Nat
  BY <1>1
<1>3. \A i \in 1 .. Len(s) : s[i] \in Elements(s \o t)
  BY <1>1, <1>2 DEF Elements
<1>4. ASSUME NEW j \in 1 .. Len(t) PROVE t[j] \in Elements(s \o t)
  <2>1. /\ Len(s) + j \in 1 .. Len(s) + Len(t)
        /\ ~(Len(s) + j <= Len(s)) /\ Len(s) + j - Len(s) = j
    BY <1>2
  <2>2. (s \o t)[Len(s) + j] = t[j]
    BY <1>1, <2>1
  <2> QED BY <1>2, <2>1, <2>2 DEF Elements
<1>5. ASSUME NEW k \in 1 .. Len(s) + Len(t)
      PROVE  (s \o t)[k] \in Elements(s) \cup Elements(t)
  <2>1. CASE k <= Len(s)
    BY <1>1, <1>2, <2>1 DEF Elements
  <2>2. CASE ~(k <= Len(s))
    <3>1. k - Len(s) \in 1 .. Len(t)
      BY <1>2, <2>2
    <3> QED BY <1>1, <1>2, <2>2, <3>1 DEF Elements
  <2> QED BY <2>1, <2>2
<1> QED BY <1>1, <1>2, <1>3, <1>4, <1>5 DEF Elements

LEMMA ElementsOfTail ==
  ASSUME NEW s \in Seq(Run), s # <<>>
  PROVE  /\ Head(s) \in Run /\ Tail(s) \in Seq(Run)
         /\ Len(Tail(s)) = Len(s) - 1 /\ Len(s) \in Nat \ {0}
         /\ Elements(s) \subseteq {Head(s)} \cup Elements(Tail(s))
<1>1. /\ Len(s) \in Nat \ {0} /\ Tail(s) \in Seq(Run) /\ Len(Tail(s)) = Len(s) - 1
      /\ Head(s) = s[1] /\ DOMAIN s = 1 .. Len(s)
      /\ DOMAIN Tail(s) = 1 .. Len(s) - 1
      /\ \A i \in 1 .. Len(s) - 1 : Tail(s)[i] = s[i + 1]
  OBVIOUS
<1>2. ASSUME NEW k \in 1 .. Len(s), k # 1
      PROVE  s[k] \in Elements(Tail(s))
  <2>1. k - 1 \in 1 .. Len(s) - 1 /\ (k - 1) + 1 = k
    BY <1>1, <1>2
  <2>2. Tail(s)[k - 1] = s[k]
    BY <1>1, <2>1
  <2> QED BY <1>1, <2>1, <2>2 DEF Elements
<1> QED BY <1>1, <1>2 DEF Elements

(* A page as a sequence: its runs, and as many.                            *)
LEMMA PageSequence ==
  ASSUME NEW s \in [1 .. Cardinality(OnPage) -> OnPage], NewestFirst(s)
  PROVE  /\ s \in Seq(Run) /\ Len(s) = Cardinality(OnPage)
         /\ OnPage \subseteq Elements(s)
<1>1. OnPage \in SUBSET Run
  BY DEF OnPage, WithStatus
<1>2. Cardinality(OnPage) \in Nat
  BY <1>1, FiniteRuns
<1>3. s \in Seq(Run) /\ Len(s) = Cardinality(OnPage)
  BY <1>1, <1>2
<1> QED BY <1>3 DEF NewestFirst, Elements

-----------------------------------------------------------------------------
LEMMA InitIInv == Init => IInv
<1> SUFFICES ASSUME Init PROVE IInv
  OBVIOUS
<1>1. TypeOK
  <2>1. 1 \in 1 .. MaxPages /\ 0 \in 0 .. Retries
    BY ClientAssumption DEF Retries
  <2>2. state \in [Run -> RunState] /\ batch \in Seq(Run)
    BY DEF Init, RunState
  <2> QED BY <2>1, <2>2 DEF Init, TypeOK
<1>2. BatchLeft /\ SteadyFound /\ CallsOrdered /\ ListingComplete
  BY DEF Init, BatchLeft, SteadyFound, Listing, CallsOrdered, ListingComplete
<1> QED BY <1>1, <1>2 DEF IInv

LEMMA StartListingIInv ==
  ASSUME IInv, StartListing
  PROVE  IInv'
<1>1. TypeOK'
  <2>1. 1 \in 1 .. MaxPages /\ 0 \in 0 .. Retries
    BY ClientAssumption DEF Retries
  <2>2. steady' \subseteq Run
    BY DEF StartListing
  <2>3. /\ state' = state /\ runner' = runner /\ client' = client
        /\ batch' \in Seq(Run)
    BY DEF StartListing, runnerVars
  <2> QED BY <2>1, <2>2, <2>3 DEF StartListing, IInv, TypeOK
<1>2. BatchLeft' /\ CallsOrdered' /\ ListingComplete' /\ (Listing => outcome = "none")'
  BY DEF StartListing, BatchLeft, CallsOrdered, ListingComplete, Listing
<1>3. \A r \in steady' : JobQueued(r)'
  BY DEF StartListing, JobQueued
<1>4. \A r \in steady' : Found(r)'
  <2> SUFFICES ASSUME NEW r \in steady' PROVE Found(r)'
    OBVIOUS
  <2>1. r \in Run /\ state'[r] \in {"queued", "partly"}
    BY DEF StartListing, JobQueued
  <2>2. task' = "runs" /\ step' = 1 /\ page' = 1
    BY DEF StartListing
  <2>3. CASE state'[r] = "queued"
    <3>1. (r \in WithStatus)'
      BY <2>1, <2>2, <2>3 DEF WithStatus, StatusOf, Statuses
    <3>2. WithStatus' \in SUBSET Run
      BY DEF WithStatus
    <3>3. ToCome(r)'
      BY <2>2, <3>1, <3>2, FirstPage DEF ToCome
    <3> QED BY <2>2, <3>3 DEF Found
  <2>4. CASE state'[r] = "partly"
    BY <2>2, <2>4 DEF Found
  <2> QED BY <2>1, <2>3, <2>4
<1> QED BY <1>1, <1>2, <1>3, <1>4 DEF IInv, SteadyFound

-----------------------------------------------------------------------------
(* The steps of a listing. *)

LEMMA WithStatusIsRun == WithStatus \in SUBSET Run /\ WithStatus' \in SUBSET Run
BY DEF WithStatus

(* Going on after a page or a job: what was seen and what is in the batch  *)
(* hold every steady run, or the next status does.                         *)
LEMMA ProceedIInv ==
  ASSUME IInv, Listing, NEW runs \in Seq(Run), NEW seen \in SUBSET Run,
         Proceed(runs, seen), UNCHANGED <<client, runner, state, steady, shifted>>,
         ~shifted => \A r \in steady :
           r \in seen \cup Elements(runs) \/ (step = 1 /\ state[r] = "partly")
  PROVE  IInv'
<1>1. TypeOK'
  <2>1. 1 \in 1 .. MaxPages /\ 0 \in 0 .. Retries
    BY ClientAssumption DEF Retries
  <2>2. /\ task' \in {"runs", "jobs", "idle"} /\ step' \in {1, 2}
        /\ page' \in 1 .. MaxPages /\ outcome' \in {"none", "complete", "failed"}
    BY <2>1 DEF Proceed, IInv, TypeOK
  <2> QED BY <2>1, <2>2 DEF Proceed, IInv, TypeOK
<1>2. outcome = "none" /\ (Listing => outcome = "none")' /\ CallsOrdered' /\ BatchLeft'
  BY DEF Proceed, IInv, SteadyFound, Listing, CallsOrdered, BatchLeft
<1>3. \A r \in steady' : JobQueued(r)'
  BY DEF IInv, SteadyFound, JobQueued
<1>4. ASSUME ~shifted, NEW r \in steady, Listing'
      PROVE  Found(r)'
  <2>1. r \in seen \cup Elements(runs) \/ (step = 1 /\ state[r] = "partly")
    BY <1>4
  <2>2. observed' = seen /\ batch' = runs
    BY DEF Proceed
  <2>3. CASE task' = "jobs"
    <3>1. step' = step
      BY <2>3 DEF Proceed
    <3> QED BY <2>1, <2>2, <3>1 DEF Found
  <2>4. CASE task' = "runs"
    <3>1. runs = <<>> /\ step = 1 /\ step' = 2 /\ page' = 1
          /\ r \notin Elements(runs)
      BY <2>4 DEF Proceed, Elements
    <3>2. CASE r \in seen
      BY <2>2, <3>2 DEF Found
    <3>3. CASE state[r] = "partly"
      <4>1. r \in WithStatus'
        BY <3>1, <3>3 DEF WithStatus, StatusOf, Statuses, IInv, TypeOK
      <4>2. ToCome(r)'
        BY <3>1, <4>1, WithStatusIsRun, FirstPage DEF ToCome
      <4> QED BY <2>4, <4>2 DEF Found
    <3> QED BY <2>1, <3>1, <3>2, <3>3
  <2> QED BY <1>4, <2>3, <2>4 DEF Listing
<1>5. ListingComplete'
  <2> SUFFICES ASSUME outcome' = "complete", ~shifted', NEW r \in steady'
               PROVE  r \in observed'
    BY DEF ListingComplete
  <2>1. runs = <<>> /\ step = 2 /\ observed' = seen /\ r \notin Elements(runs)
    BY <1>2 DEF Proceed, Elements
  <2> QED BY <2>1
<1> QED BY <1>1, <1>2, <1>3, <1>4, <1>5 DEF IInv, SteadyFound

(* Turning to another page, of runs or of jobs.                            *)
LEMMA NextPageIInv ==
  ASSUME IInv, Listing, NEW runs \in Seq(Run), NEW seen \in SUBSET Run,
         NextPage(runs, seen), ~AtLimit, task = "jobs" => runs = batch,
         UNCHANGED <<client, runner, state, steady, shifted>>,
         ~shifted => \A r \in steady :
           \/ r \in seen \cup Elements(runs) \/ (step = 1 /\ state[r] = "partly")
           \/ task = "runs" /\ Remains(WithStatus, page + 1, r)
  PROVE  IInv'
<1>1. TypeOK'
  <2>1. page' \in 1 .. MaxPages /\ 0 \in 0 .. Retries
    BY ClientAssumption DEF NextPage, IInv, TypeOK, Retries, AtLimit
  <2> QED BY <2>1 DEF NextPage, IInv, TypeOK
<1>2. /\ CallsOrdered' /\ ListingComplete' /\ (Listing => outcome = "none")' /\ BatchLeft'
      /\ \A r \in steady' : JobQueued(r)'
  BY DEF NextPage, IInv, SteadyFound, CallsOrdered, Listing, JobQueued,
         ListingComplete, BatchLeft
<1>3. WithStatus' = WithStatus
  BY DEF NextPage, WithStatus
<1>4. ASSUME ~shifted, NEW r \in steady PROVE Found(r)'
  BY <1>3, <1>4 DEF NextPage, Found, ToCome
<1> QED BY <1>1, <1>2, <1>4 DEF IInv, SteadyFound

LEMMA ListingFailsIInv ==
  ASSUME IInv, Listing, ListingFails, UNCHANGED <<runner, state, steady, shifted>>
  PROVE  IInv'
<1>1. 0 \in 0 .. Retries
  BY DEF Retries
<1>2. TypeOK'
  BY <1>1 DEF IInv, TypeOK, ListingFails, Idle
<1> QED BY <1>2 DEF IInv, SteadyFound, CallsOrdered, Listing, JobQueued, BatchLeft,
                    ListingComplete, ListingFails, Idle

LEMMA ListRunsIInv ==
  ASSUME IInv, ListRuns
  PROVE  IInv'
<1>1. /\ Listing /\ task = "runs"
      /\ UNCHANGED <<runner, state, steady, shifted>>
  BY DEF ListRuns, Listing, serverVars
<1>2. /\ batch \in Seq(Run) /\ observed \in SUBSET Run /\ page \in Nat
  BY ClientAssumption DEF IInv, TypeOK
<1>3. PICK s \in [1 .. Cardinality(OnPage) -> OnPage] :
        /\ NewestFirst(s)
        /\ \/ ~HasNext /\ Proceed(batch \o s, observed) /\ UNCHANGED client
           \/ HasNext /\ ~AtLimit /\ NextPage(batch \o s, observed) /\ UNCHANGED client
           \/ HasNext /\ AtLimit /\ ListingFails
  BY DEF ListRuns
<1> DEFINE runs == batch \o s
<1>4. /\ runs \in Seq(Run)
      /\ Elements(batch) \cup OnPage \subseteq Elements(runs)
  BY <1>2, <1>3, PageSequence, ElementsJoined
<1> HIDE DEF runs
<1>5. ASSUME ~shifted, NEW r \in steady
      PROVE  \/ r \in observed \cup Elements(runs)
             \/ step = 1 /\ state[r] = "partly"
             \/ HasNext /\ Remains(WithStatus, page + 1, r)
  <2>1. Found(r)
    BY <1>1, <1>5 DEF IInv, SteadyFound
  <2>2. ToCome(r) /\ r \notin OnPage => HasNext /\ Remains(WithStatus, page + 1, r)
    BY <1>2, PageTurns
  <2> QED BY <1>4, <2>1, <2>2 DEF Found
<1>6. CASE ~HasNext /\ Proceed(runs, observed) /\ UNCHANGED client
  BY <1>1, <1>2, <1>4, <1>5, <1>6, ProceedIInv
<1>7. CASE HasNext /\ ~AtLimit /\ NextPage(runs, observed) /\ UNCHANGED client
  BY <1>1, <1>2, <1>4, <1>5, <1>7, NextPageIInv
<1>8. CASE ListingFails
  BY <1>1, <1>8, ListingFailsIInv
<1> QED BY <1>3, <1>6, <1>7, <1>8 DEF runs

LEMMA ListJobsIInv ==
  ASSUME IInv, ListJobs
  PROVE  IInv'
<1>1. /\ Listing /\ task = "jobs"
      /\ UNCHANGED <<runner, state, steady, shifted>>
  BY DEF ListJobs, Listing, serverVars
<1>2. /\ batch \in Seq(Run) /\ batch # <<>> /\ observed \in SUBSET Run
  BY <1>1 DEF IInv, TypeOK, BatchLeft
<1>3. /\ Head(batch) \in Run /\ Tail(batch) \in Seq(Run)
      /\ Elements(batch) \subseteq {Head(batch)} \cup Elements(Tail(batch))
  BY <1>2, ElementsOfTail
<1>4. SeesJob \in SUBSET Run
  BY <1>2, <1>3 DEF SeesJob
<1>5. ASSUME ~shifted, NEW r \in steady
      PROVE  /\ JobQueued(r)
             /\ r \in observed \cup Elements(batch) \/ (step = 1 /\ state[r] = "partly")
  <2>1. Found(r) /\ JobQueued(r)
    BY <1>1, <1>5 DEF IInv, SteadyFound
  <2> QED BY <1>1, <2>1 DEF Found
<1>6. CASE Proceed(Tail(batch), SeesJob) /\ UNCHANGED client
  <2>1. ASSUME ~shifted, NEW r \in steady
        PROVE  r \in SeesJob \cup Elements(Tail(batch))
               \/ (step = 1 /\ state[r] = "partly")
    BY <1>3, <1>5, <2>1 DEF SeesJob
  <2> QED BY <1>1, <1>3, <1>4, <1>6, <2>1, ProceedIInv
<1>7. ASSUME ~AtLimit, UNCHANGED client,
             NEW seen \in {observed, SeesJob}, NextPage(batch, seen)
      PROVE  IInv'
  <2>1. seen \in SUBSET Run /\ observed \subseteq seen
    BY <1>2, <1>4 DEF SeesJob
  <2>2. ASSUME ~shifted, NEW r \in steady
        PROVE  r \in seen \cup Elements(batch) \/ (step = 1 /\ state[r] = "partly")
    BY <1>5, <2>1, <2>2
  <2> QED BY <1>1, <1>2, <1>7, <2>1, <2>2, NextPageIInv
<1>8. CASE ListingFails
  BY <1>1, <1>8, ListingFailsIInv
<1> QED BY <1>6, <1>7, <1>8 DEF ListJobs

(* A step that leaves the listing and GitHub alone and starts no listing.  *)
LEMMA QuietIInv ==
  ASSUME IInv, TypeOK', CallsOrdered', UNCHANGED <<listVars, state, steady, shifted>>,
         task' = task \/ task' \notin {"runs", "jobs"}
  PROVE  IInv'
<1>1. UNCHANGED <<step, page, batch, observed, outcome, state, steady, shifted>>
  BY DEF listVars
<1>2. WithStatus' = WithStatus
  BY <1>1 DEF WithStatus
<1>3. Listing' => Listing /\ task' = task
  BY DEF Listing
<1>4. ASSUME Listing', ~shifted', NEW r \in steady' PROVE Found(r)'
  BY <1>1, <1>2, <1>3, <1>4 DEF IInv, SteadyFound, Found, ToCome
<1>5. (\A r \in steady : JobQueued(r))' /\ (Listing => outcome = "none")'
      /\ ListingComplete' /\ BatchLeft'
  BY <1>1, <1>3 DEF IInv, SteadyFound, JobQueued, ListingComplete, BatchLeft, Listing
<1> QED BY <1>4, <1>5 DEF IInv, SteadyFound

LEMMA ListingRequestFailsIInv ==
  ASSUME IInv, ListingRequestFails
  PROVE  IInv'
<1>1. Fails(ListingFails) /\ UNCHANGED <<runner, state, steady, shifted>>
  BY DEF ListingRequestFails, serverVars
<1>2. CASE /\ attempt < Retries /\ attempt' = attempt + 1
           /\ UNCHANGED <<task, listVars, client>>
  <2>1. attempt' \in 0 .. Retries
    BY <1>2 DEF IInv, TypeOK, Retries
  <2>2. TypeOK' /\ CallsOrdered'
    BY <1>1, <1>2, <2>1 DEF IInv, TypeOK, CallsOrdered, listVars
  <2> QED BY <1>1, <1>2, <2>2, QuietIInv
<1>3. CASE ListingFails
  BY <1>1, <1>3, ListingFailsIInv DEF ListingRequestFails, Listing
<1> QED BY <1>1, <1>2, <1>3 DEF Fails

-----------------------------------------------------------------------------
(* The calls about a runner. *)

(* What a request about a runner that fails may have done: it is sent      *)
(* again, or the call ends with the result.                                *)
LEMMA FailsCases ==
  ASSUME NEW result, TypeOK, Fails(Ends(result))
  PROVE  \/ attempt' \in 0 .. Retries /\ UNCHANGED <<task, listVars, client>>
         \/ Ends(result)
BY DEF Fails, TypeOK, Retries

RunnerCalls ==
  StartCreate \/ Create \/ CreateFails \/ StartDelete \/ Delete \/ DeleteFails
  \/ NextRunner \/ RunnerEnds

LEMMA RunnerCallsIInv ==
  ASSUME IInv, RunnerCalls
  PROVE  IInv'
<1> DEFINE Kept == UNCHANGED <<listVars, state, steady, shifted>>
<1>1. 0 \in 0 .. Retries
  BY DEF Retries
<1> SUFFICES /\ Kept /\ attempt' \in 0 .. Retries
             /\ task' = task \/ task' \in {"idle", "create", "delete"}
             /\ runner' \in {"absent", "present"}
             /\ client' \in {"none", "held", "failed", "released", "unreleased"}
             /\ CallsOrdered'
  <2>1. ASSUME Kept, attempt' \in 0 .. Retries,
               task' = task \/ task' \in {"idle", "create", "delete"},
               runner' \in {"absent", "present"},
               client' \in {"none", "held", "failed", "released", "unreleased"}
        PROVE  TypeOK'
    BY <2>1 DEF IInv, TypeOK, listVars
  <2> QED BY <2>1, QuietIInv
<1> USE DEF IInv, TypeOK, CallsOrdered
<1>2. CASE StartCreate
  BY <1>1, <1>2 DEF StartCreate, runnerVars, serverVars
<1>3. CASE Create
  BY <1>1, <1>3 DEF Create, Ends, Idle, serverVars
<1>4. CASE CreateFails
  <2>1. /\ attempt' \in 0 .. Retries /\ UNCHANGED listVars
        /\ \/ UNCHANGED <<task, client>>
           \/ task' = "idle" /\ client' = "failed"
    BY <1>1, <1>4, FailsCases DEF CreateFails, Ends, Idle
  <2> QED BY <1>4, <2>1 DEF CreateFails, Effect, serverVars
<1>5. CASE StartDelete
  BY <1>1, <1>5 DEF StartDelete, runnerVars, serverVars
<1>6. CASE Delete
  BY <1>1, <1>6 DEF Delete, Ends, Idle, serverVars
<1>7. CASE DeleteFails
  <2>1. /\ attempt' \in 0 .. Retries /\ UNCHANGED listVars
        /\ \/ UNCHANGED <<task, client>>
           \/ task' = "idle" /\ client' = "unreleased"
    BY <1>1, <1>7, FailsCases DEF DeleteFails, Ends, Idle
  <2> QED BY <1>7, <2>1 DEF DeleteFails, Effect, serverVars
<1>8. CASE NextRunner
  BY <1>8 DEF NextRunner, callVars, serverVars
<1>9. CASE RunnerEnds
  BY <1>9 DEF RunnerEnds, callVars, serverVars
<1> QED BY <1>2, <1>3, <1>4, <1>5, <1>6, <1>7, <1>8, <1>9 DEF RunnerCalls

-----------------------------------------------------------------------------
(* GitHub goes on. *)

(* A run whose job stays queued is found where it was, or on a later page, *)
(* or in progress, unless another left the pages that are being read.      *)
LEMMA RunChangesFound ==
  ASSUME IInv, NEW q \in Run, RunChanges(q), Listing, ~shifted',
         NEW r \in steady'
  PROVE  Found(r)'
<1>1. /\ UNCHANGED <<task, step, page, batch, observed>>
      /\ ~shifted /\ r \in steady /\ r \in Run
      /\ state'[r] \in {"queued", "partly"} /\ state[r] \in {"queued", "partly"}
  BY DEF RunChanges, callVars, listVars, IInv, TypeOK, SteadyFound, JobQueued
<1>2. Found(r)
  BY <1>1 DEF IInv, SteadyFound
<1>3. \A p \in Run : p # q => state'[p] = state[p]
  BY DEF RunChanges, IInv, TypeOK
<1>4. state[r] = "partly" => state'[r] = "partly"
  <2>1. CASE r = q
    BY <1>1, <2>1 DEF RunChanges, Follows, IInv, TypeOK
  <2>2. CASE r # q
    BY <1>1, <1>3, <2>2
  <2> QED BY <2>1, <2>2
<1>5. CASE r \in observed \cup Elements(batch) \/ (step = 1 /\ state[r] = "partly")
  BY <1>1, <1>4, <1>5 DEF Found
<1>6. CASE task = "runs" /\ ToCome(r)
  <2>1. r \in WithStatus /\ WithStatus \in SUBSET Run /\ WithStatus' \in SUBSET Run
    BY <1>6, WithStatusIsRun DEF ToCome, Remains
  <2>2. CASE step = 1 /\ state'[r] = "partly"
    BY <1>1, <2>2 DEF Found
  <2>3. CASE ~(step = 1 /\ state'[r] = "partly")
    <3>1. r \in WithStatus'
      <4>1. CASE step = 1
        BY <1>1, <2>3, <4>1 DEF WithStatus, StatusOf, Statuses
      <4>2. CASE step = 2
        <5>1. state[r] = "partly"
          BY <1>1, <2>1, <4>2 DEF WithStatus, StatusOf, Statuses
        <5> QED BY <1>1, <1>4, <4>2, <5>1 DEF WithStatus, StatusOf, Statuses
      <4> QED BY <4>1, <4>2 DEF IInv, TypeOK
    <3>2. CASE page = 1
      <4>1. ToCome(r)'
        BY <1>1, <2>1, <3>1, <3>2, FirstPage DEF ToCome
      <4> QED BY <1>1, <1>6, <4>1 DEF Found
    <3>3. CASE page # 1
      <4>1. page > 1 /\ page \in Nat
        BY <3>3, ClientAssumption DEF IInv, TypeOK
      <4>2. ~(StatusOf(state[q]) = Statuses[step]
              /\ StatusOf(state'[q]) # Statuses[step])
        BY <1>6, <4>1 DEF RunChanges
      <4>3. WithStatus \subseteq WithStatus'
        <5> SUFFICES ASSUME NEW p \in WithStatus PROVE p \in WithStatus'
          OBVIOUS
        <5>1. p \in Run /\ StatusOf(state[p]) = Statuses[step]
          BY DEF WithStatus
        <5>2. StatusOf(state'[p]) = Statuses[step]
          BY <1>3, <4>2, <5>1
        <5> QED BY <1>1, <5>1, <5>2 DEF WithStatus
      <4>4. ToCome(r)'
        BY <1>1, <1>6, <2>1, <4>1, <4>3, RemainsGrows DEF ToCome
      <4> QED BY <1>1, <1>6, <4>4 DEF Found
    <3> QED BY <3>2, <3>3
  <2> QED BY <2>2, <2>3
<1> QED BY <1>2, <1>5, <1>6 DEF Found

LEMMA RunChangesIInv ==
  ASSUME IInv, NEW q \in Run, RunChanges(q)
  PROVE  IInv'
<1>1. UNCHANGED <<task, attempt, step, page, batch, observed, outcome, runner, client>>
  BY DEF RunChanges, callVars, listVars, runnerVars
<1>2. TypeOK'
  <2>1. PICK s \in Follows(state[q]) : state' = [state EXCEPT ![q] = s]
    BY DEF RunChanges
  <2>2. s \in RunState
    BY <2>1 DEF Follows, RunState
  <2>3. state' \in [Run -> RunState]
    BY <2>1, <2>2 DEF IInv, TypeOK
  <2>4. steady' \subseteq Run
    BY DEF RunChanges, IInv, TypeOK
  <2>5. shifted' \in BOOLEAN
    BY DEF RunChanges
  <2> QED BY <1>1, <2>3, <2>4, <2>5 DEF IInv, TypeOK
<1>3. (\A r \in steady : JobQueued(r))' /\ steady' \subseteq steady
  BY DEF RunChanges, JobQueued
<1>4. shifted => shifted'
  BY DEF RunChanges
<1>5. CallsOrdered' /\ BatchLeft' /\ ListingComplete' /\ (Listing => outcome = "none")'
  BY <1>1, <1>3, <1>4
     DEF IInv, CallsOrdered, BatchLeft, ListingComplete, SteadyFound, Listing
<1>6. Listing' => Listing
  BY <1>1 DEF Listing
<1> QED BY <1>2, <1>3, <1>5, <1>6, RunChangesFound DEF IInv, SteadyFound

LEMMA StepIInv ==
  ASSUME IInv, [Next]_vars
  PROVE  IInv'
<1>1. CASE UNCHANGED vars
  <2>1. TypeOK' /\ CallsOrdered'
    BY <1>1 DEF vars, callVars, listVars, runnerVars, serverVars, IInv, TypeOK,
                CallsOrdered
  <2> QED BY <1>1, <2>1, QuietIInv
          DEF vars, callVars, listVars, runnerVars, serverVars
<1>2. CASE Next
  BY <1>2, StartListingIInv, ListRunsIInv, ListJobsIInv,
     ListingRequestFailsIInv, RunnerCallsIInv, RunChangesIInv
  DEF Next, RunnerCalls
<1> QED BY <1>1, <1>2

(* Whatever happens between and within the requests of a listing, each job *)
(* that stays queued is where the listing will still look.                 *)
THEOREM IInvariance == Spec => []IInv
BY InitIInv, StepIInv, PTL DEF Spec

THEOREM TypeCorrect == Spec => []TypeOK
<1>1. IInv => TypeOK
  BY DEF IInv
<1> QED BY <1>1, IInvariance, PTL

(* A listing that succeeds has found every job that was queued throughout, *)
(* unless pages were shifted under it (participant.go:102-129 over         *)
(* client.go:183-213).                                                     *)
THEOREM ListingsFindAll == Spec => []ListingComplete
<1>1. IInv => ListingComplete
  BY DEF IInv
<1> QED BY <1>1, IInvariance, PTL

-----------------------------------------------------------------------------
(* How many requests a call makes. *)

(* Of two runs in a list the newer has the smaller position.               *)
LEMMA PositionOrder ==
  ASSUME NEW r \in WithStatus, NEW s \in WithStatus, r < s
  PROVE  Position(s) < Position(r)
<1> DEFINE RR == {q \in WithStatus : q >= r}
           SS == {q \in WithStatus : q >= s}
<1>1. \A q \in WithStatus : q \in Run /\ q \in Int
  BY ClientAssumption DEF WithStatus, Run
<1>2. SS \in SUBSET RR /\ RR \in SUBSET Run
  <2>1. \A q \in WithStatus : q >= s => q >= r
    BY <1>1
  <2> QED BY <1>1, <2>1
<1>3. r \in RR /\ r \notin SS
  BY <1>1
<1>4. /\ Cardinality(SS) <= Cardinality(RR)
      /\ Cardinality(SS) # Cardinality(RR)
  BY <1>2, <1>3, FiniteRuns, FS_Subset
<1>5. Cardinality(SS) \in Nat /\ Cardinality(RR) \in Nat
  BY <1>2, FiniteRuns
<1>6. Position(r) = Cardinality(RR) /\ Position(s) = Cardinality(SS)
  BY DEF Position
<1> HIDE DEF RR, SS
<1> QED BY <1>4, <1>5, <1>6

(* A page has PageSize runs at most.                                       *)
LEMMA PageHolds ==
  ASSUME page \in Nat
  PROVE  Cardinality(OnPage) \in 0 .. PageSize
<1> DEFINE before == (page - 1) * PageSize
           place == [r \in OnPage |-> Position(r) - before]
<1>1. before \in Int /\ page * PageSize = before + PageSize /\ PageSize \in Nat
  BY ClientAssumption
<1>2. ASSUME NEW r \in OnPage
      PROVE  r \in WithStatus /\ r \in Int /\ Position(r) \in Nat
             /\ Position(r) - before \in 1 .. PageSize
  <2>1. r \in WithStatus /\ r \in Run
    BY <1>2 DEF OnPage, WithStatus
  <2>2. Position(r) \in Nat
    BY <2>1, WithStatusIsRun, PositionBounds DEF Position
  <2>3. before < Position(r) /\ Position(r) <= page * PageSize
    BY <1>2 DEF OnPage
  <2> HIDE DEF before
  <2> QED BY <1>1, <2>1, <2>2, <2>3, ClientAssumption DEF Run
<1> HIDE DEF before
<1>3. ASSUME NEW r \in OnPage, NEW s \in OnPage, place[r] = place[s]
      PROVE  r = s
  <2>1. Position(r) = Position(s)
    BY <1>1, <1>2, <1>3
  <2>2. ~(r < s) /\ ~(s < r)
    BY <1>2, <2>1, PositionOrder
  <2> QED BY <1>2, <2>2
<1>4. place \in Injection(OnPage, 1 .. PageSize)
  BY <1>2, <1>3 DEF Injection, IsInjective
<1>5. IsFiniteSet(1 .. PageSize) /\ Cardinality(1 .. PageSize) = PageSize
  BY <1>1, FS_Interval
<1>6. Cardinality(OnPage) <= PageSize
  BY <1>4, <1>5, FS_Injection
<1>7. Cardinality(OnPage) \in Nat
  BY FiniteRuns DEF OnPage, WithStatus
<1> QED BY <1>1, <1>6, <1>7

(* What the listed runs still cost.                                        *)
LEMMA Units ==
  /\ MaxPages \in Nat \ {0} /\ PerPage \in Nat \ {0}
  /\ PerStatus \in Nat /\ PerStatus = MaxPages * PerPage
  /\ \A n \in Nat : n * PerPage \in Nat /\ (n + 1) * PerPage = n * PerPage + PerPage
  /\ \A n \in Nat : n * MaxPages \in Nat /\ (n + 1) * MaxPages = n * MaxPages + MaxPages
<1>1. PageSize \in Nat \ {0} /\ MaxPages \in Nat \ {0}
  BY ClientAssumption
<1>2. PageSize * MaxPages \in Nat
  BY <1>1
<1>3. PerPage \in Nat \ {0}
  BY <1>2 DEF PerPage
<1> QED BY <1>1, <1>3 DEF PerStatus

(* What is ahead, call by call.                                            *)
LEMMA AheadCases ==
  ASSUME TypeOK, BatchLeft
  PROVE  /\ Ahead \in Nat
         /\ task # "idle" => Ahead # 0
         /\ OtherStatus \in Nat /\ Len(batch) * MaxPages \in Nat
         /\ task = "runs" => MaxPages - page \in Nat
              /\ Ahead = (MaxPages - page) * PerPage + PerPage
                         + Len(batch) * MaxPages + OtherStatus
         /\ task = "jobs" =>
              /\ Len(Tail(batch)) \in Nat /\ Len(Tail(batch)) * MaxPages \in Nat
              /\ Ahead = Len(Tail(batch)) * MaxPages + (MaxPages - page + 1) + OtherStatus
         /\ task = "idle" => Ahead = 0
         /\ task \in {"create", "delete"} => Ahead = 1
<1>1. Len(batch) \in Nat
  BY DEF TypeOK
<1>2. OtherStatus \in Nat /\ Len(batch) * MaxPages \in Nat
  BY <1>1, Units DEF OtherStatus
<1>3. MaxPages - page \in Nat /\ MaxPages - page + 1 = (MaxPages - page) + 1
  BY ClientAssumption DEF TypeOK
<1>4. ASSUME task = "runs"
      PROVE  /\ Ahead = (MaxPages - page) * PerPage + PerPage
                        + Len(batch) * MaxPages + OtherStatus
             /\ Ahead \in Nat \ {0}
  <2>1. /\ ((MaxPages - page) + 1) * PerPage = (MaxPages - page) * PerPage + PerPage
        /\ (MaxPages - page) * PerPage \in Nat /\ PerPage \in Nat \ {0}
    BY <1>3, Units
  <2>2. Ahead = (MaxPages - page) * PerPage + PerPage
                + Len(batch) * MaxPages + OtherStatus
    BY <1>3, <1>4, <2>1 DEF Ahead
  <2> QED BY <1>2, <2>1, <2>2
<1>5. ASSUME task = "jobs"
      PROVE  /\ Len(Tail(batch)) \in Nat /\ Len(Tail(batch)) * MaxPages \in Nat
             /\ Ahead = Len(Tail(batch)) * MaxPages + (MaxPages - page + 1) + OtherStatus
             /\ Ahead \in Nat \ {0}
  <2>1. /\ Len(Tail(batch)) \in Nat /\ Len(batch) = Len(Tail(batch)) + 1
    BY <1>5, ElementsOfTail DEF BatchLeft, TypeOK
  <2>2. /\ Len(batch) * MaxPages = Len(Tail(batch)) * MaxPages + MaxPages
        /\ Len(Tail(batch)) * MaxPages \in Nat
    BY <2>1, Units
  <2>3. Ahead = Len(batch) * MaxPages - (page - 1) + OtherStatus
    BY <1>5 DEF Ahead
  <2>4. MaxPages \in Nat /\ page \in Nat
    BY ClientAssumption DEF TypeOK
  <2> DEFINE b == Len(batch) * MaxPages
             t == Len(Tail(batch)) * MaxPages
  <2>5. b = t + MaxPages /\ t \in Nat /\ Ahead = b - (page - 1) + OtherStatus
    BY <2>2, <2>3
  <2> HIDE DEF b, t
  <2>6. Ahead = t + (MaxPages - page + 1) + OtherStatus /\ Ahead \in Nat \ {0}
    BY <1>2, <1>3, <2>4, <2>5
  <2> QED BY <2>1, <2>5, <2>6 DEF t
<1>6. /\ task = "idle" => Ahead = 0
      /\ task \in {"create", "delete"} => Ahead = 1
  BY DEF Ahead
<1> QED BY <1>2, <1>3, <1>4, <1>5, <1>6 DEF TypeOK

(* A step that has less ahead, or another try of the same.                 *)
Shrinks == RequestsLeft' \in Nat /\ RequestsLeft' < RequestsLeft

LEMMA LessAhead ==
  ASSUME TypeOK, BatchLeft, Ahead' \in Nat, Ahead' < Ahead, attempt' = 0
  PROVE  Shrinks
<1>1. Ahead \in Nat /\ attempt \in 0 .. 2
  BY AheadCases DEF TypeOK, Retries
<1>2. /\ RequestsLeft = 3 * Ahead - attempt
      /\ RequestsLeft' = 3 * Ahead'
  <2>1. 3 * Ahead' - 0 = 3 * Ahead'
    OBVIOUS
  <2> QED BY <2>1 DEF RequestsLeft, Retries
<1>3. \A m, n \in Nat, k \in 0 .. 2 : m < n => 3 * m \in Nat /\ 3 * m < 3 * n - k
  OBVIOUS
<1> QED BY <1>1, <1>2, <1>3 DEF Shrinks

LEMMA TriesAgain ==
  ASSUME TypeOK, BatchLeft, task # "idle", attempt < Retries, attempt' = attempt + 1,
         UNCHANGED <<task, step, page, batch>>
  PROVE  Shrinks
<1>1. Ahead' = Ahead
  BY DEF Ahead, OtherStatus
<1>2. Ahead \in Nat \ {0}
  BY AheadCases
<1> QED BY <1>1, <1>2 DEF Shrinks, RequestsLeft, TypeOK, Retries

(* A call that ends has nothing ahead.                                     *)
LEMMA EndsShort ==
  ASSUME TypeOK, BatchLeft, task # "idle", task' = "idle", attempt' = 0
  PROVE  Shrinks
<1>1. Ahead \in Nat \ {0} /\ Ahead' = 0
  BY AheadCases DEF Ahead
<1> QED BY <1>1, LessAhead

(* Going on after the last page of the runs, or of the jobs of one.        *)
LEMMA ProceedShrinks ==
  ASSUME TypeOK, BatchLeft, task # "idle",
         NEW runs \in Seq(Run), NEW seen, Proceed(runs, seen),
         Len(runs) * MaxPages + OtherStatus < Ahead
  PROVE  Shrinks
<1>1. Len(runs) * MaxPages \in Nat /\ OtherStatus \in Nat /\ Ahead \in Nat
  BY Units, AheadCases
<1>2. CASE task' = "jobs"
  <2>1. batch' = runs /\ page' = 1 /\ step' = step /\ attempt' = 0
    BY <1>2 DEF Proceed
  <2>2. Ahead' = Len(runs) * MaxPages - (1 - 1) + OtherStatus
    BY <1>2, <2>1 DEF Ahead, OtherStatus
  <2> QED BY <1>1, <2>1, <2>2, LessAhead
<1>3. CASE task' = "runs"
  <2>1. /\ step = 1 /\ step' = 2 /\ page' = 1 /\ batch' = <<>> /\ attempt' = 0
    BY <1>3 DEF Proceed
  <2>2. MaxPages \in Nat /\ MaxPages - 1 + 1 = MaxPages /\ 0 * MaxPages = 0
    BY ClientAssumption
  <2>3. Len(batch') * MaxPages = 0 /\ OtherStatus' = 0
    BY <2>1, <2>2 DEF OtherStatus
  <2>4. Ahead' = PerStatus
    BY <1>3, <2>1, <2>2, <2>3, Units DEF Ahead
  <2>5. OtherStatus = PerStatus
    BY <2>1 DEF OtherStatus
  <2> QED BY <1>1, <2>1, <2>4, <2>5, LessAhead
<1>4. CASE task' = "idle"
  <2>1. attempt' = 0
    BY DEF Proceed
  <2> QED BY <1>4, <2>1, EndsShort
<1> QED BY <1>2, <1>3, <1>4 DEF Proceed

LEMMA ListRunsShrinks ==
  ASSUME TypeOK, BatchLeft, ListRuns
  PROVE  Shrinks
<1>1. /\ task = "runs" /\ batch \in Seq(Run)
      /\ page \in Nat /\ page <= MaxPages /\ MaxPages \in Nat
  BY ClientAssumption DEF TypeOK, ListRuns
<1>2. PICK s \in [1 .. Cardinality(OnPage) -> OnPage] :
        /\ NewestFirst(s)
        /\ \/ Proceed(batch \o s, observed)
           \/ ~AtLimit /\ NextPage(batch \o s, observed)
           \/ ListingFails
  BY DEF ListRuns
<1> DEFINE runs == batch \o s
           b == Len(batch) * MaxPages
           u == Len(runs) * MaxPages
           rest == (MaxPages - page) * PerPage
<1>3. runs \in Seq(Run) /\ Len(runs) = Len(batch) + Len(s) /\ Len(s) \in 0 .. PageSize
  BY <1>1, <1>2, PageSequence, ElementsJoined, PageHolds
<1>4. b \in Nat /\ u \in Nat /\ u + 1 <= b + PerPage
  <2>1. Len(batch) \in Nat /\ Len(s) \in Nat /\ PageSize - Len(s) \in Nat
        /\ MaxPages \in Nat /\ PageSize \in Nat
    BY <1>1, <1>3, ClientAssumption
  <2>2. u = b + Len(s) * MaxPages
    BY <1>3, <2>1
  <2>3. PageSize * MaxPages = Len(s) * MaxPages + (PageSize - Len(s)) * MaxPages
    BY <2>1
  <2>4. /\ Len(s) * MaxPages \in Nat /\ (PageSize - Len(s)) * MaxPages \in Nat
        /\ b \in Nat
    BY <2>1
  <2>5. PerPage = 1 + PageSize * MaxPages
    BY DEF PerPage
  <2> HIDE DEF b, u
  <2> QED BY <2>2, <2>3, <2>4, <2>5
<1>5. Ahead = rest + PerPage + b + OtherStatus /\ rest \in Nat
      /\ OtherStatus \in Nat /\ PerPage \in Nat
  BY <1>1, AheadCases, Units
<1>6. CASE Proceed(runs, observed)
  <2>1. u + OtherStatus < Ahead
    <3> HIDE DEF u, b, rest
    <3> QED BY <1>4, <1>5
  <2> QED BY <1>1, <1>3, <1>6, <2>1, ProceedShrinks
<1>7. CASE ~AtLimit /\ NextPage(runs, observed)
  <2>1. /\ task' = "runs" /\ page' = page + 1 /\ batch' = runs /\ attempt' = 0
        /\ OtherStatus' = OtherStatus
    BY <1>1, <1>7 DEF NextPage, OtherStatus
  <2>2. /\ MaxPages - page' \in Nat /\ MaxPages - page = (MaxPages - page') + 1
        /\ MaxPages - page' + 1 = MaxPages - page
    BY <1>1, <1>7, <2>1 DEF AtLimit
  <2>3. Ahead' = rest + u + OtherStatus
    BY <2>1, <2>2 DEF Ahead
  <2>4. Ahead' \in Nat /\ Ahead' < Ahead
    <3> HIDE DEF u, b, rest
    <3> QED BY <1>4, <1>5, <2>3
  <2> QED BY <2>1, <2>4, LessAhead
<1>8. CASE ListingFails
  BY <1>1, <1>8, EndsShort DEF ListingFails, Idle
<1> QED BY <1>2, <1>6, <1>7, <1>8 DEF runs

LEMMA ListJobsShrinks ==
  ASSUME TypeOK, BatchLeft, ListJobs
  PROVE  Shrinks
<1> DEFINE t == Len(Tail(batch)) * MaxPages
<1>1. /\ task = "jobs" /\ t \in Nat /\ OtherStatus \in Nat
      /\ Ahead = t + (MaxPages - page + 1) + OtherStatus
  BY AheadCases DEF ListJobs
<1>2. /\ MaxPages - page \in Nat /\ page \in Nat /\ MaxPages \in Nat
  BY ClientAssumption DEF TypeOK
<1>3. CASE Proceed(Tail(batch), SeesJob)
  <2>1. Tail(batch) \in Seq(Run)
    BY <1>1, ElementsOfTail DEF BatchLeft, TypeOK
  <2>2. t + OtherStatus < Ahead
    <3> HIDE DEF t
    <3> QED BY <1>1, <1>2
  <2> QED BY <1>1, <1>3, <2>1, <2>2, ProceedShrinks
<1>4. ASSUME ~AtLimit, NEW seen, NextPage(batch, seen)
      PROVE  Shrinks
  <2>1. /\ task' = "jobs" /\ page' = page + 1 /\ batch' = batch /\ attempt' = 0
        /\ OtherStatus' = OtherStatus
    BY <1>1, <1>4 DEF NextPage, OtherStatus
  <2>2. /\ Ahead = Len(batch) * MaxPages - (page - 1) + OtherStatus
        /\ Ahead' = Len(batch) * MaxPages - ((page + 1) - 1) + OtherStatus
        /\ Len(batch) * MaxPages \in Nat
    BY <1>1, <2>1, AheadCases DEF Ahead
  <2> DEFINE b == Len(batch) * MaxPages
  <2>3. Ahead' = Ahead - 1
    <3>1. /\ Ahead = b - (page - 1) + OtherStatus
          /\ Ahead' = b - ((page + 1) - 1) + OtherStatus /\ b \in Nat
      BY <2>2
    <3> HIDE DEF b, t
    <3> QED BY <1>1, <1>2, <3>1
  <2>4. Ahead \in Nat \ {0}
    BY <1>1, AheadCases
  <2>5. Ahead' \in Nat /\ Ahead' < Ahead
    BY <2>3, <2>4
  <2> QED BY <2>1, <2>5, LessAhead
<1>5. CASE ListingFails
  BY <1>1, <1>5, EndsShort DEF ListingFails, Idle
<1> QED BY <1>3, <1>4, <1>5 DEF ListJobs

(* A request that fails is one of three, or ends the call.                 *)
LEMMA FailureShrinks ==
  ASSUME TypeOK, BatchLeft, task # "idle",
         NEW end \in BOOLEAN, Fails(end), end => Idle
  PROVE  Shrinks
<1>1. CASE /\ attempt < Retries /\ attempt' = attempt + 1
           /\ UNCHANGED <<task, listVars, client>>
  BY <1>1, TriesAgain DEF listVars
<1>2. CASE end
  BY <1>2, EndsShort DEF Idle
<1> QED BY <1>1, <1>2 DEF Fails

LEMMA StepShrinks ==
  ASSUME TypeOK, BatchLeft, [Next]_vars
  PROVE  \/ task = "idle" /\ RequestsLeft' <= (Retries + 1) * 2 * PerStatus
         \/ Shrinks
         \/ UNCHANGED <<callVars, step, page, batch>>
<1>1. CASE StartListing
  <2>1. /\ task = "idle" /\ task' = "runs" /\ attempt' = 0
        /\ step' = 1 /\ page' = 1 /\ batch' = <<>>
    BY <1>1 DEF StartListing
  <2>2. MaxPages - 1 + 1 = MaxPages /\ 0 * MaxPages = 0
    BY ClientAssumption
  <2>3. Len(batch') * MaxPages = 0 /\ OtherStatus' = PerStatus
    BY <2>1, <2>2 DEF OtherStatus, PerStatus
  <2>4. Ahead' = PerStatus + PerStatus /\ PerStatus \in Nat
    BY <2>1, <2>2, <2>3, Units DEF Ahead
  <2>5. RequestsLeft' = 3 * (PerStatus + PerStatus)
    BY <2>1, <2>4 DEF RequestsLeft, Retries
  <2>6. (Retries + 1) * 2 * PerStatus = 3 * (PerStatus + PerStatus)
    BY <2>4 DEF Retries
  <2>7. 3 * (PerStatus + PerStatus) \in Nat
    BY <2>4
  <2> QED BY <2>1, <2>5, <2>6, <2>7
<1>2. CASE StartCreate \/ StartDelete
  <2>1. /\ task = "idle" /\ task' \in {"create", "delete"} /\ attempt' = 0
    BY <1>2 DEF StartCreate, StartDelete
  <2>2. Ahead' = 1
    BY <2>1 DEF Ahead
  <2>3. RequestsLeft' = 3
    BY <2>1, <2>2 DEF RequestsLeft, Retries
  <2>4. PerStatus \in Nat \ {0}
    BY Units, ClientAssumption DEF PerStatus
  <2>5. 3 <= (Retries + 1) * 2 * PerStatus
    BY <2>4 DEF Retries
  <2> QED BY <2>1, <2>3, <2>5
<1>3. CASE ListRuns
  BY <1>3, ListRunsShrinks
<1>4. CASE ListJobs
  BY <1>4, ListJobsShrinks
<1>5. CASE ListingRequestFails
  BY <1>5, FailureShrinks DEF ListingRequestFails, ListingFails
<1>6. CASE Create \/ Delete
  <2>1. task \in {"create", "delete"} /\ Idle
    BY <1>6 DEF Create, Delete, Ends
  <2> QED BY <2>1, EndsShort DEF Idle
<1>7. CASE CreateFails \/ DeleteFails
  BY <1>7, FailureShrinks DEF CreateFails, DeleteFails, Ends
<1>8. CASE NextRunner \/ RunnerEnds \/ (\E r \in Run : RunChanges(r)) \/ UNCHANGED vars
  BY <1>8 DEF NextRunner, RunnerEnds, RunChanges, vars, callVars, listVars
<1> QED BY <1>1, <1>2, <1>3, <1>4, <1>5, <1>6, <1>7, <1>8 DEF Next

(* However many runs GitHub has and however its lists grow while they are  *)
(* read, a call makes a bounded number of requests, each three times at    *)
(* most (client.go:189-210, 221-240, 301-318, participant.go:102-129).      *)
THEOREM CallsBounded == Spec => RequestsBounded
<1>1. ASSUME IInv, [Next]_vars
      PROVE  [\/ task = "idle" /\ RequestsLeft' <= (Retries + 1) * 2 * PerStatus
              \/ RequestsLeft' \in Nat /\ RequestsLeft' < RequestsLeft
              \/ UNCHANGED <<callVars, step, page, batch>>]_vars
  BY <1>1, StepShrinks DEF Shrinks, IInv
<1> QED BY <1>1, IInvariance, PTL DEF Spec, RequestsBounded

-----------------------------------------------------------------------------
(* The registration as the service sees it. *)

LEMMA InitRefines == Init => R!Init
BY DEF Init, R!Init

(* Every request about a runner is one step of the registration, or none.  *)
LEMMA RunnerCallsRefine ==
  ASSUME IInv, RunnerCalls
  PROVE  R!Next \/ UNCHANGED <<runner, client>>
<1> USE DEF IInv, TypeOK, CallsOrdered
<1>1. CASE StartCreate \/ StartDelete
  BY <1>1 DEF StartCreate, StartDelete, runnerVars
<1>2. CASE Create
  BY <1>2 DEF Create, Ends, R!Next, R!Obtain, R!Refuse
<1>3. CASE CreateFails
  <2>1. client' = client \/ client' = "failed"
    BY <1>3, FailsCases DEF CreateFails, Ends
  <2>2. client = "none" /\ runner' \in {runner, "present"}
    BY <1>3 DEF CreateFails, Effect
  <2> QED BY <2>1, <2>2 DEF R!Next, R!Appear, R!Refuse
<1>4. CASE Delete
  BY <1>4 DEF Delete, Ends, R!Next, R!Release
<1>5. CASE DeleteFails
  <2>1. client' = client \/ client' = "unreleased"
    BY <1>5, FailsCases DEF DeleteFails, Ends
  <2>2. client = "held" /\ runner' \in {runner, "absent"}
    BY <1>5 DEF DeleteFails, Effect
  <2> QED BY <2>1, <2>2 DEF R!Next, R!Vanish, R!GiveUp
<1>6. CASE NextRunner
  BY <1>6 DEF NextRunner, R!Next, R!Forget
<1>7. CASE RunnerEnds
  BY <1>7 DEF RunnerEnds, R!Next, R!Vanish
<1> QED BY <1>1, <1>2, <1>3, <1>4, <1>5, <1>6, <1>7 DEF RunnerCalls

LEMMA StepRefines ==
  ASSUME IInv, [Next]_vars
  PROVE  [R!Next]_(R!vars)
<1>1. CASE RunnerCalls
  BY <1>1, RunnerCallsRefine DEF R!vars
<1>2. CASE StartListing \/ ListRuns \/ ListJobs \/ ListingRequestFails
           \/ \E r \in Run : RunChanges(r)
  <2>1. runner' = runner
    BY <1>2 DEF StartListing, ListRuns, ListJobs, ListingRequestFails,
                RunChanges, runnerVars
  <2>2. client' = client
    BY <1>2 DEF StartListing, ListRuns, ListJobs, ListingRequestFails,
                RunChanges, runnerVars, ListingFails, Fails
  <2> QED BY <2>1, <2>2 DEF R!vars
<1>3. CASE UNCHANGED vars
  BY <1>3 DEF vars, runnerVars, R!vars
<1> QED BY <1>1, <1>2, <1>3 DEF Next, RunnerCalls

(* However often its requests are sent and whatever replies are lost, the  *)
(* client makes one registration at most and reports it as it is           *)
(* (client.go:215-247 and 301-381, participant.go:171-199).                *)
THEOREM Refinement == Spec => RegistrationSpec
BY InitRefines, StepRefines, IInvariance, PTL DEF Spec, RegistrationSpec, R!Spec

=============================================================================
