--------------------------- MODULE DispatchProofs ---------------------------
(***************************************************************************)
(* Proofs about Dispatch, for any number of participants, jobs and names   *)
(* of runners, any capacity and, but for the processes (Visible) and the   *)
(* registrations (Calm), every combination of faults.                      *)
(***************************************************************************)
EXTENDS Dispatch, FiniteSetTheorems, TLAPS

USE DEF Slotted, Underway

IsFun(f, S) == f = [x \in S |-> f[x]]

Polls == {"tick", "observe", "offer", "fetched", "create", "insert"}

\* One more set in a union.
LEMMA UnionWith ==
  ASSUME NEW f, NEW S, NEW x
  PROVE  UNION {f[y] : y \in S \cup {x}} = (UNION {f[y] : y \in S}) \cup f[x]
<1>1. ASSUME NEW e \in UNION {f[y] : y \in S \cup {x}}
      PROVE  e \in (UNION {f[y] : y \in S}) \cup f[x]
  <2>1. PICK s \in {f[y] : y \in S \cup {x}} : e \in s
    BY <1>1
  <2>2. s = f[x] \/ s \in {f[y] : y \in S}
    BY <2>1
  <2> QED BY <2>1, <2>2
<1>2. ASSUME NEW e \in (UNION {f[y] : y \in S}) \cup f[x]
      PROVE  e \in UNION {f[y] : y \in S \cup {x}}
  <2>1. CASE e \in f[x]
    <3>1. f[x] \in {f[y] : y \in S \cup {x}}
      OBVIOUS
    <3> QED BY <2>1, <3>1
  <2>2. CASE e \in UNION {f[y] : y \in S}
    <3>1. PICK s \in {f[y] : y \in S} : e \in s
      BY <2>2
    <3>2. s \in {f[y] : y \in S \cup {x}}
      BY <3>1
    <3> QED BY <3>1, <3>2
  <2> QED BY <1>2, <2>1, <2>2
<1> QED BY <1>1, <1>2

(* What the proof needs of the types; of the sequences no more than that   *)
(* each participant has one.                                               *)
Shape ==
  /\ owner \in [Runner -> SUBSET Participant]
  /\ IsFun(prompt, Runner)
  /\ stage \in [Runner -> Stage]
  /\ proc \in [Runner -> {"none", "idle", "busy", "gone"}]
  /\ poll \in [Participant -> Polls]
  /\ IsFun(queue, Participant)
  /\ IsFun(active, Participant)
  /\ local \in [Participant -> Nat]
  /\ recovered \in [Participant -> Nat]

\* Updating one place of a function.
LEMMA Updated ==
  ASSUME NEW S, NEW f, IsFun(f, S), NEW x \in S, NEW v,
         NEW g, g = [f EXCEPT ![x] = v]
  PROVE  IsFun(g, S) /\ g[x] = v /\ \A y \in S : y # x => g[y] = f[y]
BY DEF IsFun

-----------------------------------------------------------------------------
(* The invariant. *)

\* The registration that waits for its place, and the lifecycles whose Run
\* holds a slot of the manager.
Waiting(p) == {r \in Of(p) : stage[r] = "created"}
Slots(p) == {r \in Lifecycles(p) : stage[r] \in Slotted}

(* Every lifecycle, and the registration about to get one, was prompted by *)
(* one job, and no two lifecycles by the same.                             *)
OneJobEach(p) ==
  /\ \A r \in Lifecycles(p) \cup Waiting(p) : \E j : prompt[r] = {j}
  /\ \A r, s \in Lifecycles(p) : prompt[r] = prompt[s] => r = s

LedgerOf(p) ==
  /\ active[p] = UNION {prompt[r] : r \in Lifecycles(p)}
  /\ IsFiniteSet(active[p])
  /\ Cardinality(active[p]) = Cardinality(Lifecycles(p))
  /\ Cardinality(active[p]) <= Capacity
  /\ local[p] = Cardinality(Slots(p))

(* A registration that waits belongs to the job that its poll is at, and   *)
(* is the only one.                                                        *)
Creators(p) ==
  /\ \A r \in Waiting(p) : poll[p] = "insert" /\ prompt[r] = {Head(queue[p])}
  /\ \A r, s \in Waiting(p) : r = s

(* What the checks of a poll found still holds when it comes to the next   *)
(* one: only the poll itself adds to Service.active.                       *)
Offers(p) ==
  /\ poll[p] \in {"fetched", "create", "insert"} => Head(queue[p]) \notin active[p]
  /\ poll[p] \in {"create", "insert"} => Cardinality(active[p]) < Capacity

(* No process is out of the manager's sight: none survives its termination *)
(* or the death of its participant before it is in a manifest, and the     *)
(* state directory can be read.                                            *)
Visible == Faults \cap {"terminate", "launch_window", "readdir", "unread"} = {}

(* If so, once a participant polls, the recovered runners are counted.     *)
Counted(p) ==
  Visible /\ (poll[p] # "tick" \/ Lifecycles(p) # {})
    => Cardinality(Recovered(p)) <= recovered[p]

(* There is room for the runners with a slot and the recovered together.   *)
Occupied(p) == Slots(p) \cup Recovered(p)
Room(p) == Visible => Cardinality(Occupied(p)) <= Capacity

Sound(p) ==
  /\ OneJobEach(p) /\ LedgerOf(p) /\ Creators(p) /\ Offers(p)
  /\ Counted(p) /\ Room(p)

(* A process belongs to a Run, or to one that died with its participant.   *)
AliveStaged ==
  Visible => \A r \in Runner : Alive(r) => stage[r] \in Slotted \cup {"lost", "kept"}

IInv == Shape /\ AliveStaged /\ \A p \in Participant : Sound(p)

-----------------------------------------------------------------------------
(* Finite sets of runners. *)

LEMMA FiniteParts ==
  ASSUME NEW S \in SUBSET Runner
  PROVE  IsFiniteSet(S) /\ Cardinality(S) \in Nat
BY DispatchAssumption, FS_Subset, FS_CardinalityType

LEMMA Monotone ==
  ASSUME NEW T \in SUBSET Runner, NEW S \in SUBSET T
  PROVE  Cardinality(S) <= Cardinality(T)
BY FiniteParts, FS_Subset

LEMMA RunnerSets ==
  ASSUME NEW p
  PROVE  /\ Lifecycles(p) \in SUBSET Runner /\ Slots(p) \in SUBSET Lifecycles(p)
         /\ Slots(p) \in SUBSET Runner /\ Recovered(p) \in SUBSET Runner
         /\ Occupied(p) \in SUBSET Runner
         /\ Lifecycles(p)' \in SUBSET Runner /\ Slots(p)' \in SUBSET Runner
         /\ Recovered(p)' \in SUBSET Runner /\ Occupied(p)' \in SUBSET Runner
BY DEF Of, Lifecycles, Slots, Recovered, Occupied

-----------------------------------------------------------------------------
(* Steps that leave the runners of a participant where they are. *)

SetsSame(p) ==
  /\ Lifecycles(p)' = Lifecycles(p) /\ Slots(p)' = Slots(p)
  /\ Waiting(p)' = Waiting(p) /\ Recovered(p)' \subseteq Recovered(p)
  /\ \A r \in Lifecycles(p) \cup Waiting(p) : prompt'[r] = prompt[r]

LedgersSame(p) == active'[p] = active[p] /\ local'[p] = local[p]

PollSame(p) ==
  poll'[p] = poll[p] /\ queue'[p] = queue[p] /\ recovered'[p] = recovered[p]

(* A runner stays in the sets that it is in; a recovered one may end.      *)
SameSets(r) ==
  /\ stage'[r] \in Underway <=> stage[r] \in Underway
  /\ stage'[r] \in Slotted <=> stage[r] \in Slotted
  /\ stage'[r] = "created" <=> stage[r] = "created"
  /\ stage'[r] \in {"lost", "kept"} /\ Alive(r)'
       => stage'[r] = stage[r] /\ Alive(r)

LEMMA SetsKept ==
  ASSUME NEW p, owner' = owner, prompt' = prompt,
         \A r \in Of(p) : SameSets(r)
  PROVE  SetsSame(p)
<1>1. Of(p)' = Of(p)
  BY DEF Of
<1>2. Lifecycles(p)' = Lifecycles(p)
  BY <1>1 DEF Lifecycles, SameSets
<1>3. Slots(p)' = Slots(p)
  <2>1. \A r \in Lifecycles(p) :
          stage'[r] \in Slotted <=> stage[r] \in Slotted
    BY DEF Lifecycles, SameSets
  <2> QED BY <1>2, <2>1 DEF Slots
<1>4. Waiting(p)' = Waiting(p)
  BY <1>1 DEF Waiting, SameSets
<1>5. Recovered(p)' \subseteq Recovered(p)
  BY <1>1 DEF Recovered, SameSets
<1> QED BY <1>2, <1>3, <1>4, <1>5 DEF SetsSame

LEMMA LedgerKept ==
  ASSUME NEW p, OneJobEach(p), LedgerOf(p), Room(p), SetsSame(p),
         LedgersSame(p)
  PROVE  OneJobEach(p)' /\ LedgerOf(p)' /\ Room(p)'
<1>1. \A r \in Lifecycles(p) : prompt'[r] = prompt[r]
  BY DEF SetsSame
<1>2. OneJobEach(p)'
  BY DEF SetsSame, OneJobEach
<1>3. UNION {prompt'[r] : r \in Lifecycles(p)'} = UNION {prompt[r] : r \in Lifecycles(p)}
  BY <1>1 DEF SetsSame
<1>4. LedgerOf(p)'
  BY <1>3 DEF SetsSame, LedgersSame, LedgerOf
<1>5. Occupied(p)' \in SUBSET Occupied(p)
  BY DEF SetsSame, Occupied
<1>6. Room(p)'
  <2>1. Cardinality(Occupied(p)') <= Cardinality(Occupied(p))
    BY <1>5, RunnerSets, Monotone
  <2>2. Cardinality(Occupied(p)') \in Nat /\ Cardinality(Occupied(p)) \in Nat
    BY RunnerSets, FiniteParts
  <2> QED BY <2>1, <2>2, DispatchAssumption DEF Room
<1> QED BY <1>2, <1>4, <1>6

LEMMA RecoveredKept ==
  ASSUME NEW p, SetsSame(p), NEW n \in Nat, Cardinality(Recovered(p)) <= n
  PROVE  Cardinality(Recovered(p)') <= n
<1>1. Cardinality(Recovered(p)') <= Cardinality(Recovered(p))
  BY RunnerSets, Monotone DEF SetsSame
<1>2. Cardinality(Recovered(p)') \in Nat /\ Cardinality(Recovered(p)) \in Nat
  BY RunnerSets, FiniteParts
<1> QED BY <1>1, <1>2

(* What a step leaves alone stays sound.                                   *)
LEMMA Untouched ==
  ASSUME NEW p \in Participant, Shape, Sound(p), SetsSame(p), LedgersSame(p),
         PollSame(p)
  PROVE  Sound(p)'
<1>1. OneJobEach(p)' /\ LedgerOf(p)' /\ Room(p)'
  BY LedgerKept DEF Sound
<1>2. Creators(p)'
  BY DEF Sound, Creators, SetsSame, PollSame
<1>3. Offers(p)'
  BY DEF Sound, Offers, LedgersSame, PollSame
<1>4. Counted(p)'
  <2>1. recovered[p] \in Nat
    BY DEF Shape
  <2> QED BY <2>1, RecoveredKept DEF Sound, Counted, SetsSame, PollSame
<1> QED BY <1>1, <1>2, <1>3, <1>4 DEF Sound

(* A poll that goes on, not from or to the recording of a registration.    *)
LEMMA PollGoesOn ==
  ASSUME NEW p \in Participant, Shape, Sound(p), SetsSame(p), LedgersSame(p),
         poll[p] \notin {"tick", "insert"}, recovered'[p] = recovered[p],
         Offers(p)'
  PROVE  Sound(p)'
<1>1. OneJobEach(p)' /\ LedgerOf(p)' /\ Room(p)'
  BY LedgerKept DEF Sound
<1>2. Creators(p)'
  BY DEF Sound, Creators, SetsSame
<1>3. Counted(p)'
  <2>1. recovered[p] \in Nat
    BY DEF Shape
  <2> QED BY <2>1, RecoveredKept DEF Sound, Counted, SetsSame
<1> QED BY <1>1, <1>2, <1>3 DEF Sound

-----------------------------------------------------------------------------
LEMMA InitIInv == Init => IInv
<1> SUFFICES ASSUME Init PROVE IInv
  OBVIOUS
<1>1. Shape
  BY DEF Init, Shape, IsFun, Stage, Polls
<1>2. AliveStaged
  BY DEF Init, AliveStaged, Alive
<1>3. ASSUME NEW p \in Participant PROVE Sound(p)
  <2>1. Of(p) = {}
    BY DEF Init, Of
  <2>2. /\ Lifecycles(p) = {} /\ Slots(p) = {} /\ Waiting(p) = {}
        /\ Recovered(p) = {} /\ Occupied(p) = {}
    BY <2>1 DEF Lifecycles, Slots, Waiting, Recovered, Occupied
  <2>3. IsFiniteSet({}) /\ Cardinality({}) = 0
    BY FS_EmptySet
  <2>4. active[p] = {} /\ local[p] = 0 /\ recovered[p] = 0 /\ poll[p] = "tick"
    BY DEF Init
  <2>5. Capacity \in Nat
    BY DispatchAssumption
  <2>6. LedgerOf(p)
    BY <2>2, <2>3, <2>4, <2>5 DEF LedgerOf
  <2> QED BY <2>2, <2>3, <2>4, <2>5, <2>6
          DEF Sound, OneJobEach, Creators, Offers, Counted, Room
<1> QED BY <1>1, <1>2, <1>3 DEF IInv

-----------------------------------------------------------------------------
(* Steps of GitHub, of processes and of lifecycles that keep their slot or *)
(* have none.                                                              *)

LEMMA QuietIInv ==
  ASSUME IInv,
         UNCHANGED <<owner, prompt, poll, queue, active, local, recovered>>,
         stage' \in [Runner -> Stage],
         proc' \in [Runner -> {"none", "idle", "busy", "gone"}],
         \A r \in Runner : SameSets(r),
         AliveStaged'
  PROVE  IInv'
<1>1. Shape'
  BY DEF IInv, Shape, IsFun
<1>2. ASSUME NEW p \in Participant PROVE Sound(p)'
  <2>1. \A r \in Of(p) : SameSets(r)
    BY DEF Of
  <2>2. SetsSame(p)
    BY <2>1, SetsKept
  <2> QED BY <2>2, Untouched DEF IInv, LedgersSame, PollSame
<1> QED BY <1>1, <1>2 DEF IInv

(* Jobs, requests that read, time and interruptions.                       *)
Reads ==
  \/ \E j \in Job : Submit(j) \/ Cancel(j) \/ Abandon(j)
  \/ \E p \in Participant : Ripen(p) \/ Interrupt(p)
  \/ \E p \in Participant, j \in Job : Observe(p, j) \/ ObserveAgain(p, j)
  \/ \E r \in Runner : Watch(r)

LEMMA ReadsIInv ==
  ASSUME IInv, Reads
  PROVE  IInv'
<1>1. UNCHANGED <<owner, prompt, poll, queue, active, local, recovered, stage, proc>>
  BY DEF Reads, Submit, Cancel, Abandon, Ripen, Interrupt, Observe,
         ObserveAgain, Watch, runnerVars, pollVars, slotVars
<1>2. \A r \in Runner : SameSets(r)
  BY <1>1 DEF SameSets, Alive
<1>3. AliveStaged'
  BY <1>1 DEF IInv, AliveStaged, Alive
<1> QED BY <1>1, <1>2, <1>3, QuietIInv DEF IInv, Shape

(* A runner is given a job, or its process ends.                           *)
LEMMA ProcessIInv ==
  ASSUME IInv, NEW r \in Runner, Quit(r) \/ \E j \in Job : Assign(j, r) \/ Finish(j, r)
  PROVE  IInv'
<1>1. UNCHANGED <<owner, prompt, poll, queue, active, local, recovered, stage>>
  BY DEF Quit, Assign, Finish, pollVars, slotVars
<1>2. \E v \in {"busy", "gone"} : proc' = [proc EXCEPT ![r] = v]
  BY DEF Quit, Assign, Finish
<1>3. proc[r] \in {"idle", "busy"}
  BY DEF Quit, Assign, Finish
<1>4. proc' \in [Runner -> {"none", "idle", "busy", "gone"}]
  BY <1>2 DEF IInv, Shape
<1>5. \A s \in Runner : Alive(s)' => Alive(s)
  BY <1>2, <1>3 DEF Alive, IInv, Shape
<1>6. \A s \in Runner : SameSets(s)
  BY <1>1, <1>5 DEF SameSets
<1>7. AliveStaged'
  BY <1>1, <1>5 DEF IInv, AliveStaged
<1> QED BY <1>1, <1>4, <1>6, <1>7, QuietIInv DEF IInv, Shape

(* A Run is refused, its process or the assignment is in the manifest, or  *)
(* the registration is removed.                                            *)
LEMMA StagesIInv ==
  ASSUME IInv, NEW r \in Runner,
         \/ RunRecords(r) \/ RunAssigned(r) \/ Delete(r)
         \/ \E p \in Participant : RunRefused(p, r)
  PROVE  IInv'
<1>1. UNCHANGED <<owner, prompt, poll, queue, active, local, recovered, proc>>
  BY DEF RunRecords, RunAssigned, Delete, RunRefused, pollVars, slotVars
<1>2. /\ stage \in [Runner -> Stage]
      /\ \/ stage[r] = "launched" /\ stage' = [stage EXCEPT ![r] = "running"]
         \/ stage[r] = "running" /\ stage' = [stage EXCEPT ![r] = "settled"]
         \/ stage[r] = "ended" /\ stage' = [stage EXCEPT ![r] = "deleted"]
         \/ stage[r] = "spawned" /\ stage' = [stage EXCEPT ![r] = "ended"]
  BY DEF RunRecords, RunAssigned, Delete, RunRefused, Move, IInv, Shape
<1>3. stage' \in [Runner -> Stage]
  BY <1>2 DEF Stage
<1>4. \A s \in Runner : SameSets(s)
  BY <1>1, <1>2 DEF SameSets, Alive
<1>5. AliveStaged'
  BY <1>1, <1>2 DEF IInv, AliveStaged, Alive
<1> QED BY <1>1, <1>3, <1>4, <1>5, QuietIInv DEF IInv, Shape

-----------------------------------------------------------------------------
(* The poll loop, but for the registrations. *)

(* Capacity that is free is not taken by the jobs in Service.active.       *)
LEMMA UsedCounts ==
  ASSUME NEW p \in Participant, Shape, LedgerOf(p), Used(p) < Capacity
  PROVE  Cardinality(active[p]) < Capacity
<1>1. Cardinality(active[p]) \in Nat
  BY FS_CardinalityType DEF LedgerOf
<1>2. local[p] \in Nat /\ recovered[p] \in Nat /\ Capacity \in Nat
  BY DispatchAssumption DEF Shape
<1> QED BY <1>1, <1>2 DEF Used

PollMoves(p) ==
  \/ PollFails(p) \/ Claim(p) \/ ClaimAnew(p) \/ Skip(p) \/ Fetch(p)
  \/ Recheck(p) \/ PollDone(p)

LEMMA PollMovesIInv ==
  ASSUME IInv, NEW p \in Participant, PollMoves(p)
  PROVE  IInv'
<1>1. UNCHANGED <<owner, prompt, stage, proc, active, local, recovered>>
  BY DEF PollMoves, PollFails, Claim, ClaimAnew, ClaimWith, Skip, Fetch, Recheck, PollDone,
         runnerVars, slotVars
<1>2. \/ poll' = poll
      \/ \E to \in {"tick", "offer", "fetched", "create"} :
           poll' = [poll EXCEPT ![p] = to]
  BY DEF PollMoves, PollFails, Claim, ClaimAnew, ClaimWith, Skip, Fetch, Recheck, PollDone, Goto
<1>3. queue' = queue \/ \E v : queue' = [queue EXCEPT ![p] = v]
  BY DEF PollMoves, PollFails, Claim, ClaimAnew, ClaimWith, Skip, Fetch, Recheck, PollDone, Pop
<1>4. /\ IsFun(queue', Participant)
      /\ \A q \in Participant : q # p => queue'[q] = queue[q] /\ poll'[q] = poll[q]
      /\ poll' \in [Participant -> Polls]
  BY <1>2, <1>3, Updated DEF IInv, Shape, Polls
<1>5. Shape'
  BY <1>1, <1>4 DEF IInv, Shape, IsFun
<1>6. AliveStaged'
  BY <1>1 DEF IInv, AliveStaged, Alive
<1>7. ASSUME NEW q \in Participant PROVE SetsSame(q) /\ LedgersSame(q)
  <2>1. \A r \in Of(q) : SameSets(r)
    BY <1>1 DEF SameSets, Alive
  <2> QED BY <1>1, <2>1, SetsKept DEF LedgersSame
<1>8. ASSUME NEW q \in Participant, q # p PROVE Sound(q)'
  BY <1>1, <1>4, <1>7, <1>8, Untouched DEF IInv, PollSame
<1>9. Sound(p)'
  <2>1. poll[p] \notin {"tick", "insert"}
    BY DEF PollMoves, PollFails, Claim, ClaimAnew, ClaimWith, Skip, Fetch, Recheck, PollDone, Goto
  <2>2. Offers(p)'
    <3>1. CASE PollFails(p) \/ Claim(p) \/ ClaimAnew(p) \/ PollDone(p)
      <4>1. poll'[p] \in {"tick", "offer"}
        BY <3>1 DEF PollFails, Claim, ClaimAnew, ClaimWith, PollDone, Goto, IInv, Shape
      <4> QED BY <4>1 DEF Offers
    <3>2. CASE Skip(p)
      <4>1. poll'[p] = "offer"
        BY <3>2 DEF Skip
      <4> QED BY <4>1 DEF Offers
    <3>3. CASE Fetch(p)
      <4>1. \/ poll'[p] = "offer"
            \/ /\ poll'[p] = "fetched" /\ queue' = queue
               /\ Head(queue[p]) \notin active[p]
        BY <3>3 DEF Fetch, Goto, Skipped, IInv, Shape
      <4> QED BY <1>1, <4>1 DEF Offers
    <3>4. CASE Recheck(p)
      <4>1. poll[p] = "fetched"
        BY <3>4 DEF Recheck, Goto
      <4>2. \/ poll'[p] = "offer"
            \/ poll'[p] = "create" /\ queue' = queue /\ Used(p) < Capacity
        BY <3>4 DEF Recheck, Goto, IInv, Shape
      <4>3. Used(p) < Capacity => Cardinality(active[p]) < Capacity
        BY UsedCounts DEF IInv, Sound
      <4> QED BY <1>1, <4>1, <4>2, <4>3 DEF Offers, IInv, Sound
    <3> QED BY <3>1, <3>2, <3>3, <3>4 DEF PollMoves
  <2> QED BY <1>1, <1>7, <2>1, <2>2, PollGoesOn DEF IInv
<1> QED BY <1>5, <1>6, <1>8, <1>9 DEF IInv

(* The manager counts the recovered runners that it leaves alive.          *)
LEMMA PollStartIInv ==
  ASSUME IInv, NEW p \in Participant, PollStart(p)
  PROVE  IInv'
<1>1. UNCHANGED <<owner, prompt, queue, active, local>>
      /\ poll[p] = "tick" /\ poll' = [poll EXCEPT ![p] = "observe"]
  BY DEF PollStart, Goto
<1>2. PICK U \in SUBSET Recovered(p), K \in SUBSET {r \in Recovered(p) : stage[r] = "lost"} :
        /\ U # {} => "unread" \in Faults
        /\ stage' = [r \in Runner |-> IF r \in U THEN "unseen" ELSE stage[r]]
        /\ proc' = [r \in Runner |-> IF r \in K THEN "gone" ELSE proc[r]]
        /\ recovered' = [recovered EXCEPT ![p] = CountLeft(p, K \cup U)]
  BY DEF PollStart
<1>3. Recovered(p) \ (K \cup U) \in SUBSET Runner
  BY RunnerSets
<1>4. CountLeft(p, K \cup U) \in Nat
  BY <1>3, FiniteParts DEF CountLeft
<1>5. \A r \in Runner : Alive(r)' => Alive(r) /\ r \notin K
  BY <1>2 DEF Alive
<1>6. Shape'
  <2>1. poll' \in [Participant -> Polls]
    BY <1>1 DEF IInv, Shape, Polls
  <2>2. recovered' \in [Participant -> Nat]
    BY <1>2, <1>4 DEF IInv, Shape
  <2>3. proc' \in [Runner -> {"none", "idle", "busy", "gone"}]
    BY <1>2 DEF IInv, Shape
  <2>4. stage' \in [Runner -> Stage]
    BY <1>2 DEF IInv, Shape, Stage
  <2> QED BY <1>1, <2>1, <2>2, <2>3, <2>4 DEF IInv, Shape, IsFun
<1>7. AliveStaged'
  <2>1. Visible => stage' = stage
    BY <1>2 DEF Visible, IInv, Shape
  <2> QED BY <1>5, <2>1 DEF IInv, AliveStaged
<1>8. ASSUME NEW q \in Participant PROVE SetsSame(q) /\ LedgersSame(q)
  <2>1. \A r \in Of(q) : SameSets(r)
    BY <1>2, <1>5 DEF SameSets, Of, Recovered
  <2> QED BY <1>1, <2>1, SetsKept DEF LedgersSame
<1>9. ASSUME NEW q \in Participant, q # p PROVE Sound(q)'
  <2>1. PollSame(q)
    BY <1>1, <1>2, <1>9 DEF PollSame, IInv, Shape
  <2> QED BY <1>8, <2>1, Untouched DEF IInv
<1>10. Sound(p)'
  <2>1. OneJobEach(p)' /\ LedgerOf(p)' /\ Room(p)'
    BY <1>8, LedgerKept DEF IInv, Sound
  <2>2. poll'[p] = "observe" /\ recovered'[p] = CountLeft(p, K \cup U)
    BY <1>1, <1>2 DEF IInv, Shape
  <2>3. Creators(p)'
    BY <1>1, <1>8 DEF IInv, Sound, Creators, SetsSame
  <2>4. Offers(p)'
    BY <2>2 DEF Offers
  <2>5. Counted(p)'
    <3>1. Recovered(p)' \in SUBSET (Recovered(p) \ (K \cup U))
      BY <1>1, <1>2, <1>5 DEF Recovered, Of
    <3>2. Cardinality(Recovered(p)') <= CountLeft(p, K \cup U)
      BY <1>3, <3>1, Monotone DEF CountLeft
    <3> QED BY <2>2, <3>2 DEF Counted
  <2> QED BY <2>1, <2>3, <2>4, <2>5 DEF Sound
<1> QED BY <1>6, <1>7, <1>9, <1>10 DEF IInv

(* A poll that goes on without the count, and counts for nothing here.     *)
LEMMA PollUncountedIInv ==
  ASSUME IInv, NEW p \in Participant, PollUncounted(p)
  PROVE  IInv'
<1>1. /\ UNCHANGED <<owner, prompt, stage, proc, queue, active, local, recovered>>
      /\ poll[p] = "tick" /\ poll' = [poll EXCEPT ![p] = "observe"]
      /\ ~Visible
  BY DEF PollUncounted, Goto, Visible, runnerVars, slotVars
<1>2. Shape'
  <2>1. poll' \in [Participant -> Polls]
    BY <1>1 DEF IInv, Shape, Polls
  <2> QED BY <1>1, <2>1 DEF IInv, Shape, IsFun
<1>3. AliveStaged'
  BY <1>1 DEF AliveStaged, Visible
<1>4. ASSUME NEW q \in Participant PROVE SetsSame(q) /\ LedgersSame(q)
  <2>1. \A r \in Of(q) : SameSets(r)
    BY <1>1 DEF SameSets, Alive
  <2> QED BY <1>1, <2>1, SetsKept DEF LedgersSame
<1>5. ASSUME NEW q \in Participant, q # p PROVE Sound(q)'
  <2>1. PollSame(q)
    BY <1>1, <1>5 DEF PollSame, IInv, Shape
  <2> QED BY <1>4, <2>1, Untouched DEF IInv
<1>6. Sound(p)'
  <2>1. OneJobEach(p)' /\ LedgerOf(p)' /\ Room(p)'
    BY <1>4, LedgerKept DEF IInv, Sound
  <2>2. poll'[p] = "observe"
    BY <1>1 DEF IInv, Shape
  <2>3. Creators(p)'
    BY <1>1, <1>4 DEF IInv, Sound, Creators, SetsSame
  <2>4. Offers(p)' /\ Counted(p)'
    BY <1>1, <2>2 DEF Offers, Counted, Visible
  <2> QED BY <2>1, <2>3, <2>4 DEF Sound
<1> QED BY <1>2, <1>3, <1>5, <1>6 DEF IInv

-----------------------------------------------------------------------------
(* Registrations. *)

(* A name that is used again was in none of the sets.                      *)
LEMMA RegisterIInv ==
  ASSUME IInv, NEW p \in Participant, NEW r \in Runner,
         NEW s \in {"created", "orphan"}, Register(p, r, s),
         poll[p] = "create", UNCHANGED <<active, local, recovered>>,
         \/ s = "created" /\ poll' = [poll EXCEPT ![p] = "insert"] /\ queue' = queue
         \/ /\ s = "orphan" /\ poll' = [poll EXCEPT ![p] = "tick"]
            /\ queue' = [queue EXCEPT ![p] = <<>>]
  PROVE  IInv'
<1>1. /\ stage[r] \in {"none", "orphan", "lost", "kept", "unseen"} /\ ~Alive(r)
      /\ owner' = [owner EXCEPT ![r] = {p}]
      /\ prompt' = [prompt EXCEPT ![r] = {Head(queue[p])}]
      /\ stage' = [stage EXCEPT ![r] = s]
      /\ proc' = [proc EXCEPT ![r] = "none"]
  BY DEF Register, Fresh
<1>2. /\ \A x \in Runner : x # r => /\ owner'[x] = owner[x] /\ prompt'[x] = prompt[x]
                                   /\ stage'[x] = stage[x] /\ proc'[x] = proc[x]
      /\ owner'[r] = {p} /\ prompt'[r] = {Head(queue[p])} /\ stage'[r] = s
      /\ proc'[r] = "none" /\ IsFun(prompt', Runner)
  <2>1. IsFun(prompt, Runner)
    BY DEF IInv, Shape
  <2>2. /\ IsFun(prompt', Runner) /\ prompt'[r] = {Head(queue[p])}
        /\ \A x \in Runner : x # r => prompt'[x] = prompt[x]
    <3>1. prompt' = [prompt EXCEPT ![r] = {Head(queue[p])}]
      BY <1>1
    <3> QED BY <2>1, <3>1 DEF IsFun
  <2> QED BY <1>1, <2>2 DEF IInv, Shape
<1>3. /\ IsFun(queue', Participant) /\ poll' \in [Participant -> Polls]
      /\ \A q \in Participant : q # p => poll'[q] = poll[q] /\ queue'[q] = queue[q]
  <2>1. queue' = queue \/ queue' = [queue EXCEPT ![p] = <<>>]
    OBVIOUS
  <2>2. IsFun(queue, Participant) /\ poll \in [Participant -> Polls]
    BY DEF IInv, Shape
  <2>3. /\ IsFun(queue', Participant)
        /\ \A q \in Participant : q # p => queue'[q] = queue[q]
    BY <2>1, <2>2, Updated
  <2> QED BY <2>2, <2>3 DEF Polls
<1>4. Shape'
  <2>1. owner' \in [Runner -> SUBSET Participant]
    BY <1>1 DEF IInv, Shape
  <2>2. stage' \in [Runner -> Stage]
    BY <1>1 DEF IInv, Shape, Stage
  <2>3. proc' \in [Runner -> {"none", "idle", "busy", "gone"}]
    BY <1>1 DEF IInv, Shape
  <2> QED BY <1>2, <1>3, <2>1, <2>2, <2>3 DEF IInv, Shape, IsFun
<1>5. AliveStaged'
  <2>1. \A x \in Runner : Alive(x)' => x # r /\ Alive(x)
    BY <1>2 DEF Alive
  <2> QED BY <1>2, <2>1 DEF IInv, AliveStaged
<1>6. ASSUME NEW q \in Participant
      PROVE  /\ Lifecycles(q)' = Lifecycles(q) /\ Slots(q)' = Slots(q)
             /\ Recovered(q)' \subseteq Recovered(q)
             /\ \A x \in Lifecycles(q) : x # r /\ prompt'[x] = prompt[x]
             /\ LedgersSame(q)
  <2>1. \A x \in Runner : x \in Lifecycles(q)' <=> x \in Lifecycles(q)
    BY <1>1, <1>2 DEF Lifecycles, Of
  <2>2. Lifecycles(q)' = Lifecycles(q)
    BY <2>1 DEF Lifecycles, Of
  <2>3. \A x \in Lifecycles(q) : x \in Runner /\ x # r
    BY <1>1 DEF Lifecycles, Of
  <2>4. Slots(q)' = Slots(q)
    BY <1>2, <2>2, <2>3 DEF Slots
  <2>5. Recovered(q)' \subseteq Recovered(q)
    BY <1>2 DEF Recovered, Of, Alive
  <2> QED BY <1>2, <2>2, <2>3, <2>4, <2>5 DEF LedgersSame
<1>7. ASSUME NEW q \in Participant
      PROVE  Waiting(q)' = IF q = p /\ s = "created" THEN Waiting(q) \cup {r} ELSE Waiting(q)
  <2>1. r \notin Waiting(q)
    BY <1>1 DEF Waiting
  <2>2. r \in Waiting(q)' <=> q = p /\ s = "created"
    BY <1>2 DEF Waiting, Of
  <2>3. \A x \in Runner : x # r => (x \in Waiting(q)' <=> x \in Waiting(q))
    BY <1>2 DEF Waiting, Of
  <2>4. Waiting(q) \subseteq Runner /\ Waiting(q)' \subseteq Runner
    BY DEF Waiting, Of
  <2>5. CASE q = p /\ s = "created"
    <3>1. \A x \in Runner : x \in Waiting(q)' <=> x \in Waiting(q) \cup {r}
      BY <2>2, <2>3, <2>5
    <3>2. Waiting(q)' = Waiting(q) \cup {r}
      BY <2>4, <3>1
    <3> QED BY <2>5, <3>2
  <2>6. CASE ~(q = p /\ s = "created")
    <3>1. \A x \in Runner : x \in Waiting(q)' <=> x \in Waiting(q)
      BY <2>1, <2>2, <2>3, <2>6
    <3>2. Waiting(q)' = Waiting(q)
      BY <2>4, <3>1
    <3> QED BY <2>6, <3>2
  <2> QED BY <2>5, <2>6
<1>8. ASSUME NEW q \in Participant, q # p PROVE Sound(q)'
  <2>1. \A x \in Waiting(q) : prompt'[x] = prompt[x]
    BY <1>1, <1>2 DEF Waiting, Of
  <2>2. SetsSame(q)
    BY <1>6, <1>7, <1>8, <2>1 DEF SetsSame
  <2> QED BY <1>3, <1>6, <1>8, <2>2, Untouched DEF IInv, PollSame
<1>9. Sound(p)'
  <2>1. Waiting(p) = {}
    BY DEF IInv, Sound, Creators
  <2>2. Waiting(p)' \subseteq {r} /\ (s = "orphan" => Waiting(p)' = {})
    BY <1>7, <2>1
  <2>3. OneJobEach(p)'
    <3>1. \A x \in Lifecycles(p) \cup Waiting(p)' : \E j : prompt'[x] = {j}
      <4>1. \A x \in Lifecycles(p) : \E j : prompt'[x] = {j}
        BY <1>6 DEF IInv, Sound, OneJobEach
      <4>2. \A x \in Waiting(p)' : prompt'[x] = {Head(queue[p])}
        BY <1>2, <2>2
      <4> QED BY <4>1, <4>2
    <3>2. \A x, y \in Lifecycles(p) : prompt'[x] = prompt'[y] => x = y
      BY <1>6 DEF IInv, Sound, OneJobEach
    <3> QED BY <1>6, <3>1, <3>2 DEF OneJobEach
  <2>4. LedgerOf(p)' /\ Room(p)'
    <3>1. UNION {prompt'[x] : x \in Lifecycles(p)'} = UNION {prompt[x] : x \in Lifecycles(p)}
      BY <1>6
    <3>2. LedgerOf(p)'
      BY <1>6, <3>1 DEF IInv, Sound, LedgerOf, LedgersSame
    <3>3. Occupied(p)' \in SUBSET Occupied(p)
      BY <1>6 DEF Occupied
    <3>4. /\ Cardinality(Occupied(p)') <= Cardinality(Occupied(p))
          /\ Cardinality(Occupied(p)') \in Nat /\ Cardinality(Occupied(p)) \in Nat
      BY <3>3, RunnerSets, FiniteParts, Monotone
    <3> QED BY <3>2, <3>4, DispatchAssumption DEF IInv, Sound, Room
  <2>5. Counted(p)'
    <3> SUFFICES ASSUME Visible PROVE Cardinality(Recovered(p)') <= recovered'[p]
      BY DEF Counted, Visible
    <3>1. /\ Cardinality(Recovered(p)) <= recovered[p]
          /\ recovered[p] \in Nat /\ recovered'[p] = recovered[p]
      BY DEF IInv, Sound, Counted, Shape
    <3>2. /\ Cardinality(Recovered(p)') <= Cardinality(Recovered(p))
          /\ Cardinality(Recovered(p)') \in Nat /\ Cardinality(Recovered(p)) \in Nat
      BY <1>6, RunnerSets, FiniteParts, Monotone
    <3> QED BY <3>1, <3>2 DEF Counted
  <2>6. Creators(p)' /\ Offers(p)'
    <3>1. CASE s = "created"
      <4>1. poll'[p] = "insert" /\ queue'[p] = queue[p]
        BY <3>1 DEF IInv, Shape
      <4> QED BY <1>2, <2>2, <4>1 DEF Creators, Offers, IInv, Sound
    <3>2. CASE s = "orphan"
      <4>1. poll'[p] = "tick"
        BY <3>2 DEF IInv, Shape
      <4> QED BY <2>2, <3>2, <4>1 DEF Creators, Offers
    <3> QED BY <3>1, <3>2
  <2> QED BY <2>3, <2>4, <2>5, <2>6 DEF Sound
<1> QED BY <1>4, <1>5, <1>8, <1>9 DEF IInv

(* The registration finds its place, because nothing but this poll adds to *)
(* Service.active between its checks.                                      *)
LEMMA InsertIInv ==
  ASSUME IInv, NEW p \in Participant, NEW r \in Runner, Insert(p, r)
  PROVE  IInv'
<1> DEFINE j == Head(queue[p])
<1>1. poll[p] = "insert" /\ r \in Of(p) /\ r \in Waiting(p) /\ r \notin Lifecycles(p)
  BY DEF Insert, Goto, Waiting, Lifecycles
<1>2. prompt[r] = {j} /\ j \notin active[p] /\ Cardinality(active[p]) < Capacity
      /\ Waiting(p) = {r}
  BY <1>1 DEF IInv, Sound, Creators, Offers
<1>3. /\ Capacity \in Nat /\ Cardinality(active[p]) \in Nat /\ IsFiniteSet(active[p])
  BY DispatchAssumption, FS_CardinalityType DEF IInv, Sound, LedgerOf
<1>4. ~Full(p)
  BY <1>2, <1>3 DEF Full
<1>5. /\ UNCHANGED <<owner, prompt, proc, local, recovered>>
      /\ stage' = [stage EXCEPT ![r] = "spawned"]
      /\ active' = [active EXCEPT ![p] = @ \cup {j}]
      /\ poll' = [poll EXCEPT ![p] = "offer"]
      /\ queue' = [queue EXCEPT ![p] = Tail(@)]
  BY <1>4 DEF Insert, Goto, Pop
<1>6. /\ active'[p] = active[p] \cup {j} /\ IsFun(active', Participant)
      /\ IsFun(queue', Participant) /\ poll'[p] = "offer"
      /\ \A q \in Participant : q # p => /\ active'[q] = active[q]
                                        /\ queue'[q] = queue[q] /\ poll'[q] = poll[q]
  <2>1. IsFun(active, Participant) /\ IsFun(queue, Participant)
    BY DEF IInv, Shape
  <2>2. /\ active'[p] = active[p] \cup {j} /\ IsFun(active', Participant)
        /\ \A q \in Participant : q # p => active'[q] = active[q]
    <3>1. active' = [active EXCEPT ![p] = active[p] \cup {j}]
      BY <1>5
    <3> QED BY <2>1, <3>1 DEF IsFun
  <2>3. /\ IsFun(queue', Participant)
        /\ \A q \in Participant : q # p => queue'[q] = queue[q]
    <3>1. queue' = [queue EXCEPT ![p] = Tail(queue[p])]
      BY <1>5
    <3> QED BY <2>1, <3>1 DEF IsFun
  <2> QED BY <1>5, <2>2, <2>3 DEF IInv, Shape
<1>7. /\ stage'[r] = "spawned" /\ stage[r] = "created"
      /\ \A x \in Runner : x # r => stage'[x] = stage[x]
  BY <1>1, <1>5 DEF IInv, Shape, Waiting
<1>8. Shape'
  <2>1. stage' \in [Runner -> Stage]
    BY <1>5 DEF IInv, Shape, Stage
  <2>2. poll' \in [Participant -> Polls]
    BY <1>5 DEF IInv, Shape, Polls
  <2> QED BY <1>5, <1>6, <2>1, <2>2 DEF IInv, Shape, IsFun
<1>9. AliveStaged'
  BY <1>5, <1>7 DEF IInv, AliveStaged, Alive
<1>10. ASSUME NEW q \in Participant, q # p PROVE Sound(q)'
  <2>1. \A x \in Of(q) : SameSets(x)
    BY <1>1, <1>5, <1>7, <1>10 DEF SameSets, Of, Alive
  <2> QED BY <1>5, <1>6, <1>10, <2>1, SetsKept, Untouched
          DEF IInv, LedgersSame, PollSame
<1>11. /\ Lifecycles(p)' = Lifecycles(p) \cup {r} /\ Waiting(p)' = {}
       /\ Slots(p)' = Slots(p) /\ Recovered(p)' = Recovered(p)
  <2>1. Of(p)' = Of(p) /\ Of(p) \subseteq Runner
    BY <1>5 DEF Of
  <2>2. \A x \in Of(p) : x # r => (x \in Lifecycles(p)' <=> x \in Lifecycles(p))
    BY <1>7, <2>1 DEF Lifecycles
  <2>3. r \in Lifecycles(p)'
    BY <1>1, <1>7, <2>1 DEF Lifecycles
  <2>4. Lifecycles(p)' = Lifecycles(p) \cup {r}
    BY <2>1, <2>2, <2>3 DEF Lifecycles
  <2>5. Waiting(p)' = {}
    BY <1>2, <1>7, <2>1 DEF Waiting
  <2>6. Slots(p)' = Slots(p)
    BY <1>7, <2>1 DEF Slots, Lifecycles
  <2>7. Recovered(p)' = Recovered(p)
    BY <1>5, <1>7, <2>1 DEF Recovered, Alive
  <2> QED BY <2>4, <2>5, <2>6, <2>7
<1>12. OneJobEach(p)'
  <2>1. \A x \in Lifecycles(p) : \E k : prompt[x] = {k} /\ k \in active[p]
    BY DEF IInv, Sound, OneJobEach, LedgerOf
  <2>2. \A x \in Lifecycles(p) : prompt[x] # prompt[r]
    BY <1>2, <2>1
  <2> QED BY <1>2, <1>5, <1>11, <2>2 DEF IInv, Sound, OneJobEach
<1>13. LedgerOf(p)'
  <2>1. active'[p] = UNION {prompt'[x] : x \in Lifecycles(p)'}
    <3>1. active[p] = UNION {prompt[x] : x \in Lifecycles(p)}
      BY DEF IInv, Sound, LedgerOf
    <3>2. UNION {prompt[x] : x \in Lifecycles(p) \cup {r}}
            = (UNION {prompt[x] : x \in Lifecycles(p)}) \cup prompt[r]
      BY UnionWith
    <3> QED BY <1>2, <1>5, <1>6, <1>11, <3>1, <3>2
  <2>2. IsFiniteSet(active'[p]) /\ Cardinality(active'[p]) = Cardinality(active[p]) + 1
    <3>1. active'[p] = active[p] \cup {j}
      BY <1>6
    <3>2. j \notin active[p] /\ IsFiniteSet(active[p])
      BY <1>2, <1>3
    <3> HIDE DEF j
    <3>3. /\ IsFiniteSet(active[p] \cup {j})
          /\ Cardinality(active[p] \cup {j}) = Cardinality(active[p]) + 1
      BY <3>2, FS_AddElement
    <3> QED BY <3>1, <3>3
  <2>3. Cardinality(Lifecycles(p)') = Cardinality(Lifecycles(p)) + 1
    BY <1>1, <1>11, RunnerSets, FiniteParts, FS_AddElement
  <2>4. Cardinality(active'[p]) <= Capacity
    BY <1>2, <1>3, <2>2
  <2> QED BY <1>5, <1>11, <2>1, <2>2, <2>3, <2>4 DEF IInv, Sound, LedgerOf
<1>14. Creators(p)' /\ Offers(p)' /\ Counted(p)' /\ Room(p)'
  <2>1. Creators(p)' /\ Offers(p)'
    BY <1>6, <1>11 DEF Creators, Offers
  <2>2. Counted(p)'
    BY <1>1, <1>5, <1>11 DEF IInv, Sound, Counted
  <2>3. Room(p)'
    BY <1>11 DEF IInv, Sound, Room, Occupied
  <2> QED BY <2>1, <2>2, <2>3
<1> QED BY <1>8, <1>9, <1>10, <1>12, <1>13, <1>14 DEF IInv, Sound

-----------------------------------------------------------------------------
(* Runs and the end of a lifecycle. *)

(* The manager admits a Run beside the recovered runners it has counted.   *)
LEMMA RunStartsIInv ==
  ASSUME IInv, NEW p \in Participant, NEW r \in Runner, RunStarts(p, r)
  PROVE  IInv'
<1>1. /\ r \in Of(p) /\ stage[r] = "spawned" /\ HasSlot(p)
      /\ UNCHANGED <<owner, prompt, poll, queue, active, recovered>>
      /\ stage' = [stage EXCEPT ![r] = "launched"]
      /\ proc' = [proc EXCEPT ![r] = "idle"]
      /\ local' = [local EXCEPT ![p] = local[p] + 1]
  BY DEF RunStarts, Move, pollVars
<1>2. /\ stage'[r] = "launched" /\ Alive(r)'
      /\ \A x \in Runner : x # r => stage'[x] = stage[x] /\ proc'[x] = proc[x]
      /\ local'[p] = local[p] + 1
      /\ \A q \in Participant : q # p => local'[q] = local[q]
  BY <1>1 DEF IInv, Shape, Alive
<1>3. Shape'
  <2>1. stage' \in [Runner -> Stage]
    BY <1>1 DEF IInv, Shape, Stage
  <2>2. proc' \in [Runner -> {"none", "idle", "busy", "gone"}]
    BY <1>1 DEF IInv, Shape
  <2>3. local' \in [Participant -> Nat]
    BY <1>1 DEF IInv, Shape
  <2> QED BY <1>1, <2>1, <2>2, <2>3 DEF IInv, Shape, IsFun
<1>4. AliveStaged'
  BY <1>2 DEF IInv, AliveStaged, Alive
<1>5. ASSUME NEW q \in Participant, q # p PROVE Sound(q)'
  <2>1. \A x \in Of(q) : SameSets(x)
    BY <1>1, <1>2, <1>5 DEF SameSets, Of, Alive
  <2> QED BY <1>1, <1>2, <1>5, <2>1, SetsKept, Untouched
          DEF IInv, LedgersSame, PollSame
<1>6. Of(p)' = Of(p) /\ Of(p) \subseteq Runner
  BY <1>1 DEF Of
<1>7. /\ Lifecycles(p)' = Lifecycles(p) /\ r \in Lifecycles(p)
      /\ Waiting(p)' = Waiting(p) /\ Recovered(p)' = Recovered(p)
      /\ r \notin Slots(p) /\ Slots(p)' = Slots(p) \cup {r}
  <2>1. Lifecycles(p)' = Lifecycles(p) /\ r \in Lifecycles(p)
    BY <1>1, <1>2, <1>6 DEF Lifecycles
  <2>2. Waiting(p)' = Waiting(p)
    BY <1>1, <1>2, <1>6 DEF Waiting
  <2>3. Recovered(p)' = Recovered(p)
    BY <1>1, <1>2, <1>6 DEF Recovered, Alive
  <2>4. r \notin Slots(p)
    BY <1>1 DEF Slots
  <2>5. \A x \in Lifecycles(p) : x \in Slots(p)' <=> x \in Slots(p) \cup {r}
    <3>1. Lifecycles(p) \subseteq Runner
      BY RunnerSets
    <3> QED BY <1>2, <2>1, <3>1 DEF Slots
  <2>6. Slots(p)' \subseteq Lifecycles(p) /\ Slots(p) \cup {r} \subseteq Lifecycles(p)
    BY <2>1 DEF Slots
  <2> QED BY <2>1, <2>2, <2>3, <2>4, <2>5, <2>6
<1>8. /\ IsFiniteSet(Slots(p)) /\ Cardinality(Slots(p)) \in Nat
      /\ IsFiniteSet(Recovered(p)) /\ Cardinality(Recovered(p)) \in Nat
      /\ local[p] \in Nat /\ recovered[p] \in Nat /\ Capacity \in Nat
  BY RunnerSets, FiniteParts, DispatchAssumption DEF IInv, Shape
<1>9. Cardinality(Slots(p)') = Cardinality(Slots(p)) + 1 /\ IsFiniteSet(Slots(p)')
  BY <1>7, <1>8, FS_AddElement
<1>10. LedgerOf(p)'
  BY <1>1, <1>2, <1>7, <1>9 DEF IInv, Sound, LedgerOf
<1>11. OneJobEach(p)' /\ Creators(p)' /\ Offers(p)' /\ Counted(p)'
  <2>1. OneJobEach(p)'
    BY <1>1, <1>7 DEF IInv, Sound, OneJobEach
  <2>2. Creators(p)' /\ Offers(p)' /\ Counted(p)'
    BY <1>1, <1>7 DEF IInv, Sound, Creators, Offers, Counted
  <2> QED BY <2>1, <2>2
<1>12. Room(p)'
  <2> SUFFICES ASSUME Visible PROVE Cardinality(Occupied(p)') <= Capacity
    BY DEF Room, Visible
  <2>1. Occupied(p)' = Slots(p)' \cup Recovered(p)
    BY <1>7 DEF Occupied
  <2>2. /\ Cardinality(Slots(p)' \cup Recovered(p))
             = Cardinality(Slots(p)') + Cardinality(Recovered(p))
               - Cardinality(Slots(p)' \cap Recovered(p))
        /\ Cardinality(Slots(p)' \cap Recovered(p)) \in Nat
    <3>1. Slots(p)' \cap Recovered(p) \in SUBSET Runner
      BY RunnerSets
    <3> QED BY <1>8, <1>9, <3>1, FiniteParts, FS_Union
  <2>3. Cardinality(Recovered(p)) <= recovered[p]
    BY <1>7 DEF IInv, Sound, Counted
  <2>4. local[p] = Cardinality(Slots(p)) /\ local[p] + 1 + recovered[p] <= Capacity
    BY <1>1 DEF IInv, Sound, LedgerOf, HasSlot
  <2> QED BY <1>8, <1>9, <2>1, <2>2, <2>3, <2>4 DEF Room
<1> QED BY <1>3, <1>4, <1>5, <1>10, <1>11, <1>12 DEF IInv, Sound

(* A Run returns, and its slot with it.                                    *)
LEMMA RunEndsIInv ==
  ASSUME IInv, NEW p \in Participant, NEW r \in Runner, RunEnds(p, r)
  PROVE  IInv'
<1>1. /\ r \in Of(p) /\ stage[r] \in Slotted
      /\ UNCHANGED <<owner, prompt, poll, queue, active, recovered>>
      /\ stage' = [stage EXCEPT ![r] = "ended"]
      /\ \/ proc' = [proc EXCEPT ![r] = "gone"]
         \/ proc' = proc /\ ~Visible
      /\ local' = [local EXCEPT ![p] = local[p] - 1]
  BY DEF RunEnds, Released, Move, pollVars, Visible
<1>2. /\ stage'[r] = "ended" /\ (Visible => ~Alive(r)')
      /\ \A x \in Runner : x # r => stage'[x] = stage[x] /\ proc'[x] = proc[x]
      /\ local'[p] = local[p] - 1
      /\ \A q \in Participant : q # p => local'[q] = local[q]
  BY <1>1 DEF IInv, Shape, Alive
<1>3. Of(p)' = Of(p) /\ Of(p) \subseteq Runner
  BY <1>1 DEF Of
<1>4. /\ Lifecycles(p)' = Lifecycles(p) /\ Waiting(p)' = Waiting(p)
      /\ Recovered(p)' = Recovered(p)
      /\ r \in Slots(p) /\ Slots(p)' = Slots(p) \ {r}
  <2>1. Lifecycles(p)' = Lifecycles(p) /\ r \in Lifecycles(p)
    BY <1>1, <1>2, <1>3 DEF Lifecycles
  <2>2. Waiting(p)' = Waiting(p)
    BY <1>1, <1>2, <1>3 DEF Waiting
  <2>3. Recovered(p)' = Recovered(p)
    BY <1>1, <1>2, <1>3 DEF Recovered, Alive
  <2>4. r \in Slots(p)
    BY <1>1, <2>1 DEF Slots
  <2>5. \A x \in Lifecycles(p) : x \in Slots(p)' <=> x \in Slots(p) \ {r}
    <3>1. Lifecycles(p) \subseteq Runner
      BY RunnerSets
    <3> QED BY <1>2, <2>1, <3>1 DEF Slots
  <2>6. Slots(p)' \subseteq Lifecycles(p) /\ Slots(p) \subseteq Lifecycles(p)
    BY <2>1 DEF Slots
  <2> QED BY <2>1, <2>2, <2>3, <2>4, <2>5, <2>6
<1>5. /\ IsFiniteSet(Slots(p)) /\ Cardinality(Slots(p)) \in Nat
      /\ Cardinality(Slots(p)') \in Nat
  BY RunnerSets, FiniteParts
<1>6. Cardinality(Slots(p)') = Cardinality(Slots(p)) - 1
  BY <1>4, <1>5, FS_RemoveElement
<1>7. LedgerOf(p)'
  BY <1>1, <1>2, <1>4, <1>6 DEF IInv, Sound, LedgerOf
<1>8. Shape'
  <2>1. stage' \in [Runner -> Stage]
    BY <1>1 DEF IInv, Shape, Stage
  <2>2. proc' \in [Runner -> {"none", "idle", "busy", "gone"}]
    BY <1>1 DEF IInv, Shape
  <2>3. local[p] - 1 \in Nat
    BY <1>2, <1>5, <1>6 DEF IInv, Sound, LedgerOf
  <2>4. local' \in [Participant -> Nat]
    BY <1>1, <2>3 DEF IInv, Shape
  <2> QED BY <1>1, <2>1, <2>2, <2>4 DEF IInv, Shape, IsFun
<1>9. AliveStaged'
  BY <1>2 DEF IInv, AliveStaged, Alive
<1>10. ASSUME NEW q \in Participant, q # p PROVE Sound(q)'
  <2>1. \A x \in Of(q) : SameSets(x)
    BY <1>1, <1>2, <1>10 DEF SameSets, Of, Alive
  <2> QED BY <1>1, <1>2, <1>10, <2>1, SetsKept, Untouched
          DEF IInv, LedgersSame, PollSame
<1>11. OneJobEach(p)' /\ Creators(p)' /\ Offers(p)' /\ Counted(p)'
  <2>1. OneJobEach(p)'
    <3>1. OneJobEach(p)
      BY DEF IInv, Sound
    <3>2. UNCHANGED prompt /\ Waiting(p)' = Waiting(p) /\ Lifecycles(p)' = Lifecycles(p)
      BY <1>1, <1>4
    <3> QED BY <3>1, <3>2 DEF OneJobEach
  <2>2. Creators(p)' /\ Offers(p)'
    <3>1. Creators(p) /\ Offers(p)
      BY DEF IInv, Sound
    <3>2. UNCHANGED <<poll, queue, prompt, active>> /\ Waiting(p)' = Waiting(p)
      BY <1>1, <1>4
    <3> QED BY <3>1, <3>2 DEF Creators, Offers
  <2>3. Counted(p)'
    BY <1>1, <1>4 DEF IInv, Sound, Counted
  <2> QED BY <2>1, <2>2, <2>3
<1>12. Room(p)'
  <2>1. Occupied(p)' \in SUBSET Occupied(p)
    BY <1>4 DEF Occupied
  <2>2. /\ Cardinality(Occupied(p)') <= Cardinality(Occupied(p))
        /\ Cardinality(Occupied(p)') \in Nat /\ Cardinality(Occupied(p)) \in Nat
    BY <2>1, RunnerSets, FiniteParts, Monotone
  <2> QED BY <2>2, DispatchAssumption DEF IInv, Sound, Room
<1> QED BY <1>7, <1>8, <1>9, <1>10, <1>11, <1>12 DEF IInv, Sound

(* A lifecycle takes its job, and nobody else's, out of Service.active.    *)
LEMMA RetireIInv ==
  ASSUME IInv, NEW p \in Participant, NEW r \in Runner, Retire(p, r)
  PROVE  IInv'
<1>1. /\ r \in Of(p) /\ stage[r] = "deleted"
      /\ UNCHANGED <<proc, poll, queue, local, recovered>>
      /\ stage' = [stage EXCEPT ![r] = IF Alive(r) THEN "unseen" ELSE "none"]
      /\ owner' = [owner EXCEPT ![r] = IF Alive(r) THEN owner[r] ELSE {}]
      /\ prompt' = [prompt EXCEPT ![r] = {}]
      /\ active' = [active EXCEPT ![p] = active[p] \ prompt[r]]
  BY DEF Retire, Move, Retired, pollVars
<1>2. /\ owner'[r] \in {owner[r], {}} /\ stage'[r] \in {"none", "unseen"}
      /\ \A x \in Runner : x # r => stage'[x] = stage[x] /\ owner'[x] = owner[x]
  BY <1>1 DEF IInv, Shape
<1>3. IsFun(prompt', Runner) /\ \A x \in Runner : x # r => prompt'[x] = prompt[x]
  BY <1>1 DEF IInv, Shape, IsFun
<1>4. /\ IsFun(active', Participant) /\ active'[p] = active[p] \ prompt[r]
      /\ \A q \in Participant : q # p => active'[q] = active[q]
  BY <1>1 DEF IInv, Shape, IsFun
<1>5. Shape'
  <2>1. stage' \in [Runner -> Stage]
    BY <1>1 DEF IInv, Shape, Stage
  <2>2. owner' \in [Runner -> SUBSET Participant]
    BY <1>1 DEF IInv, Shape
  <2> QED BY <1>1, <1>3, <1>4, <2>1, <2>2 DEF IInv, Shape, IsFun
<1>6. AliveStaged'
  BY <1>1, <1>2 DEF IInv, AliveStaged, Alive
<1>7. \A q \in Participant : r \in Of(q) => q = p
  BY <1>1 DEF Of
<1>8. ASSUME NEW q \in Participant
      PROVE  /\ Lifecycles(q)' = Lifecycles(q) \ {r}
             /\ Slots(q)' = Slots(q) /\ Waiting(q)' = Waiting(q)
             /\ Recovered(q)' = Recovered(q)
  <2>1. /\ Of(q) \subseteq Runner /\ Of(q)' \subseteq Runner
        /\ \A x \in Runner : x # r => (x \in Of(q)' <=> x \in Of(q))
    BY <1>2 DEF Of
  <2>2. Lifecycles(q)' = Lifecycles(q) \ {r}
    BY <1>2, <2>1 DEF Lifecycles
  <2>3. Slots(q)' = Slots(q)
    BY <1>1, <1>2, <2>1, <2>2 DEF Slots, Lifecycles
  <2>4. Waiting(q)' = Waiting(q)
    BY <1>1, <1>2, <2>1 DEF Waiting
  <2>5. Recovered(q)' = Recovered(q)
    BY <1>1, <1>2, <2>1 DEF Recovered, Alive
  <2> QED BY <2>1, <2>2, <2>3, <2>4, <2>5
<1>9. ASSUME NEW q \in Participant, q # p PROVE Sound(q)'
  <2>1. r \notin Lifecycles(q) /\ r \notin Waiting(q)
    BY <1>7, <1>9 DEF Lifecycles, Waiting
  <2>2. \A x \in Lifecycles(q) \cup Waiting(q) : prompt'[x] = prompt[x]
    BY <1>3, <2>1 DEF Lifecycles, Waiting, Of
  <2>3. SetsSame(q)
    BY <1>8, <2>1, <2>2 DEF SetsSame
  <2> QED BY <1>1, <1>4, <1>9, <2>3, Untouched DEF IInv, LedgersSame, PollSame
<1>10. /\ r \in Lifecycles(p) /\ Lifecycles(p)' \subseteq Lifecycles(p)
       /\ \A x \in Lifecycles(p)' : x \in Lifecycles(p) /\ x # r /\ prompt'[x] = prompt[x]
  BY <1>1, <1>3, <1>8 DEF Lifecycles, Of
<1>11. PICK j : prompt[r] = {j}
  BY <1>10 DEF IInv, Sound, OneJobEach
<1>12. \A x \in Lifecycles(p)' : \E k : prompt[x] = {k} /\ k # j
  BY <1>10, <1>11 DEF IInv, Sound, OneJobEach
<1>13. LedgerOf(p)'
  <2>1. active[p] = UNION {prompt[x] : x \in Lifecycles(p)}
    BY DEF IInv, Sound, LedgerOf
  <2>2. Lifecycles(p) = Lifecycles(p)' \cup {r}
    BY <1>8, <1>10
  <2>3. active[p] = (UNION {prompt[x] : x \in Lifecycles(p)'}) \cup {j}
    <3>1. UNION {prompt[x] : x \in Lifecycles(p)' \cup {r}}
            = (UNION {prompt[x] : x \in Lifecycles(p)'}) \cup prompt[r]
      BY UnionWith
    <3> QED BY <1>11, <2>1, <2>2, <3>1
  <2>4. j \notin UNION {prompt[x] : x \in Lifecycles(p)'}
    <3>1. ASSUME NEW S \in {prompt[x] : x \in Lifecycles(p)'} PROVE j \notin S
      <4>1. PICK x \in Lifecycles(p)' : S = prompt[x]
        BY <3>1
      <4> QED BY <1>12, <4>1
    <3> QED BY <3>1
  <2>5. active'[p] = UNION {prompt[x] : x \in Lifecycles(p)'}
    BY <1>4, <1>11, <2>3, <2>4
  <2>6. active'[p] = UNION {prompt'[x] : x \in Lifecycles(p)'}
    BY <1>10, <2>5
  <2>7. j \in active[p] /\ active'[p] = active[p] \ {j}
    BY <1>4, <1>11, <2>3
  <2>8. IsFiniteSet(active'[p]) /\ Cardinality(active'[p]) = Cardinality(active[p]) - 1
    <3>1. IsFiniteSet(active[p])
      BY DEF IInv, Sound, LedgerOf
    <3>2. /\ IsFiniteSet(active[p] \ {j})
          /\ Cardinality(active[p] \ {j}) = Cardinality(active[p]) - 1
      BY <2>7, <3>1, FS_RemoveElement
    <3> QED BY <2>7, <3>2
  <2>9. Cardinality(Lifecycles(p)') = Cardinality(Lifecycles(p)) - 1
    BY <1>8, <1>10, RunnerSets, FiniteParts, FS_RemoveElement
  <2>10. Cardinality(active[p]) \in Nat /\ Capacity \in Nat
    BY FS_CardinalityType, DispatchAssumption DEF IInv, Sound, LedgerOf
  <2> QED BY <1>1, <1>8, <2>6, <2>8, <2>9, <2>10 DEF IInv, Sound, LedgerOf
<1>14. OneJobEach(p)'
  <2>1. \A x \in Waiting(p) : prompt'[x] = prompt[x]
    BY <1>1, <1>3 DEF Waiting, Of
  <2>2. OneJobEach(p) /\ Waiting(p)' = Waiting(p)
    BY <1>8 DEF IInv, Sound
  <2>3. \A x \in Lifecycles(p)' \cup Waiting(p)' : \E k : prompt'[x] = {k}
    BY <1>10, <2>1, <2>2 DEF OneJobEach
  <2>4. \A x, y \in Lifecycles(p)' : prompt'[x] = prompt'[y] => x = y
    BY <1>10, <2>2 DEF OneJobEach
  <2> QED BY <2>3, <2>4 DEF OneJobEach
<1>15. Creators(p)'
  <2>1. \A x \in Waiting(p) : prompt'[x] = prompt[x]
    BY <1>1, <1>3 DEF Waiting, Of
  <2>2. /\ Waiting(p)' = Waiting(p) /\ Creators(p)
        /\ poll'[p] = poll[p] /\ queue'[p] = queue[p]
    BY <1>1, <1>8 DEF IInv, Sound
  <2> QED BY <2>1, <2>2 DEF Creators
<1>16. Offers(p)'
  <2>1. active'[p] \in SUBSET active[p]
    BY <1>4
  <2>2. /\ IsFiniteSet(active[p]) /\ Cardinality(active[p]) \in Nat
        /\ Cardinality(active'[p]) <= Cardinality(active[p])
        /\ Cardinality(active'[p]) \in Nat
    BY <2>1, FS_Subset, FS_CardinalityType DEF IInv, Sound, LedgerOf
  <2> QED BY <1>1, <2>1, <2>2, DispatchAssumption DEF IInv, Sound, Offers
<1>17. Counted(p)' /\ Room(p)'
  BY <1>1, <1>8, <1>10 DEF IInv, Sound, Counted, Room, Occupied
<1> QED BY <1>5, <1>6, <1>9, <1>13, <1>14, <1>15, <1>16, <1>17 DEF IInv, Sound

-----------------------------------------------------------------------------
(* What a participant that died leaves alive had a slot or was counted     *)
(* among the recovered, so that there is still room for it.                *)
LEMMA RestartIInv ==
  ASSUME IInv, NEW p \in Participant, Restart(p)
  PROVE  IInv'
<1>1. /\ UNCHANGED <<owner, prompt, proc>>
      /\ poll' = [poll EXCEPT ![p] = "tick"]
      /\ queue' = [queue EXCEPT ![p] = <<>>]
      /\ active' = [active EXCEPT ![p] = {}]
      /\ local' = [local EXCEPT ![p] = 0]
      /\ recovered' = [recovered EXCEPT ![p] = 0]
      /\ stage' = [x \in Runner |->
           IF x \in Lifecycles(p) \/ (x \in Of(p) /\ stage[x] = "created")
           THEN LeftBehind(x) ELSE stage[x]]
      /\ Visible => Launching(p) = {}
  BY DEF Restart, Visible
<1>2. /\ IsFun(queue', Participant)
      /\ \A q \in Participant : q # p => queue'[q] = queue[q]
  BY <1>1 DEF IInv, Shape, IsFun
<1>3. /\ IsFun(active', Participant) /\ active'[p] = {}
      /\ \A q \in Participant : q # p => active'[q] = active[q]
  BY <1>1 DEF IInv, Shape, IsFun
<1>4. /\ poll'[p] = "tick" /\ local'[p] = 0
      /\ \A q \in Participant : q # p =>
           poll'[q] = poll[q] /\ local'[q] = local[q] /\ recovered'[q] = recovered[q]
  BY <1>1 DEF IInv, Shape
<1>5. \A x \in Runner : LeftBehind(x) \in {"orphan", "kept", "lost", "unseen"}
  BY DEF LeftBehind
<1>6. Shape'
  <2>1. stage' \in [Runner -> Stage]
    BY <1>1, <1>5 DEF IInv, Shape, Stage
  <2>2. /\ poll' \in [Participant -> Polls] /\ local' \in [Participant -> Nat]
        /\ recovered' \in [Participant -> Nat]
    BY <1>1 DEF IInv, Shape, Polls
  <2> QED BY <1>1, <1>2, <1>3, <2>1, <2>2 DEF IInv, Shape, IsFun
<1>7. AliveStaged'
  <2> SUFFICES ASSUME Visible, NEW x \in Runner, Alive(x)'
               PROVE  stage'[x] \in Slotted \cup {"lost", "kept"}
    BY DEF AliveStaged, Visible
  <2>1. Alive(x) /\ stage[x] \in Slotted \cup {"lost", "kept"}
    BY <1>1 DEF IInv, AliveStaged, Alive
  <2>2. x \in Of(p) => stage[x] # "launched"
    BY <1>1 DEF Launching
  <2> QED BY <1>1, <2>1, <2>2 DEF LeftBehind, Lifecycles
<1>8. ASSUME NEW q \in Participant, q # p PROVE Sound(q)'
  <2>1. \A x \in Of(q) : x \in Runner /\ x \notin Of(p)
    BY <1>8 DEF Of
  <2>2. \A x \in Of(q) : stage'[x] = stage[x]
    BY <1>1, <2>1 DEF Lifecycles
  <2>3. \A x \in Of(q) : SameSets(x)
    BY <1>1, <2>2 DEF SameSets, Alive
  <2> QED BY <1>1, <1>2, <1>3, <1>4, <1>8, <2>3, SetsKept, Untouched
          DEF IInv, LedgersSame, PollSame
<1>9. Of(p)' = Of(p) /\ Of(p) \subseteq Runner
  BY <1>1 DEF Of
<1>10. /\ Lifecycles(p)' = {} /\ Slots(p)' = {} /\ Waiting(p)' = {}
       /\ Visible => Recovered(p)' \subseteq Occupied(p)
  <2>1. \A x \in Of(p) : stage'[x] \notin Underway \cup {"created"}
    BY <1>1, <1>5, <1>9 DEF Lifecycles
  <2>2. Lifecycles(p)' = {}
    BY <1>9, <2>1 DEF Lifecycles
  <2>3. Slots(p)' = {}
    BY <2>2 DEF Slots
  <2>4. Waiting(p)' = {}
    BY <1>9, <2>1 DEF Waiting
  <2>5. ASSUME Visible, NEW x \in Recovered(p)' PROVE x \in Occupied(p)
    <3>1. x \in Runner /\ x \in Of(p) /\ Alive(x)
      BY <1>1, <1>9 DEF Recovered, Alive
    <3>2. stage[x] \in Slotted \cup {"lost", "kept"}
      BY <2>5, <3>1 DEF IInv, AliveStaged
    <3> QED BY <3>1, <3>2 DEF Occupied, Slots, Lifecycles, Recovered
  <2> QED BY <2>2, <2>3, <2>4, <2>5
<1>11. Sound(p)'
  <2>1. IsFiniteSet({}) /\ Cardinality({}) = 0 /\ Capacity \in Nat
    BY FS_EmptySet, DispatchAssumption
  <2>2. LedgerOf(p)'
    BY <1>3, <1>4, <1>10, <2>1 DEF LedgerOf
  <2>3. Room(p)'
    <3> SUFFICES ASSUME Visible PROVE Cardinality(Occupied(p)') <= Capacity
      BY DEF Room, Visible
    <3>1. Occupied(p)' \in SUBSET Occupied(p)
      BY <1>10 DEF Occupied
    <3>2. /\ Cardinality(Occupied(p)') <= Cardinality(Occupied(p))
          /\ Cardinality(Occupied(p)') \in Nat /\ Cardinality(Occupied(p)) \in Nat
      BY <3>1, RunnerSets, FiniteParts, Monotone
    <3> QED BY <2>1, <3>2 DEF IInv, Sound, Room
  <2> QED BY <1>4, <1>10, <2>2, <2>3
          DEF Sound, OneJobEach, Creators, Offers, Counted
<1> QED BY <1>6, <1>7, <1>8, <1>11 DEF IInv

-----------------------------------------------------------------------------
LEMMA NextIInv ==
  ASSUME IInv, Next
  PROVE  IInv'
<1>1. ASSUME NEW p \in Participant, PollStep(p) PROVE IInv'
  <2>1. CASE PollStart(p) \/ PollUncounted(p)
    BY <2>1, PollStartIInv, PollUncountedIInv
  <2>2. CASE PollMoves(p)
    BY <2>2, PollMovesIInv
  <2>3. CASE \E j \in Job : Observe(p, j) \/ ObserveAgain(p, j)
    BY <2>3, ReadsIInv DEF Reads
  <2>4. ASSUME NEW r \in Runner, Create(p, r) PROVE IInv'
    BY <2>4, RegisterIInv DEF Create, Goto, slotVars
  <2>5. ASSUME NEW r \in Runner, CreateLost(p, r) PROVE IInv'
    BY <2>5, RegisterIInv DEF CreateLost, Goto, slotVars
  <2>6. ASSUME NEW r \in Runner, Insert(p, r) PROVE IInv'
    BY <2>6, InsertIInv
  <2> QED BY <1>1, <2>1, <2>2, <2>3, <2>4, <2>5, <2>6 DEF PollStep, PollMoves
<1>2. ASSUME NEW p \in Participant, NEW r \in Runner, LifecycleStep(p, r)
      PROVE  IInv'
  BY <1>2, RunStartsIInv, RunEndsIInv, RetireIInv, StagesIInv DEF LifecycleStep
<1>3. ASSUME NEW p \in Participant, ParticipantStep(p) PROVE IInv'
  <2>1. CASE Ripen(p) \/ Interrupt(p)
    BY <2>1, ReadsIInv DEF Reads
  <2>2. CASE Crash(p) \/ Exit(p)
    BY <2>2, RestartIInv DEF Crash, Exit
  <2> QED BY <1>1, <1>2, <1>3, <2>1, <2>2 DEF ParticipantStep
<1>4. ASSUME NEW r \in Runner, RunnerStep(r) PROVE IInv'
  <2>1. CASE Watch(r)
    BY <2>1, ReadsIInv DEF Reads
  <2>2. CASE Quit(r)
    BY <2>2, ProcessIInv
  <2>3. CASE RunRecords(r) \/ RunAssigned(r) \/ Delete(r)
    BY <2>3, StagesIInv
  <2> QED BY <1>4, <2>1, <2>2, <2>3 DEF RunnerStep
<1>5. ASSUME NEW j \in Job, JobStep(j) PROVE IInv'
  <2>1. CASE Submit(j) \/ Cancel(j) \/ Abandon(j)
    BY <2>1, ReadsIInv DEF Reads
  <2>2. ASSUME NEW r \in Runner, Assign(j, r) \/ Finish(j, r) PROVE IInv'
    BY <2>2, ProcessIInv
  <2> QED BY <1>5, <2>1, <2>2 DEF JobStep
<1> QED BY <1>3, <1>4, <1>5 DEF Next

LEMMA StepIInv ==
  ASSUME IInv, [Next]_vars
  PROVE  IInv'
<1>1. CASE UNCHANGED vars
  <2>1. UNCHANGED <<owner, prompt, poll, queue, active, local, recovered, stage, proc>>
    BY <1>1 DEF vars, runnerVars, pollVars, slotVars
  <2>2. \A r \in Runner : SameSets(r)
    BY <2>1 DEF SameSets, Alive
  <2>3. AliveStaged'
    BY <2>1 DEF IInv, AliveStaged, Alive
  <2> QED BY <2>1, <2>2, <2>3, QuietIInv DEF IInv, Shape
<1> QED BY <1>1, NextIInv

(* Polls, lifecycles, GitHub and restarts, in whatever order they come,    *)
(* keep the memory of every participant in order.                          *)
THEOREM IInvariance == Spec => []IInv
BY InitIInv, StepIInv, PTL DEF Spec

(* Service.active and localActive are what the lifecycles under way make   *)
(* them, with no job offered twice (participant.go:92, 179-184, 205-207,   *)
(* manager.go:173-179).                                                    *)
THEOREM LedgersAlwaysAgree == Spec => []LedgersAgree
<1>1. IInv => LedgersAgree
  BY DEF IInv, Sound, LedgerOf, LedgersAgree, Slots
<1> QED BY <1>1, IInvariance, PTL

(* The branch that drops a registration is never taken.                    *)
LEMMA FullNever ==
  ASSUME IInv, NEW p \in Participant, poll[p] = "insert"
  PROVE  ~Full(p)
<1>1. Head(queue[p]) \notin active[p] /\ Cardinality(active[p]) < Capacity
  BY DEF IInv, Sound, Offers
<1>2. Cardinality(active[p]) \in Nat /\ Capacity \in Nat
  BY FS_CardinalityType, DispatchAssumption DEF IInv, Sound, LedgerOf
<1> QED BY <1>1, <1>2 DEF Full

(* A registration always finds its place (participant.go:177-184).         *)
THEOREM InsertAlwaysFits == Spec => []InsertFits
<1>1. IInv => InsertFits
  BY FullNever DEF InsertFits
<1> QED BY <1>1, IInvariance, PTL

(* A participant and its earlier incarnations together never run more      *)
(* processes than its capacity, as long as none of them gets out of the    *)
(* manager's sight (participant.go:76, manager.go:61, 247-252).            *)
THEOREM CapacityKept ==
  ASSUME Visible
  PROVE  Spec => []WithinCapacity
<1>1. ASSUME IInv PROVE WithinCapacity
  <2> SUFFICES ASSUME NEW p \in Participant
               PROVE  Cardinality({r \in Of(p) : Alive(r)}) <= Capacity
    BY DEF WithinCapacity
  <2> DEFINE A == {r \in Of(p) : Alive(r)}
  <2>1. ASSUME NEW r \in A PROVE r \in Occupied(p)
    <3>1. r \in Runner /\ r \in Of(p) /\ Alive(r)
      BY DEF Of
    <3>2. stage[r] \in Slotted \cup {"lost", "kept"}
      BY <1>1, <3>1 DEF IInv, AliveStaged
    <3> QED BY <3>1, <3>2 DEF Occupied, Slots, Lifecycles, Recovered
  <2>2. A \in SUBSET Occupied(p) /\ A \in SUBSET Runner
    BY <2>1 DEF Of
  <2>3. /\ Cardinality(A) <= Cardinality(Occupied(p))
        /\ Cardinality(A) \in Nat /\ Cardinality(Occupied(p)) \in Nat
    BY <2>2, RunnerSets, FiniteParts, Monotone
  <2>4. Cardinality(Occupied(p)) <= Capacity
    BY <1>1 DEF IInv, Sound, Room
  <2> QED BY <2>3, <2>4, DispatchAssumption
<1> QED BY <1>1, IInvariance, PTL

-----------------------------------------------------------------------------
(* Types, and what a poll has found and has still to offer. *)

(* What is sorted is a sequence of it, and leaves nothing out.             *)
LEMMA SortedSequence ==
  ASSUME NEW p, NEW F, NEW S \in SUBSET Job, NEW T, NEW s \in Sorted(p, F, S, T)
  PROVE  s \in Seq(Job) /\ ToSet(s) = S
<1> DEFINE n == Cardinality(S) + Cardinality(S \cap T)
<1>1. n \in Nat
  <2>1. IsFiniteSet(S) /\ IsFiniteSet(S \cap T)
    BY DispatchAssumption, FS_Subset
  <2> QED BY <2>1, FS_CardinalityType
<1>2. s \in [1 .. n -> S]
  BY DEF Sorted
<1> HIDE DEF n
<1>3. s \in Seq(Job)
  BY <1>1, <1>2
<1>4. ASSUME NEW j \in S PROVE \E m \in DOMAIN s : s[m] = j
  <2>1. Cardinality({m \in DOMAIN s : s[m] = j}) = IF j \in T THEN 2 ELSE 1
    BY Zenon DEF Sorted
  <2>2. {m \in DOMAIN s : s[m] = j} # {}
    BY <2>1, FS_EmptySet
  <2> QED BY <2>2
<1> QED BY <1>2, <1>3, <1>4 DEF ToSet

(* An offer under way is for the head of the queue.                        *)
Tracked(p) == poll[p] \in {"fetched", "create", "insert"} => queue[p] # <<>>

Typed == TypeOK /\ \A p \in Participant : Tracked(p)

(* A step that changes no more than what a participant is at.              *)
LEMMA TrackedElsewhere ==
  ASSUME Typed, NEW p \in Participant, Tracked(p)',
         \A q \in Participant \ {p} :
           queue'[q] = queue[q] /\ poll'[q] = poll[q]
  PROVE  \A q \in Participant : Tracked(q)'
<1>1. ASSUME NEW q \in Participant, q # p PROVE Tracked(q)'
  BY <1>1 DEF Typed, Tracked
<1> QED BY <1>1

(* A step that changes nothing of it.                                      *)
LEMMA TrackedKept ==
  ASSUME Typed, UNCHANGED pollVars
  PROVE  \A q \in Participant : Tracked(q)'
BY DEF Typed, Tracked, pollVars

LEMMA InitTyped == Init => Typed
<1> SUFFICES ASSUME Init PROVE Typed
  OBVIOUS
<1>1. TypeOK
  BY DEF Init, TypeOK, Stage
<1>2. ASSUME NEW p \in Participant PROVE Tracked(p)
  BY DEF Init, Tracked
<1> QED BY <1>1, <1>2 DEF Typed

(* Steps of GitHub and of processes.                                       *)
LEMMA JobTyped ==
  ASSUME Typed, NEW j \in Job, JobStep(j)
  PROVE  Typed'
<1> USE DEF Typed, TypeOK, githubVars, runnerVars, claimVars, pollVars, slotVars, ctxVars
<1>1. CASE Submit(j) \/ Cancel(j) \/ Abandon(j)
  BY <1>1, TrackedKept DEF Submit, Cancel, Abandon
<1>2. ASSUME NEW r \in Runner, Assign(j, r) PROVE Typed'
  BY <1>2, TrackedKept DEF Assign
<1>3. ASSUME NEW r \in Runner, Finish(j, r) PROVE Typed'
  BY <1>3, TrackedKept DEF Finish
<1> QED BY <1>1, <1>2, <1>3 DEF JobStep

LEMMA RunnerTyped ==
  ASSUME Typed, NEW r \in Runner, RunnerStep(r)
  PROVE  Typed'
<1> USE DEF Typed, TypeOK, Stage, githubVars, runnerVars, claimVars, pollVars, slotVars, ctxVars
<1>1. CASE Watch(r) BY <1>1, TrackedKept DEF Watch
<1>2. CASE RunAssigned(r) BY <1>2, TrackedKept DEF RunAssigned, Move
<1>3. CASE Quit(r) BY <1>3, TrackedKept DEF Quit
<1>4. CASE Delete(r) BY <1>4, TrackedKept DEF Delete, Move, Removed
<1>5. CASE RunRecords(r) BY <1>5, TrackedKept DEF RunRecords, Move
<1> QED BY <1>1, <1>2, <1>3, <1>4, <1>5 DEF RunnerStep

(* Steps of lifecycles; the count of slots is a matter of the ledgers.     *)
LEMMA LifecycleTyped ==
  ASSUME Typed, Shape', NEW p \in Participant, NEW r \in Runner, LifecycleStep(p, r)
  PROVE  Typed'
<1>0. local' \in [Participant -> Nat] /\ stage' \in [Runner -> Stage]
  BY DEF Shape
<1> USE <1>0 DEF Typed, TypeOK, Stage, githubVars, runnerVars, claimVars, pollVars, slotVars, ctxVars
<1>1. CASE RunStarts(p, r) BY <1>1, TrackedKept DEF RunStarts, Move
<1>2. CASE RunRefused(p, r) BY <1>2, TrackedKept DEF RunRefused, Move
<1>3. CASE RunEnds(p, r) BY <1>3, TrackedKept DEF RunEnds, Move
<1>4. CASE Retire(p, r) BY <1>4, TrackedKept DEF Retire, Retired, Move
<1> QED BY <1>1, <1>2, <1>3, <1>4 DEF LifecycleStep

(* Steps of a poll.                                                        *)
LEMMA PollTyped ==
  ASSUME Typed, Shape', NEW p \in Participant, PollStep(p)
  PROVE  Typed'
<1>0. /\ TypeOK /\ Tracked(p)
      /\ Serves[p] \subseteq Job /\ recovered' \in [Participant -> Nat]
      /\ stage' \in [Runner -> Stage]
      /\ proc' \in [Runner -> {"none", "idle", "busy", "gone"}]
  BY DispatchAssumption DEF Typed, Shape
<1>01. queue[p] # <<>> => Head(queue[p]) \in Job /\ Tail(queue[p]) \in Seq(Job)
  BY <1>0 DEF TypeOK
<1> USE <1>0, <1>01 DEF TypeOK, githubVars, runnerVars, claimVars, pollVars, slotVars,
      ctxVars, Goto, Pop, Tracked
<1>1. CASE PollStart(p)
  <2>1. TypeOK' BY <1>1 DEF PollStart
  <2>2. Tracked(p)' BY <1>1 DEF PollStart
  <2> QED BY <1>1, <2>1, <2>2, TrackedElsewhere DEF PollStart, Typed
<1>2. CASE PollFails(p)
  <2>1. TypeOK' BY <1>2 DEF PollFails
  <2>2. Tracked(p)' BY <1>2 DEF PollFails
  <2> QED BY <1>2, <2>1, <2>2, TrackedElsewhere DEF PollFails, Typed
<1>3. ASSUME NEW F, NEW G, ClaimWith(p, F, G) PROVE Typed'
  <2> DEFINE left == Known(p) \ F
             due == Due(p, seen[p] \ left, F)
             S == (left \cup seen[p]) \ G
  <2>1. PICK all \in Sorted(p, F, S, {}) : claims' = [claims EXCEPT ![p] = all]
    BY <1>3 DEF ClaimWith
  <2>2. PICK eligible \in Sorted(p, F, seen[p] \cap due, twice[p]) :
          queue' = [queue EXCEPT ![p] = eligible]
    BY <1>3 DEF ClaimWith
  <2>3. /\ S \in SUBSET Job /\ due \in SUBSET Job
        /\ seen[p] \cap due \in SUBSET Job
    BY DEF Due, Known, ToSet
  <2>4. ripe' = [ripe EXCEPT ![p] = due \ G]
    BY <1>3 DEF ClaimWith
  <2> HIDE DEF S, due
  <2>5. all \in Seq(Job) /\ eligible \in Seq(Job)
    BY <2>1, <2>2, <2>3, SortedSequence
  <2>6. TypeOK'
    <3>1. /\ claims' \in [Participant -> Seq(Job)] /\ ripe' \in [Participant -> SUBSET Job]
          /\ queue' \in [Participant -> Seq(Job)]
      BY <2>1, <2>2, <2>3, <2>4, <2>5
    <3>2. /\ seen' \in [Participant -> SUBSET Job] /\ twice' \in [Participant -> SUBSET Job]
          /\ poll' \in [Participant ->
                 {"tick", "observe", "offer", "fetched", "create", "insert"}]
          /\ UNCHANGED <<githubVars, runnerVars, todo, slotVars, ctxVars>>
      BY <1>3 DEF ClaimWith
    <3> QED BY <3>1, <3>2
  <2>7. /\ Tracked(p)'
        /\ \A q \in Participant \ {p} : queue'[q] = queue[q] /\ poll'[q] = poll[q]
    BY <1>3, <2>2 DEF ClaimWith
  <2> QED BY <2>6, <2>7, TrackedElsewhere DEF Typed
<1>4. CASE Skip(p)
  <2>1. TypeOK' BY <1>4 DEF Skip
  <2>2. Tracked(p)' BY <1>4 DEF Skip
  <2> QED BY <1>4, <2>1, <2>2, TrackedElsewhere DEF Skip, Typed
<1>5. CASE Fetch(p)
  <2>1. TypeOK' BY <1>5 DEF Fetch
  <2>2. Tracked(p)' BY <1>5 DEF Fetch
  <2> QED BY <1>5, <2>1, <2>2, TrackedElsewhere DEF Fetch, Typed
<1>6. CASE Recheck(p)
  <2>0. /\ queue' \in [Participant -> Seq(Job)]
        /\ poll' \in [Participant ->
                 {"tick", "observe", "offer", "fetched", "create", "insert"}]
        /\ UNCHANGED <<githubVars, runnerVars, claimVars, todo, seen, twice, slotVars, ctxVars>>
    BY <1>6 DEF Recheck
  <2>1. TypeOK' BY <2>0
  <2>2. Tracked(p)' BY <1>6 DEF Recheck
  <2>3. \A q \in Participant \ {p} : queue'[q] = queue[q] /\ poll'[q] = poll[q]
    BY <1>6 DEF Recheck
  <2> QED BY <2>1, <2>2, <2>3, TrackedElsewhere DEF Typed
<1>7. CASE PollDone(p)
  <2>1. TypeOK' BY <1>7 DEF PollDone
  <2>2. Tracked(p)' BY <1>7 DEF PollDone
  <2> QED BY <1>7, <2>1, <2>2, TrackedElsewhere DEF PollDone, Typed
<1>8. ASSUME NEW j \in Job, Observe(p, j) PROVE Typed'
  <2>1. TypeOK' BY <1>8 DEF Observe
  <2>2. Tracked(p)' BY <1>8 DEF Observe
  <2> QED BY <1>8, <2>1, <2>2, TrackedElsewhere DEF Observe, Typed
<1>9. ASSUME NEW j \in Job, ObserveAgain(p, j) PROVE Typed'
  <2>1. TypeOK' BY <1>9 DEF ObserveAgain
  <2>2. Tracked(p)' BY <1>9 DEF ObserveAgain
  <2> QED BY <1>9, <2>1, <2>2, TrackedElsewhere DEF ObserveAgain, Typed
<1>10. ASSUME NEW r \in Runner, Create(p, r) PROVE Typed'
  <2>1. TypeOK' BY <1>10 DEF Create, Register
  <2>2. Tracked(p)' BY <1>10 DEF Create
  <2> QED BY <1>10, <2>1, <2>2, TrackedElsewhere DEF Create, Typed
<1>11. ASSUME NEW r \in Runner, CreateLost(p, r) PROVE Typed'
  <2>1. TypeOK' BY <1>11 DEF CreateLost, Register
  <2>2. Tracked(p)' BY <1>11 DEF CreateLost
  <2> QED BY <1>11, <2>1, <2>2, TrackedElsewhere DEF CreateLost, Typed
<1>12. ASSUME NEW r \in Runner, Insert(p, r) PROVE Typed'
  <2>0. /\ Head(queue[p]) \in Job /\ Tail(queue[p]) \in Seq(Job)
        /\ active' = active \/ active' = [active EXCEPT ![p] = @ \cup {Head(queue[p])}]
    BY <1>12 DEF Insert
  <2>1. TypeOK'
    <3>1. active' \in [Participant -> SUBSET Job]
      <4>1. active[p] \cup {Head(queue[p])} \in SUBSET Job
        BY <2>0
      <4>2. \/ active' = active
            \/ active' = [active EXCEPT ![p] = active[p] \cup {Head(queue[p])}]
        BY <2>0
      <4>3. active \in [Participant -> SUBSET Job]
        OBVIOUS
      <4> HIDE DEF TypeOK
      <4> QED BY <4>1, <4>2, <4>3, Zenon
    <3>2. queue' \in [Participant -> Seq(Job)] /\ UNCHANGED <<recovered, proc>>
      BY <1>12, <2>0 DEF Insert
    <3>3. /\ UNCHANGED <<githubVars, owner, prompt, assigned, claimVars, todo, seen,
                         twice, local, ctxVars>>
          /\ poll' \in [Participant ->
                 {"tick", "observe", "offer", "fetched", "create", "insert"}]
      BY <1>12 DEF Insert
    <3> QED BY <3>1, <3>2, <3>3
  <2>2. Tracked(p)' BY <1>12 DEF Insert
  <2> QED BY <1>12, <2>1, <2>2, TrackedElsewhere DEF Insert, Typed
<1>13. CASE PollUncounted(p)
  <2>1. TypeOK' BY <1>13 DEF PollUncounted
  <2>2. Tracked(p)' BY <1>13 DEF PollUncounted
  <2> QED BY <1>13, <2>1, <2>2, TrackedElsewhere DEF PollUncounted, Typed
<1> QED BY <1>1, <1>2, <1>3, <1>4, <1>5, <1>6, <1>7, <1>8, <1>9, <1>10, <1>11, <1>12,
           <1>13 DEF PollStep, Claim, ClaimAnew

(* Time, interruptions and restarts.                                       *)
LEMMA ParticipantTyped ==
  ASSUME Typed, Shape', NEW p \in Participant, ParticipantStep(p)
  PROVE  Typed'
<1>0. TypeOK /\ Tracked(p) /\ stage' \in [Runner -> Stage]
  BY DEF Typed, Shape
<1> USE <1>0 DEF TypeOK, githubVars, runnerVars, claimVars, pollVars, slotVars, ctxVars,
      Tracked
<1>1. CASE Ripen(p)
  <2>1. PICK n \in DOMAIN claims[p] : ripe' = [ripe EXCEPT ![p] = @ \cup {claims[p][n]}]
    BY <1>1 DEF Ripen
  <2>2. claims[p][n] \in Job
    BY <2>1
  <2>3. TypeOK' BY <1>1, <2>1, <2>2 DEF Ripen
  <2>4. Tracked(p)' BY <1>1, <2>1, <2>2 DEF Ripen
  <2> QED BY <1>1, <2>1, <2>3, <2>4, TrackedElsewhere DEF Ripen, Typed
<1>2. CASE Interrupt(p)
  BY <1>2, TrackedKept DEF Interrupt, Typed
<1>3. CASE Crash(p) \/ Exit(p)
  <2>1. Restart(p) /\ exits' \in Nat
    BY <1>3 DEF Crash, Exit
  <2>2. TypeOK' BY <2>1 DEF Restart
  <2>3. Tracked(p)' BY <2>1 DEF Restart
  <2> QED BY <2>1, <2>2, <2>3, TrackedElsewhere DEF Restart, Typed
<1> QED BY <1>1, <1>2, <1>3, PollTyped, LifecycleTyped DEF ParticipantStep

LEMMA StepTyped ==
  ASSUME Typed, Shape', [Next]_vars
  PROVE  Typed'
<1>1. CASE UNCHANGED vars
  BY <1>1, TrackedKept DEF vars, Typed, TypeOK, githubVars, runnerVars, claimVars,
     pollVars, slotVars, ctxVars
<1> QED BY <1>1, JobTyped, RunnerTyped, ParticipantTyped DEF Next

LEMMA TypedInvariance == Spec => []Typed
<1>1. Typed /\ IInv /\ IInv' /\ [Next]_vars => Typed'
  BY StepTyped DEF IInv
<1> QED BY <1>1, InitTyped, IInvariance, PTL DEF Spec

(* Every variable keeps its type; in particular a poll never takes the     *)
(* head of an empty queue (participant.go:91-98).                          *)
THEOREM TypeCorrect == Spec => []TypeOK
<1>1. Typed => TypeOK
  BY DEF Typed
<1> QED BY <1>1, TypedInvariance, PTL

-----------------------------------------------------------------------------
(* Registrations, of participants that are not stopped, when GitHub does   *)
(* what it answers.                                                        *)

Calm == Faults \cap {"delete", "lost_reply", "stop", "crash"} = {}

Held ==
  /\ stopping = [p \in Participant |-> FALSE]
  /\ registered \subseteq Runner
  /\ \A r \in registered : stage[r] \in Slotted \cup {"created", "spawned", "ended"}

\* What becomes of registrations in a step that neither makes one nor ends
\* the lifecycle of one.
StagesHeld ==
  /\ registered' \subseteq registered
  /\ \A r \in registered' :
       stage'[r] = stage[r] \/ stage'[r] \in Slotted \cup {"spawned", "ended"}

LEMMA HeldKept ==
  ASSUME Held, StagesHeld, UNCHANGED stopping
  PROVE  Held'
BY DEF Held, StagesHeld

(* Steps that leave the stages alone.                                      *)
LEMMA HeldQuiet ==
  ASSUME Held, UNCHANGED <<stage, stopping>>, registered' \subseteq registered
  PROVE  Held'
BY DEF Held

LEMMA HeldPoll ==
  ASSUME Calm, IInv, Held, NEW p \in Participant, PollStep(p)
  PROVE  Held'
<1>1. CASE \/ PollUncounted(p) \/ PollMoves(p)
            \/ \E j \in Job : Observe(p, j) \/ ObserveAgain(p, j)
  <2>1. UNCHANGED <<stage, stopping, registered>>
    BY <1>1 DEF PollUncounted, PollMoves, PollFails, Claim, ClaimAnew, ClaimWith, Skip, Fetch, Recheck,
       PollDone, Observe, ObserveAgain, githubVars, runnerVars, ctxVars
  <2> QED BY <2>1, HeldQuiet
<1>2. ASSUME NEW r \in Runner, Create(p, r) PROVE Held'
  <2>1. /\ registered' = registered \cup {r} /\ UNCHANGED stopping
        /\ stage' = [stage EXCEPT ![r] = "created"]
    BY <1>2 DEF Create, Register, ctxVars
  <2> QED BY <2>1 DEF Held, IInv, Shape
<1>3. ASSUME NEW r \in Runner, CreateLost(p, r) PROVE FALSE
  BY <1>3 DEF CreateLost, Calm
<1>4. ASSUME NEW r \in Runner, Insert(p, r) PROVE Held'
  <2>1. poll[p] = "insert" /\ UNCHANGED <<registered, stopping>>
    BY <1>4 DEF Insert, Goto, githubVars, ctxVars
  <2>2. ~Full(p)
    BY <2>1, FullNever
  <2>3. stage' = [stage EXCEPT ![r] = "spawned"]
    BY <1>4, <2>2 DEF Insert
  <2>4. StagesHeld
    BY <2>1, <2>3 DEF StagesHeld, Held, IInv, Shape
  <2> QED BY <2>1, <2>4, HeldKept
<1>5. CASE PollStart(p)
  <2>1. /\ UNCHANGED <<stopping, registered>>
        /\ \A r \in Runner : stage'[r] = stage[r] \/ stage[r] \in {"lost", "kept"}
    BY <1>5 DEF PollStart, Recovered, githubVars, ctxVars, IInv, Shape
  <2>2. StagesHeld
    BY <2>1 DEF StagesHeld, Held
  <2> QED BY <2>1, <2>2, HeldKept
<1> QED BY <1>1, <1>2, <1>3, <1>4, <1>5 DEF PollStep, PollMoves

LEMMA HeldRunner ==
  ASSUME IInv, Calm, Held, NEW r \in Runner,
         RunnerStep(r) \/ \E p \in Participant : LifecycleStep(p, r)
  PROVE  Held'
<1>1. CASE Watch(r) \/ Quit(r)
  <2>1. UNCHANGED <<stage, stopping, registered>>
    BY <1>1 DEF Watch, Quit, githubVars, ctxVars
  <2> QED BY <2>1, HeldQuiet
<1>2. ASSUME RunRecords(r) \/ RunAssigned(r) \/ \E p \in Participant :
               RunStarts(p, r) \/ RunRefused(p, r) \/ RunEnds(p, r)
      PROVE  Held'
  <2>1. UNCHANGED <<registered, stopping>>
    BY <1>2 DEF RunRecords, RunAssigned, RunStarts, RunRefused, RunEnds, githubVars, ctxVars
  <2>2. \E to \in Slotted \cup {"ended"} : stage' = [stage EXCEPT ![r] = to]
    BY <1>2 DEF RunRecords, RunAssigned, RunStarts, RunRefused, RunEnds, Move
  <2>3. StagesHeld
    BY <2>1, <2>2 DEF StagesHeld, Held, IInv, Shape
  <2> QED BY <2>1, <2>3, HeldKept
<1>3. CASE Delete(r)
  <2>1. /\ registered' = registered \ {r} /\ UNCHANGED stopping
        /\ stage' = [stage EXCEPT ![r] = "deleted"]
    BY <1>3 DEF Delete, Removed, Move, Calm, ctxVars
  <2>2. StagesHeld
    BY <2>1 DEF StagesHeld, Held, IInv, Shape
  <2> QED BY <2>1, <2>2, HeldKept
<1>4. ASSUME NEW p \in Participant, Retire(p, r) PROVE Held'
  <2>1. /\ UNCHANGED <<registered, stopping>> /\ stage[r] = "deleted"
        /\ \E to \in Stage : stage' = [stage EXCEPT ![r] = to]
    BY <1>4 DEF Retire, Stage, Move, githubVars, ctxVars
  <2>2. r \notin registered
    BY <2>1 DEF Held
  <2>3. StagesHeld
    BY <2>1, <2>2 DEF StagesHeld, Held, IInv, Shape
  <2> QED BY <2>1, <2>3, HeldKept
<1> QED BY <1>1, <1>2, <1>3, <1>4 DEF RunnerStep, LifecycleStep

LEMMA HeldStep ==
  ASSUME Calm, IInv, Held, [Next]_vars
  PROVE  Held'
<1>1. ASSUME NEW p \in Participant, ParticipantStep(p) PROVE Held'
  <2>1. CASE Ripen(p)
    BY <2>1, HeldQuiet DEF Ripen, githubVars, runnerVars, ctxVars
  <2>2. ~Interrupt(p) /\ ~Crash(p)
    BY DEF Interrupt, Crash, Calm
  <2>3. ~Exit(p)
    BY DEF Exit, Held
  <2> QED BY <1>1, <2>1, <2>2, <2>3, HeldPoll, HeldRunner DEF ParticipantStep
<1>2. ASSUME NEW j \in Job, JobStep(j) PROVE Held'
  <2>1. /\ UNCHANGED <<stage, stopping>> /\ registered' \subseteq registered
    BY <1>2 DEF JobStep, Submit, Cancel, Abandon, Assign, Finish, runnerVars, ctxVars
  <2> QED BY <2>1, HeldQuiet
<1>3. CASE UNCHANGED vars
  BY <1>3, HeldQuiet DEF vars, githubVars, runnerVars, ctxVars
<1> QED BY <1>1, <1>2, <1>3, HeldRunner DEF Next

LEMMA HeldInvariance ==
  ASSUME Calm
  PROVE  Spec => []Held
<1>1. Init => Held
  BY DEF Init, Held
<1>2. Calm
  OBVIOUS
<1>3. IInv /\ Held /\ [Next]_vars => Held'
  BY <1>2, HeldStep
<1> QED BY <1>1, <1>3, IInvariance, PTL DEF Spec

(* Every registration has somebody who will remove it, unless the          *)
(* participant is stopped or a removal fails (participant.go:193-199).     *)
THEOREM RegistrationsAlwaysHeld ==
  ASSUME Calm
  PROVE  Spec => []RegistrationsHeld
<1>1. Held => RegistrationsHeld
  BY DEF Held, RegistrationsHeld
<1> QED BY <1>1, HeldInvariance, PTL

(* A participant never has more registrations at GitHub than its capacity, *)
(* with the one that waits for its place (participant.go:153, 171-184).    *)
THEOREM RegistrationsFit ==
  ASSUME Calm
  PROVE  Spec => []RegistrationsBounded
<1>1. ASSUME IInv, Held PROVE RegistrationsBounded
  <2> SUFFICES ASSUME NEW p \in Participant
               PROVE  Cardinality({r \in registered : owner[r] = {p}}) <= Capacity
    BY DEF RegistrationsBounded
  <2> DEFINE A == {r \in registered : owner[r] = {p}}
             B == Lifecycles(p) \cup Waiting(p)
  <2>1. A \in SUBSET B /\ B \in SUBSET Runner
    BY <1>1 DEF Held, Lifecycles, Waiting, Of
  <2>2. /\ Cardinality(A) <= Cardinality(B)
        /\ Cardinality(A) \in Nat /\ Cardinality(B) \in Nat
    BY <2>1, FiniteParts, Monotone
  <2>3. /\ Cardinality(Lifecycles(p)) = Cardinality(active[p])
        /\ Cardinality(active[p]) <= Capacity
        /\ Capacity \in Nat /\ Cardinality(Lifecycles(p)) \in Nat
        /\ IsFiniteSet(Lifecycles(p))
    BY <1>1, DispatchAssumption, RunnerSets, FiniteParts DEF IInv, Sound, LedgerOf
  <2>4. CASE Waiting(p) = {}
    <3>1. B = Lifecycles(p)
      BY <2>4
    <3>2. Cardinality(B) <= Capacity
      BY <2>3, <3>1
    <3> HIDE DEF A, B
    <3>3. Cardinality(A) <= Capacity
      BY <2>2, <2>3, <3>2
    <3> QED BY <3>3 DEF A
  <2>5. ASSUME NEW w \in Waiting(p) PROVE Cardinality(B) <= Capacity
    <3>1. Waiting(p) = {w} /\ poll[p] = "insert"
      BY <1>1, <2>5 DEF IInv, Sound, Creators
    <3>2. w \notin Lifecycles(p)
      BY <2>5 DEF Lifecycles, Waiting
    <3>3. Cardinality(Lifecycles(p) \cup {w}) = Cardinality(Lifecycles(p)) + 1
      BY <2>3, <3>2, FS_AddElement
    <3>4. Cardinality(active[p]) < Capacity
      BY <1>1, <3>1 DEF IInv, Sound, Offers
    <3> QED BY <2>3, <3>1, <3>3, <3>4
  <2>6. CASE Waiting(p) # {}
    <3>1. Cardinality(B) <= Capacity
      BY <2>5, <2>6
    <3> HIDE DEF A, B
    <3>2. Cardinality(A) <= Capacity
      BY <2>2, <2>3, <3>1
    <3> QED BY <3>2 DEF A
  <2> QED BY <2>4, <2>6
<1> QED BY <1>1, IInvariance, HeldInvariance, PTL

=============================================================================
