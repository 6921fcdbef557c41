----------------------------- MODULE RunnerPool -----------------------------
(***************************************************************************)
(* What the dispatcher promises the machine it runs on, whatever its own   *)
(* process goes through: at most Capacity runners are alive, a runner is   *)
(* alive only inside a workspace prepared for it, its workspace outlives   *)
(* it, a runner that is gone never comes back, and every workspace is      *)
(* given back in the end.                                                  *)
(***************************************************************************)
EXTENDS Integers, FiniteSets

CONSTANTS
  Instance,   \* the instance identifiers, one for every runner ever offered
  Capacity    \* the machine's limit

VARIABLES
  runner,     \* "none", "idle", "busy" or "gone", for each instance
  workspace   \* the instances that have a directory

vars == <<runner, workspace>>

State == {"none", "idle", "busy", "gone"}
Live == {i \in Instance : runner[i] \in {"idle", "busy"}}

TypeOK == /\ runner \in [Instance -> State]
          /\ workspace \subseteq Instance

Init == /\ runner = [i \in Instance |-> "none"]
        /\ workspace = {}

Prepare(i) ==
  /\ i \notin workspace
  /\ runner[i] = "none"
  /\ workspace' = workspace \cup {i}
  /\ UNCHANGED runner

Launch(i) ==
  /\ i \in workspace
  /\ runner[i] = "none"
  /\ Cardinality(Live) < Capacity
  /\ runner' = [runner EXCEPT ![i] = "idle"]
  /\ UNCHANGED workspace

TakeJob(i) ==
  /\ runner[i] = "idle"
  /\ runner' = [runner EXCEPT ![i] = "busy"]
  /\ UNCHANGED workspace

\* The runner ends by itself, or is killed.
End(i) ==
  /\ i \in Live
  /\ runner' = [runner EXCEPT ![i] = "gone"]
  /\ UNCHANGED workspace

Reclaim(i) ==
  /\ i \in workspace
  /\ i \notin Live
  /\ workspace' = workspace \ {i}
  /\ UNCHANGED runner

Step(i) == \/ Prepare(i) \/ Launch(i) \/ TakeJob(i)
           \/ End(i)     \/ Reclaim(i)

Next == \E i \in Instance : Step(i)

Spec == Init /\ [][Next]_vars

=============================================================================
