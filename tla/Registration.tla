---------------------------- MODULE Registration ----------------------------
(***************************************************************************)
(* What the service sees of one runner registration at GitHub: it is asked *)
(* for at most once, held when the call returned its ID, and deleted once. *)
(* How often a request is sent, and which replies are lost, is hidden.     *)
(***************************************************************************)

VARIABLES
  runner,  \* "absent" or "present": the registration at GitHub
  client   \* what the calls so far have told the service

vars == <<runner, client>>

Init == runner = "absent" /\ client = "none"

\* Registered, but nobody has been told.
Appear ==
  /\ client = "none" /\ runner = "absent"
  /\ runner' = "present"
  /\ UNCHANGED client

Obtain ==
  /\ client = "none" /\ runner = "absent"
  /\ runner' = "present" /\ client' = "held"

\* The call failed; whether there is a registration is not known.
Refuse ==
  /\ client = "none"
  /\ runner' \in {runner, "present"}
  /\ client' = "failed"

\* Deleted, or removed by GitHub after its job.
Vanish ==
  /\ client = "held" /\ runner = "present"
  /\ runner' = "absent"
  /\ UNCHANGED client

Release ==
  /\ client = "held"
  /\ runner' = "absent" /\ client' = "released"

GiveUp ==
  /\ client = "held"
  /\ runner' \in {runner, "absent"}
  /\ client' = "unreleased"

\* The next registration has a name of its own.
Forget ==
  /\ client \in {"failed", "released", "unreleased"}
  /\ runner' = "absent" /\ client' = "none"

Next ==
  Appear \/ Obtain \/ Refuse \/ Vanish \/ Release \/ GiveUp \/ Forget

Spec == Init /\ [][Next]_vars

(* A registration that was released is gone, and stays gone.               *)
ReleasedIsGone == client = "released" => runner = "absent"

=============================================================================
