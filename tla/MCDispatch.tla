----------------------------- MODULE MCDispatch -----------------------------
(* Model-checking instances of Dispatch. *)
EXTENDS Dispatch

CONSTANTS p1, p2

OneParticipant == {p1}
TwoParticipants == {p1, p2}

\* The second participant lacks a label of job 2.
ServesAll == [p \in Participant |-> Job]
ServesSome == [p \in Participant |-> IF p = p1 THEN Job ELSE {1}]

=============================================================================
