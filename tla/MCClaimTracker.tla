--------------------------- MODULE MCClaimTracker ---------------------------
(* A model-checking instance of ClaimTracker. *)
EXTENDS ClaimTracker, TLC

CONSTANTS j1, j2, j3

Jobs == {j1, j2, j3}

\* Jobs are interchangeable.
Symmetry == Permutations(Jobs)

=============================================================================
