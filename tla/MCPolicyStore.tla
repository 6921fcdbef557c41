--------------------------- MODULE MCPolicyStore ---------------------------
(* Model-checking instance of PolicyStore. *)
EXTENDS PolicyStore, TLC

CONSTANTS t1, t2

\* Two repositories of one owner and one of another.
Repositories == {"red", "blue", "own"}
Owners == [r \in Repositories |-> IF r = "own" THEN "bob" ELSE "ann"]

Tools == {t1, t2}
Symmetry == Permutations(Tools)

=============================================================================
