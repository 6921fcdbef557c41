-------------------------- MODULE MCRunnerManager --------------------------
(* Model-checking instances of RunnerManager. *)
EXTENDS RunnerManager, TLC

CONSTANTS a, b, c

OneInstance == {a}
TwoInstances == {a, b}
ThreeInstances == {a, b, c}

\* Instances are interchangeable in every safety property.
SymTwo == Permutations(TwoInstances)
SymThree == Permutations(ThreeInstances)

=============================================================================
