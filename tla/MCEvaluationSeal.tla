--------------------------- MODULE MCEvaluationSeal ---------------------------
(* EvaluationSeal on small instances: two files, the scenarios and another *)
(* one, with two versions each.                                            *)
EXTENDS EvaluationSeal, TLC

CONSTANTS v1, v2, ready, blocked

OneExpectation == v1 :> [s \in Scenarios |-> ready] @@ v2 :> [s \in Scenarios |-> blocked]

\* The two versions, each with the state it expects, may be exchanged.
Exchange == v1 :> v2 @@ v2 :> v1 @@ ready :> blocked @@ blocked :> ready

Symmetry == Permutations(Processes) \cup Permutations(Results) \cup {Exchange}
=============================================================================
