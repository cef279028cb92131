------------------------- MODULE MCDesignLifecycle -------------------------
(* DesignLifecycle on small instances: one design, two contents. *)
EXTENDS DesignLifecycle, TLC

\* Tasks are interchangeable, and so are workers (safety runs only).
Symmetry == Permutations(Tasks) \cup Permutations(Workers)

\* So are the digests where every content is valid.
SymmetryOfDigests == Symmetry \cup Permutations(Digests)
=============================================================================
