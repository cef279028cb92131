--------------------------- MODULE MCCommandSession ---------------------------
(* CommandSession on a small instance. *)
EXTENDS CommandSession, TLC

CONSTANTS r1, r1b, d1

\* r1b is r1 with a blank after its tenant.
MCStripped == [r \in {r1, r1b, d1} |-> IF r = r1b THEN r1 ELSE r]

Symmetry == Permutations(Logins)
=============================================================================
