----------------------------- MODULE MCSampleSeed -----------------------------
(* SampleSeed on a small instance: a release that has seeded the database   *)
(* before, or not, and the next one.                                        *)
EXTENDS SampleSeed, TLC

CONSTANTS b1, b2

TwoReleases == b1 :> 1 @@ b2 :> 2
=============================================================================
