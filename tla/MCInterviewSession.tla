------------------------ MODULE MCInterviewSession ------------------------
(***************************************************************************)
(* Small instances of InterviewSession for TLC.                            *)
(***************************************************************************)
EXTENDS InterviewSession, TLC

\* The tasks run the same code and are only compared for equality.
Symmetry == Permutations(Workers)
=============================================================================
