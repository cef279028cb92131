--------------------------- MODULE MCPackageInstall ---------------------------
(* PackageInstall on small instances: two versions of one package. *)
EXTENDS PackageInstall, TLC

CONSTANTS p1, p2, a, b

\* The second package changes the first file and has no second one.
OneFileLess == p1 :> <<a, a>> @@ p2 :> <<b, NoFile>>

Symmetry == Permutations(Processes)
=============================================================================
