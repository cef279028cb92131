-------------------------- MODULE MCAssetRegistry --------------------------
(* AssetRegistry on small instances: one asset, one built design. *)
EXTENDS AssetRegistry, TLC

\* Tasks, versions and channels are interchangeable.
Symmetry ==
  Permutations(Tasks) \cup Permutations(Versions) \cup Permutations(Channels)
=============================================================================
