----------------------------- MODULE MCRunRecords -----------------------------
(* RunRecords on small instances: two runs of a workflow of two steps. *)
EXTENDS RunRecords, TLC

CONSTANTS s1, s2, owner

\* A drafted step approved afterwards, then an external write.
Publish ==
  s1 :> [needs |-> {}, effect |-> "local", gate |-> "after",
         approver |-> owner, manual |-> FALSE] @@
  s2 :> [needs |-> {s1}, effect |-> "external-write", gate |-> "before",
         approver |-> owner, manual |-> FALSE]

\* An external write handed to a person, then a manual step nobody approves.
HandOff ==
  s1 :> [needs |-> {}, effect |-> "external-write", gate |-> "before",
         approver |-> owner, manual |-> TRUE] @@
  s2 :> [needs |-> {s1}, effect |-> "manual", gate |-> "none",
         approver |-> None, manual |-> TRUE]

TwoWorkflows == {Publish, HandOff}
Symmetry == Permutations(Runs) \cup Permutations(Writers)
=============================================================================
