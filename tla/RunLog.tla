-------------------------------- MODULE RunLog --------------------------------
(***************************************************************************)
(* What the records promise: each accepted call changes the state of one   *)
(* step of one run, at once, and is judged against every run as it then    *)
(* stands.  RunRecords implements this with a lock directory and files.    *)
(***************************************************************************)
EXTENDS StepRules

VARIABLES
  workflow,   \* the workflow the runs follow
  log         \* the state of each step in each run

vars == <<workflow, log>>

Accept(r, s, a) ==
  /\ Reconciles(workflow, log, r, s, a)
  /\ Permitted(workflow, log[r], s, a)
  /\ log' = [log EXCEPT ![r][s] = Result(log[r][s], a)]
  /\ UNCHANGED workflow

Init ==
  /\ workflow \in {wf \in Workflows : Validated(wf)}
  /\ log = [r \in Runs |-> NothingRecorded]

Next == \E r \in Runs, s \in Steps, a \in State : Accept(r, s, a)

Spec == Init /\ [][Next]_vars
=============================================================================
