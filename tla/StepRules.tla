------------------------------- MODULE StepRules -------------------------------
(***************************************************************************)
(* What may be recorded about the steps of a workflow: the workflow's      *)
(* specification of each step (harness_factory/contracts.py) and the       *)
(* transition judged against it, when it is recorded and again when a      *)
(* record's history is replayed (harness_factory/records.py).              *)
(*                                                                         *)
(* Evidence is present or not; times, names and texts are left out.        *)
(***************************************************************************)

CONSTANTS
  Runs,       \* names of runs
  Steps,      \* identifiers of the workflow's steps
  People,     \* names an approval can be recorded under
  None,       \* no person, no run, no step
  Workflows   \* candidate workflows: a specification for each step

ASSUME NamesAssumption == None \notin People \cup Runs \cup Steps

-----------------------------------------------------------------------------
(* Workflows *)

Effects == {"read", "local", "external-write", "manual"}
Outward == {"external-write", "manual"}

\* gate: no approval, or approval with approval_timing "before" or "after".
StepSpec ==
  [needs: SUBSET Steps, effect: Effects, gate: {"none", "before", "after"},
   approver: People \cup {None}, manual: BOOLEAN]

\* What _validate asks of the steps, as far as records depend on it.
Validated(wf) ==
  /\ wf \in [Steps -> StepSpec]
  /\ \A s \in Steps :
       /\ wf[s].gate = "after" => wf[s].effect \in {"read", "local"}
       /\ wf[s].effect = "external-write" => wf[s].gate # "none"
       /\ wf[s].approver = None <=> wf[s].gate = "none"
       /\ wf[s].manual => wf[s].effect \in Outward
       /\ wf[s].effect = "manual" => wf[s].manual
  /\ \A S \in SUBSET Steps :                       \* no dependency cycle
       S # {} => \E s \in S : wf[s].needs \cap S = {}

-----------------------------------------------------------------------------
(* States of a step and of a record *)

Terminal == {"completed", "failed", "cancelled", "uncertain"}
Final == Terminal \ {"uncertain"}
Statuses == {"pending", "running", "awaiting-approval", "awaiting-manual"} \cup Terminal
Decisions == {"none", "approved", "denied"}

State ==
  [status: Statuses, evidence: BOOLEAN, decision: Decisions, by: People \cup {None}]

Unrecorded == [status |-> "pending", evidence |-> FALSE, decision |-> "none", by |-> None]
NothingRecorded == [s \in Steps |-> Unrecorded]

\* _validate_state, and the same tests on the arguments of a call.
WellFormed(a) ==
  /\ a.decision = "none" <=> a.by = None
  /\ a.status \in Terminal \/ a.decision # "none" => a.evidence

-----------------------------------------------------------------------------
(* _transition: may step s, at snap[s], become what a asks for? *)

DecisionAllowed(wf, snap, s, a) ==
  /\ a.status = "awaiting-approval" /\ wf[s].gate # "none"
  /\ a.by = wf[s].approver
  /\ snap[s].decision = "none"
  /\ wf[s].gate = "after" /\ a.decision = "approved" =>
       snap[s].status = "awaiting-approval"

Approved(wf, snap, s) ==
  snap[s].decision = "approved" /\ snap[s].by = wf[s].approver

DependenciesDone(wf, snap, s) ==
  \A d \in wf[s].needs :
    /\ snap[d].status = "completed"
    /\ wf[d].gate # "none" => Approved(wf, snap, d)

\* Mutant of RequiresApproval: handing over to a person needs no approval.
RequiresApprovalToRun(wf, s, status) ==
  \/ wf[s].gate # "none" /\ status = "completed"
  \/ wf[s].gate = "before" /\ status \in {"running", "uncertain"}

RequiresApproval(wf, s, status) ==
  \/ wf[s].gate # "none" /\ status = "completed"
  \/ wf[s].gate = "before" /\ status \in {"running", "awaiting-manual", "uncertain"}

Follows(wf, s, old) ==
  LET after == wf[s].gate = "after"
  IN {status \in Statuses :
       \/ /\ old = "pending"
          /\ \/ status \in {"pending", "running", "awaiting-manual", "cancelled"}
             \/ status = "awaiting-approval" /\ ~after
       \/ /\ old = "awaiting-approval"
          /\ \/ status \in {"awaiting-approval", "running", "cancelled"}
             \/ status \in {"completed", "failed"} /\ after
             \/ status = "awaiting-manual" /\ ~after
       \/ /\ old = "running"
          /\ status \in Terminal \/ (status = "awaiting-approval" /\ after)
       \/ old = "awaiting-manual" /\ status \in Terminal
       \/ old = "uncertain" /\ status \in Final}

Permitted(wf, snap, s, a) ==
  LET old == snap[s]
      after == wf[s].gate = "after"
  IN /\ WellFormed(a)
     /\ old.decision # "denied" /\ old.status \notin Final
     /\ a.decision # "none" => DecisionAllowed(wf, snap, s, a)
     /\ a.status \notin {"pending", "cancelled"} => DependenciesDone(wf, snap, s)
     /\ RequiresApproval(wf, s, a.status) => Approved(wf, snap, s)
     /\ a.status \in Follows(wf, s, old.status)
     /\ a.status = "awaiting-approval" =>
          wf[s].gate # "none" /\ old.decision = "none" /\ (after => a.evidence)
     /\ after /\ a.status = "completed" => old.status = "awaiting-approval"
     /\ a.status = "running" => ~wf[s].manual /\ (after => old.decision = "none")
     /\ a.status = "awaiting-manual" => wf[s].manual

\* Mutant of Result: a denial is a status of its own.
ResultDenied(old, a) ==
  [status |-> IF a.decision = "denied" THEN "denied" ELSE a.status,
   evidence |-> a.evidence \/ old.evidence,
   decision |-> IF a.decision = "none" THEN old.decision ELSE a.decision,
   by |-> IF a.by = None THEN old.by ELSE a.by]

\* The state _transition returns: what the call leaves out is kept.
Result(old, a) ==
  [status |-> IF a.decision = "denied" THEN "cancelled" ELSE a.status,
   evidence |-> a.evidence \/ old.evidence,
   decision |-> IF a.decision = "none" THEN old.decision ELSE a.decision,
   by |-> IF a.by = None THEN old.by ELSE a.by]

-----------------------------------------------------------------------------
(* _read_record: replaying an event of the history *)

\* What the call that left event e must have asked for.
Requested(old, e) ==
  LET new == old.decision = "none"
  IN [status |-> IF new /\ e.decision = "denied" THEN "awaiting-approval" ELSE e.status,
      evidence |-> e.evidence,
      decision |-> IF new THEN e.decision ELSE "none",
      by |-> IF new THEN e.by ELSE None]

Replays(wf, snap, s, e) ==
  /\ WellFormed(e)
  /\ snap[s].decision # "none" => e.decision = snap[s].decision /\ e.by = snap[s].by
  /\ Permitted(wf, snap, s, Requested(snap[s], e))
  /\ Result(snap[s], Requested(snap[s], e)) = e

-----------------------------------------------------------------------------
(* The rule across runs *)

Uncertain(wf, log, s) ==
  {r \in Runs : wf[s].effect \in Outward /\ log[r][s].status = "uncertain"}

\* Mutant of Reconciles: any run may record an outcome.
ReconcilesAnywhere(wf, log, r, s, a) ==
  Uncertain(wf, log, s) # {} => a.status \in Final

\* While the outcome of a step with effects outside is unknown, the only
\* thing to record about the step is that outcome.
Reconciles(wf, log, r, s, a) ==
  Uncertain(wf, log, s) # {} => Uncertain(wf, log, s) = {r} /\ a.status \in Final
=============================================================================
