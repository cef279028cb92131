--------------------------- MODULE RunRecordsProofs ---------------------------
(***************************************************************************)
(* What holds of RunRecords for any writers, runs, steps, people and       *)
(* workflows.  First the rules alone: a permitted transition keeps a       *)
(* step's state coherent and every gate of the run closed, and replaying   *)
(* the event it leaves permits it again.  Then the lock: a writer about to *)
(* write holds a current copy (LockInv), so that each call is one step of  *)
(* RunLog.                                                                 *)
(***************************************************************************)
EXTENDS RunRecords, TLAPS

-----------------------------------------------------------------------------
(* The rules *)

\* A decision has an identity, what must have evidence has it, a denied step is
\* cancelled: what every stored state satisfies and its replay depends on.
Coherent(st) ==
  /\ WellFormed(st)
  /\ st.decision = "denied" => st.status = "cancelled"

LEMMA ResultType ==
  ASSUME NEW old \in State, NEW a \in State
  PROVE  Result(old, a) \in State
  BY DEF State, Result, Statuses, Terminal, Decisions

\* A permitted transition ends in a coherent state.
LEMMA ResultCoherent ==
  ASSUME NEW wf, NEW snap, NEW s, NEW a \in State, snap[s] \in State,
         Coherent(snap[s]), Permitted(wf, snap, s, a)
  PROVE  Coherent(Result(snap[s], a))
  BY DEF Permitted, Coherent, WellFormed, Result, State, Decisions, Terminal

\* A transition stays permitted when more evidence comes with it.
LEMMA MoreEvidence ==
  ASSUME NEW wf, NEW snap, NEW s, NEW a \in State, NEW b \in State,
         b.status = a.status, b.decision = a.decision, b.by = a.by,
         a.evidence => b.evidence, Permitted(wf, snap, s, a)
  PROVE  Permitted(wf, snap, s, b)
  BY DEF Permitted, WellFormed, DecisionAllowed, RequiresApproval

\* The event of a permitted transition replays, from the same states, to its result.
LEMMA ResultReplays ==
  ASSUME NEW wf, NEW snap, NEW s, NEW a \in State, snap[s] \in State,
         Coherent(snap[s]), Permitted(wf, snap, s, a)
  PROVE  Replays(wf, snap, s, Result(snap[s], a))
<1> DEFINE old == snap[s]
           e == Result(old, a)
           q == Requested(old, e)
<1>1. e \in State /\ Coherent(e)
  BY ResultType, ResultCoherent
<1>2. WellFormed(a) /\ old.decision # "denied"
  BY DEF Permitted
<1>3. CASE a.decision = "none"
  <2>1. a.by = None
    BY <1>2, <1>3 DEF WellFormed
  <2>2. e = [status |-> a.status, evidence |-> a.evidence \/ old.evidence,
             decision |-> old.decision, by |-> old.by]
    BY <1>3, <2>1 DEF Result
  <2>3. q = [status |-> a.status, evidence |-> a.evidence \/ old.evidence,
             decision |-> "none", by |-> None]
    BY <1>2, <2>2 DEF Requested, Coherent, WellFormed
  <2>4. Permitted(wf, snap, s, q)
    <3>1. q \in State /\ q.status = a.status /\ q.decision = a.decision /\ q.by = a.by
          /\ (a.evidence => q.evidence)
      BY <1>3, <2>1, <2>3 DEF State, Decisions
    <3> HIDE DEF q
    <3> QED
      BY <3>1, MoreEvidence
  <2>5. Result(old, q) = e
    BY <2>2, <2>3 DEF Result, State
  <2> QED
    BY <1>1, <2>2, <2>4, <2>5 DEF Replays, Coherent
<1>4. CASE a.decision # "none"
  <2>1. /\ a.status = "awaiting-approval" /\ old.decision = "none"
        /\ a.by # None /\ a.evidence
    BY <1>2, <1>4 DEF Permitted, DecisionAllowed, WellFormed
  <2>2. e = [status |-> IF a.decision = "denied" THEN "cancelled" ELSE a.status,
             evidence |-> TRUE, decision |-> a.decision, by |-> a.by]
    BY <1>4, <2>1 DEF Result
  <2>3. q = a
    BY <2>1, <2>2 DEF Requested, State
  <2> QED
    BY <1>1, <2>1, <2>3 DEF Replays, Coherent
<1> QED
  BY <1>3, <1>4

\* A permitted transition keeps the gates of every step of the run.
LEMMA GatesKept ==
  ASSUME NEW snap \in [Steps -> State], NEW next \in [Steps -> State],
         workflow \in [Steps -> StepSpec],
         NEW s \in Steps, NEW a \in State, Permitted(workflow, snap, s, a),
         next = [snap EXCEPT ![s] = Result(snap[s], a)],
         \A t \in Steps : GateHolds(snap, t), NEW t \in Steps
  PROVE  GateHolds(next, t)
<1>1. /\ snap[s].status \notin Final /\ snap[s].decision # "denied"
      /\ next[s] = Result(snap[s], a) /\ \A u \in Steps : u # s => next[u] = snap[u]
      /\ \A u \in Steps : workflow[u].needs \subseteq Steps
  BY DEF Permitted, StepSpec
<1>2. \A d \in Steps : snap[d].status = "completed" => next[d] = snap[d]
  BY <1>1 DEF Final, Terminal
<1>3. CASE t # s
  <2>1. next[t] = snap[t] /\ GateHolds(snap, t)
    BY <1>1, <1>3
  <2> QED
    BY <1>1, <1>2, <2>1 DEF GateHolds, HasApproval
<1>4. CASE t = s
  <2>1. next[s].status \notin {"pending", "cancelled"} =>
          /\ a.status = next[s].status
          /\ DependenciesDone(workflow, snap, s)
    BY <1>1 DEF Permitted, Result
  <2>2. next[s].status \notin {"pending", "cancelled"} =>
          \A d \in workflow[s].needs : next[d].status = "completed" /\ HasApproval(next, d)
    BY <1>1, <1>2, <2>1 DEF DependenciesDone, Approved, HasApproval
  <2>3. a.decision = "none" =>
          next[s].decision = snap[s].decision /\ next[s].by = snap[s].by
    BY <1>1 DEF Permitted, WellFormed, Result
  <2>4. a.decision # "none" =>
          /\ a.status = "awaiting-approval"
          /\ next[s].status \in {"awaiting-approval", "cancelled"}
          /\ a.decision = "denied" => next[s].status = "cancelled"
          /\ next[s].decision = a.decision
    BY <1>1 DEF Permitted, DecisionAllowed, Result
  <2>5. next[s].status \notin {"pending", "awaiting-approval", "cancelled"} =>
          a.decision = "none" /\ a.status = next[s].status
    BY <2>1, <2>4
  <2>6. ASSUME workflow[s].gate = "before",
               next[s].status \notin {"pending", "awaiting-approval", "cancelled"}
        PROVE  HasApproval(next, s)
    <3>1. a.decision = "none" /\ a.status = next[s].status /\ a.status \in Statuses
      BY <2>5, <2>6 DEF State
    <3>2. CASE a.status = "failed"
      <4>1. snap[s].status \in {"running", "awaiting-manual", "uncertain"}
        BY <2>6, <3>2 DEF Permitted, Follows, Final, Terminal
      <4>2. HasApproval(snap, s)
        BY <2>6, <4>1 DEF GateHolds
      <4> QED
        BY <2>3, <3>1, <4>2 DEF HasApproval
    <3>3. CASE a.status # "failed"
      <4>1. a.status \in {"running", "awaiting-manual", "completed", "uncertain"}
        BY <2>6, <3>1, <3>3 DEF Statuses, Terminal
      <4>2. Approved(workflow, snap, s)
        BY <2>6, <4>1 DEF Permitted, RequiresApproval
      <4> QED
        BY <2>3, <3>1, <4>2 DEF HasApproval, Approved
    <3> QED
      BY <3>2, <3>3
  <2>7. ASSUME workflow[s].gate = "after"
        PROVE  /\ next[s].status = "completed" => HasApproval(next, s)
               /\ next[s].decision = "approved" =>
                    next[s].status \in {"awaiting-approval"} \cup Final
    <3>1. next[s].status = "completed" => HasApproval(next, s)
      BY <2>7, <2>3, <2>5 DEF Permitted, RequiresApproval, HasApproval, Approved
    <3>2. CASE a.decision # "none"
      BY <3>1, <3>2, <2>4 DEF Final, Terminal
    <3>3. CASE a.decision = "none" /\ snap[s].decision = "approved"
      <4>1. snap[s].status = "awaiting-approval"
        BY <2>7, <3>3, <1>1 DEF GateHolds
      <4>2. a.status \in {"completed", "failed", "cancelled"} /\ next[s].status = a.status
        BY <2>7, <3>3, <4>1, <1>1 DEF Permitted, Follows, Result
      <4> QED
        BY <3>1, <4>2 DEF Final, Terminal
    <3> QED
      BY <2>3, <3>1, <3>2, <3>3
  <2>8. next[s].decision = "denied" => next[s].status = "cancelled"
    BY <1>1, <2>3, <2>4 DEF State
  <2> QED
    BY <1>4, <2>2, <2>6, <2>7, <2>8 DEF GateHolds
<1> QED
  BY <1>3, <1>4

-----------------------------------------------------------------------------
(* Types *)

LEMMA NothingTypes ==
  NoRecords \in [Runs -> Record] /\ Unrecorded \in State /\ NoRecord \in Record
  BY DEF NoRecords, NoRecord, Record, NothingRecorded, Unrecorded, State, Statuses, Decisions

LEMMA ExtendedType ==
  ASSUME NEW rec \in Record, NEW s \in Steps, NEW a \in State
  PROVE  /\ Extended(rec, s, a) \in Record
         /\ Extended(rec, s, a).steps = [rec.steps EXCEPT ![s] = Result(rec.steps[s], a)]
<1>1. rec.steps \in [Steps -> State] /\ rec.readable \in BOOLEAN
  BY DEF Record
<1>2. Result(rec.steps[s], a) \in State
  BY <1>1, ResultType
<1>3. [rec.steps EXCEPT ![s] = Result(rec.steps[s], a)] \in [Steps -> State]
  BY <1>1, <1>2
<1>4. (rec.readable /\ Replays(workflow, rec.steps, s, Event(a, Result(rec.steps[s], a)))
        /\ Event(a, Result(rec.steps[s], a)) = Result(rec.steps[s], a)) \in BOOLEAN
  OBVIOUS
<1> QED
  BY <1>3, <1>4 DEF Extended, Record

LEMMA InitType == Init => TypeOK
  BY NothingTypes DEF Init, TypeOK

LEMMA LeaveType ==
  ASSUME TypeOK, NEW w \in Writers, Leave(w)
  PROVE  /\ pc' \in [Writers -> {"idle", "read", "write", "unlock"}]
         /\ call' \in [Writers -> Call \cup {NoCall}]
         /\ copy' \in [Writers -> [Runs -> Record]]
         /\ \A v \in Writers : pc'[v] # "idle" => call'[v] \in Call
  BY NothingTypes DEF TypeOK, Leave

LEMMA StepType == TypeOK /\ [Next]_vars => TypeOK'
<1> SUFFICES ASSUME TypeOK, [Next]_vars PROVE TypeOK'
  OBVIOUS
<1>1. ASSUME NEW w \in Writers, Lock(w) PROVE TypeOK'
  BY <1>1 DEF TypeOK, Lock
<1>2. ASSUME NEW w \in Writers, ReadAll(w) PROVE TypeOK'
  BY <1>2 DEF TypeOK, ReadAll
<1>3. ASSUME NEW w \in Writers, Write(w) PROVE TypeOK'
  <2>1. /\ call[w].run \in Runs /\ call[w].step \in Steps /\ call[w].asked \in State
        /\ copy[w] \in [Runs -> Record]
    BY <1>3 DEF TypeOK, Write, Call
  <2>2. Extended(copy[w][call[w].run], call[w].step, call[w].asked) \in Record
    BY <2>1, ExtendedType
  <2> QED
    BY <1>3, <2>1, <2>2 DEF TypeOK, Write
<1>4. ASSUME NEW w \in Writers, Refuse(w) PROVE TypeOK'
  BY <1>4 DEF TypeOK, Refuse
<1>5. ASSUME NEW w \in Writers, Unlock(w) PROVE TypeOK'
  BY <1>5, LeaveType DEF TypeOK, Unlock
<1>6. ASSUME NEW w \in Writers, Crash(w) PROVE TypeOK'
  BY <1>6, LeaveType DEF TypeOK, Crash
<1>7. CASE RemoveStaleLock
  BY <1>7 DEF TypeOK, RemoveStaleLock
<1>8. CASE UNCHANGED vars
  BY <1>8 DEF TypeOK, vars
<1> QED
  BY <1>1, <1>2, <1>3, <1>4, <1>5, <1>6, <1>7, <1>8 DEF Next

\* The variables of RunRecords keep their types.
THEOREM TypeCorrect == Spec => []TypeOK
  BY InitType, StepType, PTL DEF Spec

-----------------------------------------------------------------------------
(* The lock *)

\* Whoever is inside record() is alone and has the lock, and what it judges by is
\* what the files hold.
LockInv ==
  /\ \A w \in Writers : pc[w] # "idle" => locked
  /\ \A w, v \in Writers : pc[w] # "idle" /\ pc[v] # "idle" => w = v
  /\ \A w \in Writers : pc[w] = "write" => copy[w] = records

\* What a write does to the files: RunLog's step, and its event.
LEMMA WriteEffect ==
  ASSUME TypeOK, LockInv, NEW w \in Writers, Write(w)
  PROVE  LET r == call[w].run
             s == call[w].step
             a == call[w].asked
         IN /\ r \in Runs /\ s \in Steps /\ a \in State
            /\ Reconciles(workflow, States(records), r, s, a)
            /\ Permitted(workflow, records[r].steps, s, a)
            /\ records' = [records EXCEPT ![r] = Extended(records[r], s, a)]
            /\ records'[r] = Extended(records[r], s, a)
            /\ records'[r].steps =
                 [records[r].steps EXCEPT ![s] = Result(records[r].steps[s], a)]
            /\ \A q \in Runs : q # r => records'[q] = records[q]
            /\ workflow' = workflow
<1>1. /\ call[w].run \in Runs /\ call[w].step \in Steps /\ call[w].asked \in State
      /\ copy[w] = records /\ records \in [Runs -> Record] /\ workflow' = workflow
  BY DEF TypeOK, Write, Call, LockInv
<1>2. records' = [records EXCEPT ![call[w].run] =
        Extended(records[call[w].run], call[w].step, call[w].asked)]
  BY <1>1 DEF Write
<1>3. Extended(records[call[w].run], call[w].step, call[w].asked).steps =
        [records[call[w].run].steps EXCEPT ![call[w].step] =
           Result(records[call[w].run].steps[call[w].step], call[w].asked)]
  BY <1>1, ExtendedType
<1>4. /\ Reconciles(workflow, States(records), call[w].run, call[w].step, call[w].asked)
      /\ Permitted(workflow, records[call[w].run].steps, call[w].step, call[w].asked)
  BY <1>1 DEF Write
<1> QED
  BY <1>1, <1>2, <1>3, <1>4

LEMMA StepLock == TypeOK /\ LockInv /\ [Next]_vars => LockInv'
<1> SUFFICES ASSUME TypeOK, LockInv, [Next]_vars PROVE LockInv'
  OBVIOUS
<1>1. ASSUME NEW w \in Writers, Lock(w) PROVE LockInv'
  BY <1>1 DEF TypeOK, LockInv, Lock
<1>2. ASSUME NEW w \in Writers, ReadAll(w) PROVE LockInv'
  BY <1>2 DEF TypeOK, LockInv, ReadAll
<1>3. ASSUME NEW w \in Writers, Write(w) PROVE LockInv'
  BY <1>3 DEF TypeOK, LockInv, Write
<1>4. ASSUME NEW w \in Writers, Refuse(w) PROVE LockInv'
  BY <1>4 DEF TypeOK, LockInv, Refuse
<1>5. ASSUME NEW w \in Writers, Unlock(w) PROVE LockInv'
  BY <1>5 DEF TypeOK, LockInv, Unlock, Leave
<1>6. ASSUME NEW w \in Writers, Crash(w) PROVE LockInv'
  BY <1>6 DEF TypeOK, LockInv, Crash, Leave
<1>7. CASE RemoveStaleLock
  BY <1>7 DEF TypeOK, LockInv, RemoveStaleLock
<1>8. CASE UNCHANGED vars
  BY <1>8 DEF TypeOK, LockInv, vars
<1> QED
  BY <1>1, <1>2, <1>3, <1>4, <1>5, <1>6, <1>7, <1>8 DEF Next

\* Only a write changes the files.
LEMMA OtherSteps ==
  ASSUME [Next]_vars, \A w \in Writers : ~Write(w)
  PROVE  records' = records /\ workflow' = workflow
  BY DEF Next, Lock, ReadAll, Refuse, Unlock, Crash, RemoveStaleLock, vars

\* A writer that is about to write has seen every earlier write.
LEMMA LockHolds == Spec => [](TypeOK /\ LockInv)
<1>1. Init => TypeOK /\ LockInv
  BY InitType DEF Init, LockInv
<1> QED
  BY <1>1, StepType, StepLock, PTL DEF Spec

-----------------------------------------------------------------------------
(* The histories and the gates *)

\* Every stored state is coherent, every history replays, every gate holds.
RecordInv ==
  /\ \A r \in Runs, s \in Steps : Coherent(records[r].steps[s])
  /\ HistoryReplays
  /\ GatesHold

LEMMA InitRecord == Init => RecordInv
  BY DEF Init, RecordInv, HistoryReplays, GatesHold, GateHolds, Coherent, WellFormed,
         NoRecords, NoRecord, NothingRecorded, Unrecorded, Terminal, HasApproval

LEMMA WriteRecord ==
  ASSUME TypeOK, LockInv, RecordInv, NEW w \in Writers, Write(w)
  PROVE  RecordInv'
<1> DEFINE r == call[w].run
           s == call[w].step
           a == call[w].asked
           snap == records[r].steps
<1>1. /\ r \in Runs /\ s \in Steps /\ a \in State
      /\ Permitted(workflow, snap, s, a)
      /\ records'[r] = Extended(records[r], s, a)
      /\ records'[r].steps = [snap EXCEPT ![s] = Result(snap[s], a)]
      /\ \A q \in Runs : q # r => records'[q] = records[q]
      /\ workflow' = workflow
  BY WriteEffect
<1>2. /\ snap \in [Steps -> State] /\ workflow \in [Steps -> StepSpec]
      /\ records[r] \in Record
  BY <1>1 DEF TypeOK, Record, Validated
<1>3. Coherent(snap[s]) /\ snap[s] \in State
  BY <1>1, <1>2 DEF RecordInv
<1> HIDE DEF r, s, a
<1>4. ASSUME NEW q \in Runs, NEW t \in Steps PROVE Coherent(records'[q].steps[t])
  <2>1. Coherent(Result(snap[s], a))
    BY <1>1, <1>3, ResultCoherent
  <2>2. CASE q = r
    BY <1>1, <1>2, <2>1, <2>2 DEF RecordInv
  <2>3. CASE q # r
    BY <1>1, <2>3 DEF RecordInv
  <2> QED
    BY <2>2, <2>3
<1>5. HistoryReplays'
  <2>1. Replays(workflow, snap, s, Result(snap[s], a))
    BY <1>1, <1>3, ResultReplays
  <2>2. records'[r].readable
    BY <1>1, <2>1 DEF Extended, Event, RecordInv, HistoryReplays
  <2> QED
    BY <1>1, <2>2 DEF RecordInv, HistoryReplays
<1>6. GatesHold'
  <2>1. \A t \in Steps : GateHolds(snap, t)
    BY <1>1 DEF RecordInv, GatesHold
  <2>2. ASSUME NEW t \in Steps PROVE GateHolds(records'[r].steps, t)
    <3>1. records'[r].steps \in [Steps -> State]
      BY <1>1, <1>2, ResultType
    <3> HIDE DEF snap
    <3> QED
      BY <1>1, <1>2, <2>1, <3>1, GatesKept
  <2>3. \A q \in Runs, t \in Steps : GateHolds(records'[q].steps, t)
    BY <1>1, <2>2 DEF RecordInv, GatesHold
  <2> QED
    BY <1>1, <2>3 DEF GatesHold, GateHolds, HasApproval
<1> QED
  BY <1>4, <1>5, <1>6 DEF RecordInv

LEMMA StepRecord == TypeOK /\ LockInv /\ RecordInv /\ [Next]_vars => RecordInv'
<1> SUFFICES ASSUME TypeOK, LockInv, RecordInv, [Next]_vars PROVE RecordInv'
  OBVIOUS
<1>1. ASSUME NEW w \in Writers, Write(w) PROVE RecordInv'
  BY <1>1, WriteRecord
<1>2. CASE \A w \in Writers : ~Write(w)
  BY <1>2, OtherSteps DEF RecordInv, HistoryReplays, GatesHold, GateHolds, HasApproval
<1> QED
  BY <1>1, <1>2

LEMMA RecordHolds == Spec => []RecordInv
  BY InitRecord, StepRecord, LockHolds, PTL DEF Spec

\* No call of record() writes a file that a later call refuses to read.
THEOREM HistoryReplaysHolds == Spec => []HistoryReplays
<1>1. RecordInv => HistoryReplays
  BY DEF RecordInv
<1> QED
  BY <1>1, RecordHolds, PTL

\* Dependencies and approvals come first in every run, whatever calls are made.
THEOREM GatesHolds == Spec => []GatesHold
<1>1. RecordInv => GatesHold
  BY DEF RecordInv
<1> QED
  BY <1>1, RecordHolds, PTL

-----------------------------------------------------------------------------
(* The rule across runs, and the implementation of RunLog *)

LEMMA StepUncertain ==
  TypeOK /\ LockInv /\ [Next]_vars =>
    \A r, q \in Runs, s \in Steps :
      workflow[s].effect \in Outward /\ records[r].steps[s].status = "uncertain" =>
        /\ q # r => records'[q].steps[s] = records[q].steps[s]
        /\ records'[r].steps[s].status \in {"uncertain"} \cup Final
<1> SUFFICES ASSUME TypeOK, LockInv, [Next]_vars, NEW r \in Runs, NEW q \in Runs,
                    NEW s \in Steps, workflow[s].effect \in Outward,
                    records[r].steps[s].status = "uncertain"
             PROVE  /\ q # r => records'[q].steps[s] = records[q].steps[s]
                    /\ records'[r].steps[s].status \in {"uncertain"} \cup Final
  OBVIOUS
<1>1. ASSUME NEW w \in Writers, Write(w)
      PROVE  /\ q # r => records'[q].steps[s] = records[q].steps[s]
             /\ records'[r].steps[s].status \in {"uncertain"} \cup Final
  <2> DEFINE c == call[w]
  <2>1. /\ c.run \in Runs /\ c.step \in Steps /\ c.asked \in State
        /\ Reconciles(workflow, States(records), c.run, c.step, c.asked)
        /\ records'[c.run].steps = [records[c.run].steps EXCEPT
             ![c.step] = Result(records[c.run].steps[c.step], c.asked)]
        /\ \A p \in Runs : p # c.run => records'[p] = records[p]
    BY <1>1, WriteEffect
  <2>2. \A p \in Runs : records[p].steps \in [Steps -> State]
    BY DEF TypeOK, Record
  <2> HIDE DEF c
  <2>3. CASE c.step # s
    BY <2>1, <2>2, <2>3
  <2>4. CASE c.step = s
    <3>1. r \in Uncertain(workflow, States(records), s)
      BY DEF Uncertain, States
    <3>2. c.run = r /\ c.asked.status \in Final
      BY <2>1, <2>4, <3>1 DEF Reconciles
    <3>3. Result(records[r].steps[s], c.asked).status \in Final
      BY <3>2 DEF Result, Final, Terminal
    <3>4. records'[r].steps[s].status \in Final
      BY <2>1, <2>2, <2>4, <3>2, <3>3
    <3> QED
      BY <2>1, <3>2, <3>4
  <2> QED
    BY <2>3, <2>4
<1>2. CASE \A w \in Writers : ~Write(w)
  BY <1>2, OtherSteps
<1> QED
  BY <1>1, <1>2

\* An unknown outcome in one run stops every other run at that step until it is
\* known, with crashes and locks removed by hand in between.
THEOREM UncertainBlocksHolds == Spec => UncertainBlocks
  BY StepUncertain, LockHolds, PTL DEF Spec, UncertainBlocks

\* RunLog's rules are the ones RunRecords judges by.
LEMMA SameStates == Log!State = State /\ Log!NothingRecorded = NothingRecorded
  BY DEF Log!State, State, Log!Statuses, Statuses, Log!Terminal, Terminal,
         Log!Decisions, Decisions, Log!NothingRecorded, NothingRecorded,
         Log!Unrecorded, Unrecorded

LEMMA SameWorkflows == \A wf : Log!Validated(wf) <=> Validated(wf)
  BY DEF Log!Validated, Validated, Log!StepSpec, StepSpec, Log!Effects, Effects,
         Log!Outward, Outward

LEMMA SameRules ==
  ASSUME NEW wf, NEW log, NEW r, NEW s, NEW a
  PROVE  /\ Log!Permitted(wf, log[r], s, a) <=> Permitted(wf, log[r], s, a)
         /\ Log!Reconciles(wf, log, r, s, a) <=> Reconciles(wf, log, r, s, a)
         /\ Log!Result(log[r][s], a) = Result(log[r][s], a)
<1>1. Log!Final = Final /\ Log!Terminal = Terminal /\ Log!Statuses = Statuses
      /\ Log!Outward = Outward
  BY DEF Log!Final, Final, Log!Terminal, Terminal, Log!Statuses, Statuses,
         Log!Outward, Outward
<1>2. /\ Log!WellFormed(a) <=> WellFormed(a)
      /\ Log!DecisionAllowed(wf, log[r], s, a) <=> DecisionAllowed(wf, log[r], s, a)
      /\ Log!DependenciesDone(wf, log[r], s) <=> DependenciesDone(wf, log[r], s)
      /\ Log!RequiresApproval(wf, s, a.status) <=> RequiresApproval(wf, s, a.status)
      /\ Log!Approved(wf, log[r], s) <=> Approved(wf, log[r], s)
  BY <1>1 DEF Log!WellFormed, WellFormed, Log!DecisionAllowed, DecisionAllowed,
         Log!DependenciesDone, DependenciesDone, Log!Approved, Approved,
         Log!RequiresApproval, RequiresApproval
<1>3. Log!Follows(wf, s, log[r][s].status) = Follows(wf, s, log[r][s].status)
  BY <1>1 DEF Log!Follows, Follows
<1>4. Log!Permitted(wf, log[r], s, a) <=> Permitted(wf, log[r], s, a)
  BY <1>1, <1>2, <1>3 DEF Log!Permitted, Permitted
<1>5. Log!Uncertain(wf, log, s) = Uncertain(wf, log, s)
  BY <1>1 DEF Log!Uncertain, Uncertain
<1> QED
  BY <1>1, <1>4, <1>5 DEF Log!Reconciles, Reconciles, Log!Result, Result

LEMMA InitLog == Init => Log!Init
  BY SameStates, SameWorkflows DEF Init, Log!Init, States, NoRecords, NoRecord

LEMMA StepLog == TypeOK /\ LockInv /\ [Next]_vars => [Log!Next]_(Log!vars)
<1> SUFFICES ASSUME TypeOK, LockInv, [Next]_vars PROVE [Log!Next]_(Log!vars)
  OBVIOUS
<1>1. ASSUME NEW w \in Writers, Write(w) PROVE Log!Next
  <2> DEFINE c == call[w]
  <2>1. /\ c.run \in Runs /\ c.step \in Steps /\ c.asked \in State
        /\ Reconciles(workflow, States(records), c.run, c.step, c.asked)
        /\ Permitted(workflow, records[c.run].steps, c.step, c.asked)
        /\ records'[c.run].steps = [records[c.run].steps EXCEPT
             ![c.step] = Result(records[c.run].steps[c.step], c.asked)]
        /\ \A p \in Runs : p # c.run => records'[p] = records[p]
        /\ workflow' = workflow
    BY <1>1, WriteEffect
  <2> HIDE DEF c
  <2>2. States(records)' = [States(records) EXCEPT ![c.run][c.step] =
          Result(States(records)[c.run][c.step], c.asked)]
    BY <2>1 DEF States
  <2>3. States(records)[c.run] = records[c.run].steps
    BY <2>1 DEF States
  <2>4. Log!Accept(c.run, c.step, c.asked)
    <3>1. Log!Permitted(workflow, States(records)[c.run], c.step, c.asked)
      BY <2>1, <2>3, SameRules
    <3>2. Log!Reconciles(workflow, States(records), c.run, c.step, c.asked)
      BY <2>1, SameRules
    <3>3. States(records)' = [States(records) EXCEPT ![c.run][c.step] =
            Log!Result(States(records)[c.run][c.step], c.asked)]
      BY <2>2 DEF Log!Result, Result
    <3> QED
      BY <2>1, <3>1, <3>2, <3>3 DEF Log!Accept
  <2> QED
    BY <2>1, <2>4, SameStates DEF Log!Next
<1>2. CASE \A w \in Writers : ~Write(w)
  BY <1>2, OtherSteps DEF Log!vars, States
<1> QED
  BY <1>1, <1>2

\* Calls of record() take effect one at a time: RunRecords implements RunLog.
THEOREM AtomicCallsHold == Spec => AtomicCalls
  BY InitLog, StepLog, LockHolds, PTL DEF Spec, AtomicCalls, Log!Spec
=============================================================================
