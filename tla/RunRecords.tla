------------------------------ MODULE RunRecords ------------------------------
(***************************************************************************)
(* The execution records of an installed workflow                          *)
(* (harness_factory/records.py): people note, run by run, what became of   *)
(* each step.  A call of record() validates its arguments, takes the lock  *)
(* directory, reads every record, judges the transition (StepRules),       *)
(* replaces one record and removes the lock; calls come from separate      *)
(* processes.                                                              *)
(*                                                                         *)
(* A record file holds the latest state of each step and the history it    *)
(* came from.  Reading a file replays its history; whether that replay     *)
(* accepts it and ends in the states stored beside it is "readable", kept  *)
(* up to date one event at a time instead of the list of events.  The      *)
(* workflow does not change under its records: a file bound to another     *)
(* workflow hash is refused by every call.                                 *)
(***************************************************************************)
EXTENDS StepRules

CONSTANT Writers   \* processes that call record()

VARIABLES
  workflow,   \* .harness/workflow.json
  records,    \* .harness/runs/<run>.json
  locked,     \* whether .harness/runs/.record-lock exists
  pc,         \* where each writer is in record()
  call,       \* the arguments of its call
  copy        \* the records it has read

vars == <<workflow, records, locked, pc, call, copy>>

-----------------------------------------------------------------------------
Record == [steps: [Steps -> State], readable: BOOLEAN]
Call == [run: Runs, step: Steps, asked: State]

NoRecord == [steps |-> NothingRecorded, readable |-> TRUE]
NoRecords == [r \in Runs |-> NoRecord]
NoCall == [run |-> None, step |-> None, asked |-> Unrecorded]

\* The variables range over their types; a writer inside record() has a call.
TypeOK ==
  /\ Validated(workflow)
  /\ records \in [Runs -> Record]
  /\ locked \in BOOLEAN
  /\ pc \in [Writers -> {"idle", "read", "write", "unlock"}]
  /\ call \in [Writers -> Call \cup {NoCall}]
  /\ copy \in [Writers -> [Runs -> Record]]
  /\ \A w \in Writers : pc[w] # "idle" => call[w] \in Call

\* The states of the steps, which is all that judging a call looks at.
States(files) == [r \in Runs |-> files[r].steps]

\* Mutant of Event: the history keeps the evidence of the call alone.
EventAsAsked(a, state) == [state EXCEPT !.evidence = a.evidence]

\* The event written for a call that asked for a and brought the step to state.
Event(a, state) == state

\* The record with the call's event appended and the step's state replaced.
Extended(rec, s, a) ==
  LET state == Result(rec.steps[s], a)
      event == Event(a, state)
  IN [steps |-> [rec.steps EXCEPT ![s] = state],
      readable |-> /\ rec.readable
                   /\ Replays(workflow, rec.steps, s, event)
                   /\ event = state]

-----------------------------------------------------------------------------
(* record() *)

\* Its tests of the arguments, before the lock is taken.
Acceptable(c) ==
  /\ WellFormed(c.asked)
  /\ c.asked.decision # "none" =>
       /\ c.asked.status = "awaiting-approval" /\ workflow[c.step].gate # "none"
       /\ c.asked.by = workflow[c.step].approver

\* Mutant of Lock: mkdir(exist_ok=True).
LockShared(w) ==
  /\ pc[w] = "idle"
  /\ \E c \in Call : Acceptable(c) /\ call' = [call EXCEPT ![w] = c]
  /\ locked' = TRUE
  /\ pc' = [pc EXCEPT ![w] = "read"]
  /\ UNCHANGED <<workflow, records, copy>>

\* lock.mkdir().  A call with other arguments, or one that finds the lock, ends
\* in an error and changes nothing.
Lock(w) ==
  /\ pc[w] = "idle" /\ ~locked
  /\ \E c \in Call : Acceptable(c) /\ call' = [call EXCEPT ![w] = c]
  /\ locked' = TRUE
  /\ pc' = [pc EXCEPT ![w] = "read"]
  /\ UNCHANGED <<workflow, records, copy>>

\* Every record is read and replayed.
ReadAll(w) ==
  /\ pc[w] = "read"
  /\ \A r \in Runs : records[r].readable
  /\ copy' = [copy EXCEPT ![w] = records]
  /\ pc' = [pc EXCEPT ![w] = "write"]
  /\ UNCHANGED <<workflow, records, locked, call>>

\* The judgement and atomic_write, which replaces the file as a whole.
Write(w) ==
  LET c == call[w]
  IN /\ pc[w] = "write"
     /\ Reconciles(workflow, States(copy[w]), c.run, c.step, c.asked)
     /\ Permitted(workflow, copy[w][c.run].steps, c.step, c.asked)
     /\ records' = [records EXCEPT ![c.run] = Extended(copy[w][c.run], c.step, c.asked)]
     /\ pc' = [pc EXCEPT ![w] = "unlock"]
     /\ UNCHANGED <<workflow, locked, call, copy>>

\* A file that cannot be read, a transition that is refused, or a write that
\* fails before the file is replaced.
Refuse(w) ==
  /\ pc[w] \in {"read", "write"}
  /\ pc' = [pc EXCEPT ![w] = "unlock"]
  /\ UNCHANGED <<workflow, records, locked, call, copy>>

\* The call is over; the writer forgets what it was called with and has read.
Leave(w) ==
  /\ pc' = [pc EXCEPT ![w] = "idle"]
  /\ call' = [call EXCEPT ![w] = NoCall]
  /\ copy' = [copy EXCEPT ![w] = NoRecords]

\* lock.rmdir(); when it fails the call reports an error, and what it wrote stays.
Unlock(w) ==
  /\ pc[w] = "unlock"
  /\ locked' \in {FALSE, locked}
  /\ Leave(w)
  /\ UNCHANGED <<workflow, records>>

\* The process dies and leaves the lock behind.
Crash(w) ==
  /\ pc[w] # "idle"
  /\ Leave(w)
  /\ UNCHANGED <<workflow, records, locked>>

\* "stale .record-lock exists; review before removing": somebody has made sure
\* that no writer is alive.
RemoveStaleLock ==
  /\ locked /\ \A w \in Writers : pc[w] = "idle"
  /\ locked' = FALSE
  /\ UNCHANGED <<workflow, records, pc, call, copy>>

Init ==
  /\ workflow \in {wf \in Workflows : Validated(wf)}
  /\ records = NoRecords
  /\ locked = FALSE
  /\ pc = [w \in Writers |-> "idle"]
  /\ call = [w \in Writers |-> NoCall]
  /\ copy = [w \in Writers |-> NoRecords]

Next ==
  \/ \E w \in Writers :
       Lock(w) \/ ReadAll(w) \/ Write(w) \/ Refuse(w) \/ Unlock(w) \/ Crash(w)
  \/ RemoveStaleLock

Spec == Init /\ [][Next]_vars

-----------------------------------------------------------------------------
(* Properties *)

\* No call of record() ever writes a file that later calls refuse to read: the
\* replay of a stored history accepts every event and ends in the stored states.
\* Otherwise one bad record would block every run of the workflow for good.
HistoryReplays == \A r \in Runs : records[r].readable

\* A step is worked on only when the steps it needs are completed, each with the
\* approval it needs; a step approved beforehand only with the approval of the
\* named person; a step approved afterwards is completed only with it and, once
\* approved, not worked on again; a denied step is cancelled.
HasApproval(log, s) ==
  workflow[s].gate # "none" =>
    log[s].decision = "approved" /\ log[s].by = workflow[s].approver

GateHolds(log, s) ==
  /\ log[s].status \notin {"pending", "cancelled"} =>
       \A d \in workflow[s].needs : log[d].status = "completed" /\ HasApproval(log, d)
  /\ /\ workflow[s].gate = "before"
     /\ log[s].status \notin {"pending", "awaiting-approval", "cancelled"}
     => HasApproval(log, s)
  /\ workflow[s].gate = "after" =>
       /\ log[s].status = "completed" => HasApproval(log, s)
       /\ log[s].decision = "approved" => log[s].status \in {"awaiting-approval"} \cup Final
  /\ log[s].decision = "denied" => log[s].status = "cancelled"

GatesHold == \A r \in Runs, s \in Steps : GateHolds(records[r].steps, s)

\* While the outcome of a step with effects outside is unknown in one run, no
\* other run records anything about that step, a crashed call and a lock removed
\* by hand included, and the run itself records only the outcome.
UncertainBlocks ==
  [][\A r, q \in Runs, s \in Steps :
       workflow[s].effect \in Outward /\ records[r].steps[s].status = "uncertain" =>
         /\ q # r => records'[q].steps[s] = records[q].steps[s]
         /\ records'[r].steps[s].status \in {"uncertain"} \cup Final]_vars

\* Calls take effect one at a time, as RunLog describes: no call is judged on
\* records another call has since replaced, and none overwrites another's event.
Log == INSTANCE RunLog WITH log <- States(records)
AtomicCalls == Log!Spec
=============================================================================
