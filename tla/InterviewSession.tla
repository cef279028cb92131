-------------------------- MODULE InterviewSession --------------------------
(***************************************************************************)
(* One guided interview: the rows of interview_sessions,                   *)
(* interview_operations, interview_turns and interview_proposals that      *)
(* belong to one creation request, and the API server tasks that change    *)
(* them (web/api/interviews).                                              *)
(*                                                                         *)
(* A handler is two or more short transactions around a call of the        *)
(* language model.  PostgreSQL runs them READ COMMITTED and the SELECTs    *)
(* take no lock, so a transaction is two steps here: one that reads (and   *)
(* takes "now"), and one in which its guarded UPDATE, re-evaluated on the  *)
(* current row, decides whether everything it writes is committed or       *)
(* nothing is.  Other tasks may commit between the two.  An error response *)
(* that wrote nothing leaves the tables alone.                             *)
(***************************************************************************)
EXTENDS Integers, Sequences, FiniteSets

CONSTANTS
  Workers,          \* server tasks, each serving one HTTP call at a time
  Requests,         \* client-generated request ids
  CreationRequest,  \* the request id that creates the interview
  Bodies,           \* creation bodies with different input digests
  Scopes, NoScope,  \* workflow ids the model may propose; none selected yet
  Slots,            \* positions of the evidence items of one reply
  Endpoints,        \* bound: the calls clients make besides the creation
  MaxTurns,         \* the stored-turn limit, 80 in the code
  Lease, Retention, \* lease of a running operation, retention of a session
  TxTime,           \* a claiming transaction commits within this time
  Deadline,         \* an inference call ends within this time
  MaxClock,         \* bound on time
  MaxTokens         \* bound on the number of claims

ASSUME RequestsAssumption == CreationRequest \in Requests
ASSUME BodiesAssumption == Bodies \subseteq Nat /\ Slots \subseteq Nat
ASSUME ScopesAssumption == NoScope \notin Scopes
ASSUME LimitsAssumption ==
  /\ MaxTurns \in Nat /\ MaxTurns >= 2
  /\ Lease \in Nat \ {0} /\ Retention \in Nat \ {0}
  /\ TxTime \in Nat /\ Deadline \in Nat
  /\ MaxClock \in Nat /\ MaxTokens \in Nat

VARIABLES
  clock,      \* the time utcnow() returns
  tokens,     \* number of ownership tokens (uuid4) handed out so far
  session,    \* the interview_sessions row; id 0: no row
  ops,        \* the interview_operations rows, by request id
  turns,      \* the interview_turns rows in sequence order
  proposals,  \* the interview_proposals rows, by generation request id
  pc,         \* where each task is in its handler
  call,       \* the HTTP call each task serves
  snap        \* what each task's current transaction has read

tables == <<session, ops, turns, proposals>>
vars == <<clock, tokens, session, ops, turns, proposals, pc, call, snap>>

-----------------------------------------------------------------------------
(* Rows *)

Evidence == Nat \X Slots
Kinds == {"none", "start", "answer", "confirmation", "proposal"}
OpStatus == {"none", "running", "succeeded", "failed"}
SessionStatus == {"none", "active", "awaiting-confirmation", "completed"}

\* What the input digest of a request covers.
Input == [base: Nat, payload: Nat, accept: SUBSET Evidence, reject: SUBSET Evidence]
Op == [kind: Kinds, status: OpStatus, token: Nat, base: Nat, lease: Int, digest: Input]
LastOperation == [request: Requests, kind: Kinds, status: OpStatus, token: Nat,
                  base: Nat, lease: Int]
Session == [id: Nat, revision: Nat, status: SessionStatus, scope: Scopes \cup {NoScope},
            proposed: SUBSET Evidence, confirmed: SUBSET Evidence,
            last: LastOperation, expires: Int]
Turn == [seq: Nat, role: {"user", "assistant"}, request: Requests, question: Nat]
Proposal == [status: {"none", "draft", "accepted"}, revision: Nat,
             facts: SUBSET Evidence, workflow: Scopes \cup {NoScope}]
Call == [request: Requests, kind: Kinds \cup {"apply"}, token: Nat, input: Input]
Snapshot == [id: Nat, last: LastOperation, op: Op, count: Nat,
             confirmed: SUBSET Evidence, now: Int]

NoInput == [base |-> 0, payload |-> 0, accept |-> {}, reject |-> {}]
NoOp == [kind |-> "none", status |-> "none", token |-> 0, base |-> 0, lease |-> 0,
         digest |-> NoInput]
NoLast == [request |-> CreationRequest, kind |-> "none", status |-> "none", token |-> 0,
           base |-> 0, lease |-> 0]
NoSession == [id |-> 0, revision |-> 0, status |-> "none", scope |-> NoScope,
              proposed |-> {}, confirmed |-> {}, last |-> NoLast, expires |-> 0]
NoProposal == [status |-> "none", revision |-> 0, facts |-> {}, workflow |-> NoScope]
NoCall == [request |-> CreationRequest, kind |-> "none", token |-> 0, input |-> NoInput]
NoSnapshot == [id |-> 0, last |-> NoLast, op |-> NoOp, count |-> 0, confirmed |-> {},
               now |-> 0]

Init ==
  /\ clock = 0 /\ tokens = 0
  /\ session = NoSession
  /\ ops = [r \in Requests |-> NoOp]
  /\ turns = <<>>
  /\ proposals = [r \in Requests |-> NoProposal]
  /\ pc = [w \in Workers |-> "idle"]
  /\ call = [w \in Workers |-> NoCall]
  /\ snap = [w \in Workers |-> NoSnapshot]

-----------------------------------------------------------------------------
(* Guards the handlers share *)

\* Mutant of LiveAt: the lease is never looked at.
LiveUntilDone(o, now) == o.status = "running"

\* An operation that still holds its lease: session_operation_is_live for the
\* session's columns, not operation_lease_expired for an operation row.
LiveAt(o, now) == o.status = "running" /\ o.lease > now

\* The API serves a session only until its retention ends.
Readable(now) == session.id # 0 /\ session.expires > now

\* An answer is taken only if the limit leaves room for it and for its reply.
RoomForAnswer == Len(turns) + 2 <= MaxTurns

\* The turn a choice answer has to quote: the latest assistant turn.
LatestQuestion(ts) ==
  LET asked == {i \in DOMAIN ts : ts[i].role = "assistant"}
  IN IF asked = {} THEN 0 ELSE CHOOSE i \in asked : \A j \in asked : j <= i

\* Bound: a claim is begun only while a token and a whole lease are left.
BudgetLeft ==
  /\ tokens + Cardinality({w \in Workers : pc[w] \in {"claim", "reclaim", "confirm"}})
       < MaxTokens
  /\ clock + Lease <= MaxClock

\* What the transaction task w opens for request r reads.
Read(r) == [id |-> session.id, last |-> session.last, op |-> ops[r],
            count |-> Len(turns), confirmed |-> session.confirmed, now |-> clock]

Enter(w, phase, c, r) ==
  /\ pc[w] = "idle"
  /\ pc' = [pc EXCEPT ![w] = phase]
  /\ call' = [call EXCEPT ![w] = c]
  /\ snap' = [snap EXCEPT ![w] = Read(r)]

Return(w) ==
  /\ pc' = [pc EXCEPT ![w] = "idle"]
  /\ call' = [call EXCEPT ![w] = NoCall]
  /\ snap' = [snap EXCEPT ![w] = NoSnapshot]

\* The claim is committed: the model is awaited outside of any transaction.
AwaitModel(w, token) ==
  /\ pc' = [pc EXCEPT ![w] = "model"]
  /\ call' = [call EXCEPT ![w].token = token]
  /\ snap' = [snap EXCEPT ![w] = [NoSnapshot EXCEPT !.id = snap[w].id, !.now = clock]]

-----------------------------------------------------------------------------
(* Creation *)

\* _claim_start: the unique creation request id lets one task insert the rows.
StartCreate(w, body) ==
  LET token == tokens + 1
      input == [NoInput EXCEPT !.payload = body]
  IN /\ pc[w] = "idle" /\ session.id = 0 /\ BudgetLeft
     /\ tokens' = token
     /\ session' = [NoSession EXCEPT
          !.id = token, !.status = "active", !.expires = clock + Retention,
          !.last = [request |-> CreationRequest, kind |-> "start", status |-> "running",
                    token |-> token, base |-> 0, lease |-> clock + Lease]]
     /\ ops' = [ops EXCEPT ![CreationRequest] =
          [kind |-> "start", status |-> "running", token |-> token, base |-> 0,
           lease |-> clock + Lease, digest |-> input]]
     /\ pc' = [pc EXCEPT ![w] = "model"]
     /\ call' = [call EXCEPT ![w] = [request |-> CreationRequest, kind |-> "start",
                                     token |-> token, input |-> input]]
     /\ snap' = [snap EXCEPT ![w] = [NoSnapshot EXCEPT !.id = token, !.now = clock]]
     /\ UNCHANGED <<clock, turns, proposals>>

-----------------------------------------------------------------------------
(* First transaction of a call: the read step *)

AnswerRead(w, r, base, question) ==
  /\ Readable(clock) /\ BudgetLeft
  /\ ops[r].status = "none"
  /\ session.revision = base
  /\ ~LiveAt(session.last, clock)
  /\ RoomForAnswer
  /\ question # 0 => question = LatestQuestion(turns)
  /\ Enter(w, "claim", [request |-> r, kind |-> "answer", token |-> 0,
             input |-> [NoInput EXCEPT !.base = base, !.payload = question]], r)
  /\ UNCHANGED <<clock, tokens, tables>>

GenerateRead(w, r, base) ==
  /\ Readable(clock) /\ BudgetLeft
  /\ ops[r].status = "none"
  /\ session.revision = base
  /\ ~LiveAt(session.last, clock)
  /\ Enter(w, "claim", [request |-> r, kind |-> "proposal", token |-> 0,
             input |-> [NoInput EXCEPT !.base = base]], r)
  /\ UNCHANGED <<clock, tokens, tables>>

\* A request id seen before, with the same input: a succeeded operation is only
\* read back, a live one is busy, and an abandoned or failed one is reclaimed.
\* A repeated creation does not compare the revision here (_claim_existing_start).
RetryRead(w, r, input) ==
  /\ Readable(clock) /\ BudgetLeft
  /\ ops[r].kind \in {"start", "answer", "proposal"}
  /\ ops[r].digest = input
  /\ ops[r].status # "succeeded"
  /\ ops[r].kind # "start" => session.revision = ops[r].base
  /\ ~LiveAt(ops[r], clock) /\ ~LiveAt(session.last, clock)
  /\ Enter(w, "reclaim", [request |-> r, kind |-> ops[r].kind, token |-> 0,
                          input |-> input], r)
  /\ UNCHANGED <<clock, tokens, tables>>

ConfirmRead(w, r, base, accept, reject) ==
  /\ Readable(clock) /\ BudgetLeft
  /\ ops[r].status = "none"
  /\ session.revision = base
  /\ ~LiveAt(session.last, clock)
  /\ accept \cup reject # {} /\ accept \cap reject = {}
  /\ Enter(w, "confirm", [request |-> r, kind |-> "confirmation", token |-> 0,
       input |-> [base |-> base, payload |-> 0, accept |-> accept, reject |-> reject]], r)
  /\ UNCHANGED <<clock, tokens, tables>>

ApplyRead(w, r, base) ==
  /\ Readable(clock)
  /\ proposals[r].status = "draft" /\ proposals[r].revision = base
  /\ session.revision = base /\ session.status = "completed"
  /\ session.scope # NoScope /\ proposals[r].workflow = session.scope
  /\ ~LiveAt(session.last, clock)
  /\ Enter(w, "apply", [request |-> r, kind |-> "apply", token |-> 0,
             input |-> [NoInput EXCEPT !.base = base]], r)
  /\ UNCHANGED <<clock, tokens, tables>>

-----------------------------------------------------------------------------
(* First transaction of a call: its guarded UPDATE and what it commits *)

\* Mutant of ClaimHolds: the last_operation_* columns are not compared.
ClaimHoldsByRevision(w) ==
  /\ session.id = snap[w].id
  /\ session.revision = call[w].input.base
  /\ session.expires > snap[w].now

\* Mutant of ClaimHolds: what was read is trusted.
ClaimHoldsByKey(w) == session.id = snap[w].id

\* The WHERE clause of claim_session_operation: every last_operation_* column is
\* still what the task read, and the session has the expected revision.
ClaimHolds(w) ==
  /\ session.id = snap[w].id
  /\ session.revision = call[w].input.base
  /\ session.expires > snap[w].now
  /\ session.last = snap[w].last

\* The WHERE clause of reclaim_operation's second UPDATE.
OperationHolds(w) ==
  LET op == ops[call[w].request]
      old == snap[w].op
  IN /\ op.status = old.status /\ op.token = old.token
     /\ op.base = old.base /\ op.lease = old.lease

\* Mutant of ClaimedSession: the new owner inherits the old lease.
ClaimedSessionOldLease(w, token) ==
  [session EXCEPT
    !.last = [request |-> call[w].request, kind |-> call[w].kind, status |-> "running",
              token |-> token, base |-> call[w].input.base,
              lease |-> session.last.lease],
    !.expires = snap[w].now + Retention]

\* claim_session_operation's SET clause.
ClaimedSession(w, token) ==
  [session EXCEPT
    !.last = [request |-> call[w].request, kind |-> call[w].kind, status |-> "running",
              token |-> token, base |-> call[w].input.base,
              lease |-> snap[w].now + Lease],
    !.expires = snap[w].now + Retention]

NewOperation(w, token) ==
  [kind |-> call[w].kind, status |-> "running", token |-> token,
   base |-> call[w].input.base, lease |-> snap[w].now + Lease, digest |-> call[w].input]

\* reclaim_operation's SET clause: the row keeps its kind, base and input.
ReclaimedOperation(w, token) ==
  [ops[call[w].request] EXCEPT !.status = "running", !.token = token,
                               !.lease = snap[w].now + Lease]

UserTurn(w) == [seq |-> snap[w].count + 1, role |-> "user", request |-> call[w].request,
                question |-> call[w].input.payload]
\* Mutant of AssistantTurn: a role the column does not know.
AgentTurn(w) == [seq |-> snap[w].count + 1, role |-> "agent",
                 request |-> call[w].request, question |-> 0]
AssistantTurn(w) == [seq |-> snap[w].count + 1, role |-> "assistant",
                     request |-> call[w].request, question |-> 0]

ClaimAnswer(w) ==
  LET token == tokens + 1
  IN /\ pc[w] = "claim" /\ call[w].kind = "answer"
     /\ ClaimHolds(w)
     /\ tokens' = token
     /\ session' = ClaimedSession(w, token)
     /\ ops' = [ops EXCEPT ![call[w].request] = NewOperation(w, token)]
     /\ turns' = Append(turns, UserTurn(w))
     /\ AwaitModel(w, token)
     /\ UNCHANGED <<clock, proposals>>

ClaimGeneration(w) ==
  LET token == tokens + 1
  IN /\ pc[w] = "claim" /\ call[w].kind = "proposal"
     /\ ClaimHolds(w)
     /\ tokens' = token
     /\ session' = ClaimedSession(w, token)
     /\ ops' = [ops EXCEPT ![call[w].request] = NewOperation(w, token)]
     /\ AwaitModel(w, token)
     /\ UNCHANGED <<clock, turns, proposals>>

\* The operation keeps its row, its input and its user turn; its owner changes.
Reclaim(w) ==
  LET token == tokens + 1
  IN /\ pc[w] = "reclaim"
     /\ ClaimHolds(w) /\ OperationHolds(w)
     /\ tokens' = token
     /\ session' = ClaimedSession(w, token)
     /\ ops' = [ops EXCEPT ![call[w].request] = ReclaimedOperation(w, token)]
     /\ AwaitModel(w, token)
     /\ UNCHANGED <<clock, turns, proposals>>

Decided(input) == input.accept \cup input.reject

\* Only evidence that is proposed now can be decided (else: unknown_evidence).
\* Mutant of Decidable: what was confirmed before may be decided again.
DecidableAgain(w) ==
  Decided(call[w].input) \subseteq session.proposed \cup session.confirmed
Decidable(w) == Decided(call[w].input) \subseteq session.proposed

\* Mutant of ConfirmedAfter: the accepted items replace the confirmed ones.
ConfirmedReplaced(w) == call[w].input.accept
ConfirmedAfter(w) == session.confirmed \cup call[w].input.accept

\* confirm claims, decides and succeeds in one transaction.
Confirm(w) ==
  LET token == tokens + 1
      left == session.proposed \ Decided(call[w].input)
  IN /\ pc[w] = "confirm"
     /\ ClaimHolds(w) /\ Decidable(w)
     /\ tokens' = token
     /\ session' = [ClaimedSession(w, token) EXCEPT
          !.confirmed = ConfirmedAfter(w),
          !.proposed = left,
          !.revision = session.revision + 1,
          !.status = IF left # {} THEN "awaiting-confirmation" ELSE "active",
          !.last.status = "succeeded", !.last.lease = snap[w].now]
     /\ ops' = [ops EXCEPT ![call[w].request] =
          [NewOperation(w, token) EXCEPT !.status = "succeeded", !.lease = snap[w].now]]
     /\ Return(w)
     /\ UNCHANGED <<clock, turns, proposals>>

\* The WHERE clause of advance_session_without_live_operation.
AdvanceHolds(w) ==
  /\ ClaimHolds(w)
  /\ session.status = "completed"
  /\ ~LiveAt(session.last, snap[w].now)

\* The session advances, then draft -> accepted.  The design that is created or
\* replaced in the same transaction belongs to the module DesignLifecycle.
Apply(w) ==
  LET r == call[w].request
  IN /\ pc[w] = "apply"
     /\ AdvanceHolds(w)
     /\ proposals[r].status = "draft" /\ proposals[r].revision = call[w].input.base
     /\ session' = [session EXCEPT !.revision = session.revision + 1,
                                   !.expires = snap[w].now + Retention]
     /\ proposals' = [proposals EXCEPT ![r].status = "accepted"]
     /\ Return(w)
     /\ UNCHANGED <<clock, tokens, ops, turns>>

-----------------------------------------------------------------------------
(* Second transaction of a call: the model has answered or failed *)

\* The operation row is still this task's.
OwnsOperation(w) ==
  LET op == ops[call[w].request]
  IN session.id = snap[w].id /\ op.status = "running" /\ op.token = call[w].token

\* What a task that brings a valid reply must find.
ReplyHolds(w) ==
  /\ Readable(clock) /\ OwnsOperation(w)
  /\ ops[call[w].request].base = call[w].input.base
  /\ ops[call[w].request].lease > clock

ReplyRead(w) ==
  /\ pc[w] = "model"
  /\ ReplyHolds(w)
  /\ pc' = [pc EXCEPT ![w] = "finish"]
  /\ snap' = [snap EXCEPT ![w] = Read(call[w].request)]
  /\ UNCHANGED <<clock, tokens, tables, call>>

\* An error of the provider, or a reply that fails validation.
ErrorRead(w) ==
  /\ pc[w] = "model"
  /\ OwnsOperation(w)
  /\ pc' = [pc EXCEPT ![w] = "fail"]
  /\ snap' = [snap EXCEPT ![w] = Read(call[w].request)]
  /\ UNCHANGED <<clock, tokens, tables, call>>

\* Mutant of FinishHolds: the ownership token is not compared.
FinishHoldsAnyOwner(w) ==
  /\ session.id = snap[w].id
  /\ session.revision = call[w].input.base
  /\ session.last.lease > snap[w].now
  /\ session.expires > snap[w].now

\* Mutant of FinishHolds: the revision is not compared, nor the owner.
FinishHoldsAnyRevision(w) ==
  /\ session.id = snap[w].id
  /\ session.expires > snap[w].now

\* The WHERE clause with which a result is committed.
FinishHolds(w) ==
  /\ session.id = snap[w].id
  /\ session.revision = call[w].input.base
  /\ session.last.token = call[w].token
  /\ session.last.lease > snap[w].now
  /\ session.expires > snap[w].now

Succeed(r) == ops' = [ops EXCEPT ![r].status = "succeeded"]

FinishReply(w, slots, ready, scope) ==
  LET proposed == {call[w].token} \X slots
  IN /\ pc[w] = "finish" /\ call[w].kind \in {"start", "answer"}
     /\ FinishHolds(w)
     /\ session' = [session EXCEPT
          !.revision = call[w].input.base + 1,
          !.status = IF proposed # {} THEN "awaiting-confirmation"
                     ELSE IF ready THEN "completed" ELSE "active",
          !.scope = scope, !.proposed = proposed,
          !.last.status = "succeeded", !.expires = snap[w].now + Retention]
     /\ turns' = Append(turns, AssistantTurn(w))
     /\ Succeed(call[w].request)
     /\ Return(w)
     /\ UNCHANGED <<clock, tokens, proposals>>

FinishGeneration(w, workflow) ==
  LET r == call[w].request
  IN /\ pc[w] = "finish" /\ call[w].kind = "proposal"
     /\ FinishHolds(w)
     /\ session' = [session EXCEPT
          !.revision = call[w].input.base + 1, !.status = "completed",
          !.last.status = "succeeded", !.expires = snap[w].now + Retention]
     /\ proposals' = [proposals EXCEPT ![r] =
          [status |-> "draft", revision |-> call[w].input.base + 1,
           facts |-> snap[w].confirmed, workflow |-> workflow]]
     /\ Succeed(r)
     /\ Return(w)
     /\ UNCHANGED <<clock, tokens, turns>>

\* Mutant of FailureHolds: the ownership token is not compared.
FailureHoldsAnyOwner(w) ==
  /\ session.id = snap[w].id
  /\ session.expires > snap[w].now

\* The WHERE clause with which a failure is recorded: neither the revision nor
\* the lease is compared.
FailureHolds(w) ==
  /\ session.id = snap[w].id
  /\ session.last.token = call[w].token
  /\ session.expires > snap[w].now

RecordFailure(w) ==
  /\ pc[w] = "fail"
  /\ FailureHolds(w)
  /\ session' = [session EXCEPT !.last.status = "failed"]
  /\ ops' = [ops EXCEPT ![call[w].request].status = "failed"]
  /\ Return(w)
  /\ UNCHANGED <<clock, tokens, turns, proposals>>

-----------------------------------------------------------------------------
(* Refusals, crashes, deletion, time *)

\* A guarded UPDATE that matches no row, evidence that is not proposed, or a
\* second read that finds the operation gone: 409, and nothing is written.
Refused(w) ==
  /\ \/ pc[w] \in {"claim", "reclaim", "confirm", "apply"} /\ ~ClaimHolds(w)
     \/ pc[w] = "confirm" /\ ~Decidable(w)
     \/ pc[w] = "model" /\ ~ReplyHolds(w)
     \/ pc[w] = "finish" /\ ~FinishHolds(w)
     \/ pc[w] = "fail" /\ ~FailureHolds(w)
  /\ Return(w)
  /\ UNCHANGED <<clock, tokens, tables>>

\* The task is cancelled or its process dies: an open transaction rolls back.
Crash(w) ==
  /\ pc[w] # "idle"
  /\ Return(w)
  /\ UNCHANGED <<clock, tokens, tables>>

RemoveRows ==
  /\ session' = NoSession
  /\ ops' = [r \in Requests |-> NoOp]
  /\ turns' = <<>>
  /\ proposals' = [r \in Requests |-> NoProposal]
  /\ UNCHANGED <<clock, tokens, pc, call, snap>>

\* DELETE /interviews/{id}; the foreign keys cascade.
Delete == Readable(clock) /\ RemoveRows

\* delete_expired_interviews, the operator's cleanup command.
Cleanup == session.id # 0 /\ session.expires <= clock /\ RemoveRows

\* Time passes, but no transaction outlives TxTime and no inference Deadline.
Tick ==
  /\ clock < MaxClock
  /\ \A w \in Workers : pc[w] \in {"claim", "reclaim"} => clock < snap[w].now + TxTime
  /\ \A w \in Workers : pc[w] = "model" => clock < snap[w].now + Deadline
  /\ clock' = clock + 1
  /\ UNCHANGED <<tokens, tables, pc, call, snap>>

-----------------------------------------------------------------------------
Receive(w) ==
  \/ \E body \in Bodies : StartCreate(w, body)
  \/ \E r \in Requests, base \in 0 .. session.revision :
       \/ /\ "answer" \in Endpoints
          /\ \E question \in 0 .. Len(turns) : AnswerRead(w, r, base, question)
       \/ "proposal" \in Endpoints /\ GenerateRead(w, r, base)
       \/ /\ "confirmation" \in Endpoints
          /\ \E accept, reject \in SUBSET (session.proposed \cup session.confirmed) :
               ConfirmRead(w, r, base, accept, reject)
       \/ "apply" \in Endpoints /\ ApplyRead(w, r, base)
       \/ \E payload \in Bodies \cup 0 .. Len(turns) :
            RetryRead(w, r, [NoInput EXCEPT !.base = base, !.payload = payload])

Proceed(w) ==
  \/ ClaimAnswer(w) \/ ClaimGeneration(w) \/ Reclaim(w) \/ Confirm(w) \/ Apply(w)
  \/ ReplyRead(w) \/ ErrorRead(w)
  \/ \E slots \in SUBSET Slots, ready \in BOOLEAN, scope \in Scopes \cup {NoScope} :
       FinishReply(w, slots, ready, scope)
  \/ \E workflow \in Scopes : FinishGeneration(w, workflow)
  \/ RecordFailure(w) \/ Refused(w)

Next ==
  \/ \E w \in Workers : Receive(w) \/ Proceed(w) \/ Crash(w)
  \/ Delete \/ Cleanup \/ Tick

Spec == Init /\ [][Next]_vars

\* Servers run what they have begun, and time passes.  Nothing makes a client call.
FairSpec == Spec /\ WF_vars(Tick) /\ \A w \in Workers : WF_vars(Proceed(w))
-----------------------------------------------------------------------------
(* Properties *)

\* Every table, every handler and every snapshot keeps its type.
TypeOK ==
  /\ clock \in Int /\ tokens \in Nat
  /\ session \in Session
  /\ ops \in [Requests -> Op]
  /\ turns \in Seq(Turn)
  /\ proposals \in [Requests -> Proposal]
  /\ pc \in [Workers -> {"idle", "claim", "reclaim", "confirm", "apply", "model",
                         "finish", "fail"}]
  /\ call \in [Workers -> Call]
  /\ \A w \in Workers : call[w].kind = "apply" => pc[w] = "apply"
  /\ snap \in [Workers -> Snapshot]

\* The six last_operation_* columns of the session and the row of the operation
\* they name always describe the same attempt.  The portal offers a retry, and
\* reclaim_operation grants it, only if both say the lease is over: if they
\* disagreed, an abandoned operation could never be taken over.
OwnerAgrees ==
  session.id # 0 =>
    LET op == ops[session.last.request]
    IN /\ op.kind = session.last.kind /\ op.status = session.last.status
       /\ op.token = session.last.token /\ op.base = session.last.base
       /\ op.lease = session.last.lease

\* Whoever may still commit a reply or a failure holds the session's last operation
\* and its row: an operation another task overtook can no longer write anything.
OnlyOwnerCommits ==
  \A w \in Workers :
    /\ pc[w] = "finish" /\ FinishHolds(w)
         => session.last.request = call[w].request /\ OwnsOperation(w)
    /\ pc[w] = "fail" /\ FailureHolds(w)
         => session.last.request = call[w].request /\ OwnsOperation(w)

\* If a reclaim's session UPDATE matches then so does its operation UPDATE: a
\* retry never takes the session and then loses the operation.
ReclaimIsWhole ==
  \A w \in Workers : pc[w] = "reclaim" /\ ClaimHolds(w) => OperationHolds(w)

\* The stored-turn limit holds although the count is read before the insert, a
\* failed answer keeps its user turn and a retried one adds only a reply.
TurnLimit == Len(turns) <= MaxTurns

\* Sequence numbers, computed from a count read earlier, are 1, 2, 3, ...: the
\* unique constraint never turns a reply that was paid for into an error.
TurnSequence == \A i \in 1 .. Len(turns) : turns[i].seq = i

\* However often a request is retried, it stores its user turn once, and a reply
\* once and only if it succeeded.
OneTurnEach ==
  \A r \in Requests :
    LET Stored(role) ==
          Cardinality({i \in DOMAIN turns : turns[i].role = role /\ turns[i].request = r})
    IN /\ Stored("user") = IF ops[r].kind = "answer" THEN 1 ELSE 0
       /\ Stored("assistant") =
            IF ops[r].kind \in {"start", "answer"} /\ ops[r].status = "succeeded"
            THEN 1 ELSE 0

\* A stored choice answer replies to the latest question asked before it.
ChoiceIsCurrent ==
  \A i \in DOMAIN turns :
    turns[i].question # 0 => turns[i].question = LatestQuestion(SubSeq(turns, 1, i - 1))

\* Confirmed evidence is what the successful confirmations accepted, no item was
\* decided twice, and a decided item is not proposed again.
EvidenceDecidedOnce ==
  LET done == {r \in Requests : ops[r].kind = "confirmation"}
      Items(r) == Decided(ops[r].digest)
  IN /\ session.confirmed = UNION {ops[r].digest.accept : r \in done}
     /\ \A r, s \in done : r # s => Items(r) \cap Items(s) = {}
     /\ \A r \in done : Items(r) \cap session.proposed = {}

\* A draft proposal at the session's revision was assembled from exactly the
\* evidence confirmed now, and is the only one: applying it cannot bring in facts
\* confirmed or replaced since.
ProposalIsCurrent ==
  LET drafts == {r \in Requests : /\ proposals[r].status = "draft"
                                  /\ proposals[r].revision = session.revision}
  IN /\ Cardinality(drafts) <= 1
     /\ \A r \in drafts : proposals[r].facts = session.confirmed

\* Nothing is stored for an interview whose row is gone, whatever replies arrive
\* after its deletion.
DeletedStaysDeleted ==
  session.id = 0 =>
    /\ turns = <<>>
    /\ \A r \in Requests : ops[r] = NoOp /\ proposals[r] = NoProposal

\* Confirmed evidence and stored turns are never lost while the interview exists.
NothingConfirmedIsLost ==
  [][session'.id = session.id =>
       /\ session.confirmed \subseteq session'.confirmed
       /\ Len(turns) <= Len(turns') /\ SubSeq(turns', 1, Len(turns)) = turns]_vars

\* At most one task at a time is waiting for the model on behalf of an interview,
\* provided a claim commits and its inference ends before the lease does.
OneInference ==
  \A v, w \in Workers :
    pc[v] = "model" /\ pc[w] = "model" /\ snap[v].id = snap[w].id => v = w

\* A session is busy for one lease at most: when the task that owns the running
\* operation is gone, the session can be claimed again.
BusyEnds ==
  \A t \in 1 .. MaxTokens :
    (session.id # 0 /\ session.last.token = t /\ session.last.status = "running")
      ~> (session.last.token # t \/ ~LiveAt(session.last, clock))
\* What the log tells of a request, and of the interview.
AsLogged(op) ==
  [kind |-> op.kind, status |-> op.status, base |-> op.base,
   decided |-> IF op.kind = "confirmation" THEN Decided(op.digest) ELSE {}]
RequestsLogged == [r \in Requests |-> AsLogged(ops[r])]
InterviewLogged ==
  [revision |-> session.revision, status |-> session.status, scope |-> session.scope,
   proposed |-> session.proposed, confirmed |-> session.confirmed]

\* Requests take effect one at a time, as InterviewLog describes: whatever a task has read,
\* what it commits is judged by the rows as they are when it commits.
Log == INSTANCE InterviewLog WITH
  exists <- session.id # 0, interview <- InterviewLogged, requests <- RequestsLogged,
  current <- session.last.request, until <- session.last.lease
OneAtATime == Log!Spec
-----------------------------------------------------------------------------
(* The inductive invariant *)

\* Phases whose transaction has read but not written, and phases that hold a token.
Reading == {"claim", "reclaim", "confirm", "apply"}
Owning == {"model", "finish", "fail"}

\* Task w works on the interview that is stored now, not on a deleted one.
Attached(w) == pc[w] # "idle" /\ session.id = snap[w].id

\* Nothing in the tables or in a handler is newer than the token counter, and a
\* token belongs to one task.
TokensFresh ==
  /\ session.id <= tokens /\ session.last.token <= tokens
  /\ \A w \in Workers :
       pc[w] # "idle" =>
         /\ snap[w].id \in 1 .. tokens
         /\ snap[w].last.token <= tokens /\ call[w].token <= tokens
  /\ \A v, w \in Workers :
       v # w /\ pc[v] \in Owning /\ pc[w] \in Owning => call[v].token # call[w].token

\* The session's revision never falls below one that a row or a handler names.
RevisionsReached ==
  /\ \A r \in Requests : ops[r].base <= session.revision
                         /\ ops[r].digest.base = ops[r].base
  /\ \A w \in Workers : Attached(w) => call[w].input.base <= session.revision

\* What a task has read is what is stored, unless the session got another owner,
\* or its owner, running when it was read, has ended since.
ReadsHold ==
  \A w \in Workers :
    /\ Attached(w) /\ pc[w] \in Reading /\ session.last.token = snap[w].last.token =>
         \/ session.last = snap[w].last /\ ops[call[w].request] = snap[w].op
         \/ snap[w].last.status = "running" /\ session.last.status # "running"
    /\ pc[w] \in {"claim", "confirm"} => snap[w].op.status = "none"
    /\ pc[w] = "reclaim" =>
         /\ snap[w].op.status # "succeeded"
         /\ snap[w].op.kind = call[w].kind /\ snap[w].op.base = call[w].input.base

\* A task whose token the session still carries owns the session's last operation,
\* and that operation is running.
OwnersRun ==
  \A w \in Workers :
    /\ pc[w] \in Owning /\ call[w].token = session.last.token /\ Attached(w) =>
         /\ session.last.status = "running"
         /\ session.last.request = call[w].request
         /\ session.last.kind = call[w].kind
         /\ session.last.base = call[w].input.base

\* A turn count is the number of turns for as long as its reader can still write,
\* and an operation that can still bring a reply has a turn left for it.
CountsHold ==
  /\ \A w \in Workers :
       Attached(w) /\ session.revision = call[w].input.base =>
         /\ pc[w] = "claim" /\ call[w].kind = "answer"
              /\ session.last.token = snap[w].last.token
              => snap[w].count = Len(turns) /\ Len(turns) + 2 <= MaxTurns
         /\ pc[w] = "finish" /\ session.last.token = call[w].token
              => snap[w].count = Len(turns)
  /\ \A r \in Requests :
       ops[r].kind \in {"start", "answer"} /\ ops[r].status # "succeeded"
         /\ ops[r].base = session.revision
         => Len(turns) + 1 <= MaxTurns

\* Everything an owner's commit relies on, and what follows from it for the rows:
\* no two facts of it are inductive without the others.
OwnershipInv ==
  /\ TypeOK /\ OwnerAgrees /\ DeletedStaysDeleted /\ TurnLimit /\ TurnSequence
  /\ TokensFresh /\ RevisionsReached /\ ReadsHold /\ OwnersRun /\ CountsHold

\* A handler is only where calls of its kind go, and an operation that is not done is
\* neither of an unknown kind nor a confirmation.
Phases ==
  /\ \A w \in Workers :
       /\ pc[w] = "claim" => call[w].kind \in {"answer", "proposal"}
       /\ pc[w] = "reclaim" => call[w].kind \in {"start", "answer", "proposal"}
       /\ pc[w] = "confirm" => call[w].kind = "confirmation"
  /\ \A r \in Requests :
       /\ ops[r].status = "none" <=> ops[r].kind = "none"
       /\ ops[r].kind = "confirmation" => ops[r].status = "succeeded"

\* The question an answer was accepted for is the latest as long as the answer can
\* still be stored.
ChoicesHold ==
  \A w \in Workers :
    /\ pc[w] = "claim" /\ call[w].kind = "answer" /\ Attached(w)
    /\ session.revision = call[w].input.base /\ session.last.token = snap[w].last.token
    /\ call[w].input.payload # 0
    => call[w].input.payload = LatestQuestion(turns)

\* Evidence was proposed under a token handed out, and never under one that can
\* still bring a reply.
EvidenceFresh ==
  \A e \in session.proposed
          \cup UNION {Decided(ops[r].digest) : r \in {s \in Requests : ops[s].kind = "confirmation"}} :
    /\ e[1] <= tokens
    /\ \A w \in Workers : pc[w] \in Owning => call[w].token # e[1]

\* No draft is of a later revision than the session, and a task that can still store
\* one has read the evidence confirmed now.
DraftsHold ==
  /\ \A r \in Requests : proposals[r].status = "draft" => proposals[r].revision <= session.revision
  /\ \A w \in Workers :
       pc[w] = "finish" /\ Attached(w) /\ session.last.token = call[w].token
         => snap[w].confirmed = session.confirmed

\* What the stored rows say of one another, with what keeps it so.
RowsInv ==
  /\ OwnershipInv /\ Phases
  /\ OneTurnEach
  /\ ChoiceIsCurrent /\ ChoicesHold
  /\ EvidenceDecidedOnce /\ EvidenceFresh
  /\ ProposalIsCurrent /\ DraftsHold

\* A task that has read saw nobody own the interview by its own time; what it was asked to
\* decide is in order; and a proposal it is to apply fits the interview's scope as long as
\* the revision it read is the last.
CallsHold ==
  \A w \in Workers :
    /\ pc[w] \in Reading => snap[w].now <= clock /\ ~LiveAt(snap[w].last, snap[w].now)
    /\ pc[w] = "confirm" =>
         Decided(call[w].input) # {} /\ call[w].input.accept \cap call[w].input.reject = {}
    /\ pc[w] = "apply" /\ Attached(w) /\ session.revision = call[w].input.base =>
         session.scope # NoScope /\ proposals[call[w].request].workflow = session.scope

\* Under a lease that covers a claim and an inference, a task that waits for the
\* model still owns the session it works for, and the lease cannot have run out.
LeaseInv ==
  /\ \A w \in Workers :
       pc[w] \in Reading => snap[w].now <= clock /\ ~LiveAt(snap[w].last, snap[w].now)
  /\ \A w \in Workers :
       pc[w] \in {"claim", "reclaim"} => clock <= snap[w].now + TxTime
  /\ \A w \in Workers :
       pc[w] = "model" =>
         /\ clock <= snap[w].now + Deadline
         /\ Attached(w) => /\ session.last.token = call[w].token
                           /\ session.last.lease + TxTime >= snap[w].now + Lease

\* A stored proposal is the result of an operation that succeeded.
ProposalsSucceeded ==
  \A r \in Requests : proposals[r].status # "none" => ops[r].status = "succeeded"
=============================================================================
