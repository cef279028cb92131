----------------------- MODULE InterviewSessionProofs -----------------------
(***************************************************************************)
(* Theorems about InterviewSession, for any number of tasks, requests,     *)
(* turns and for any lease and deadline.                                   *)
(***************************************************************************)
EXTENDS InterviewSession, FiniteSetTheorems, SequenceTheorems, TLAPS

USE RequestsAssumption, BodiesAssumption, ScopesAssumption, LimitsAssumption

-----------------------------------------------------------------------------
(* Types *)

\* What a transaction reads has the type of a snapshot.
LEMMA ReadType ==
  ASSUME TypeOK, NEW r \in Requests
  PROVE  Read(r) \in Snapshot
<1>1. Len(turns) \in Nat
  BY DEF TypeOK
<1> QED
  BY <1>1 DEF TypeOK, Read, Snapshot, Session

\* The empty rows have their types.
LEMMA EmptyTypes ==
  /\ NoInput \in Input /\ NoOp \in Op /\ NoLast \in LastOperation
  /\ NoSession \in Session /\ NoProposal \in Proposal
  /\ NoCall \in Call /\ NoSnapshot \in Snapshot
  BY DEF NoInput, Input, NoOp, Op, Kinds, OpStatus, NoLast, LastOperation,
         NoSession, Session, SessionStatus, NoProposal, Proposal, NoCall, Call,
         NoSnapshot, Snapshot

\* Every row starts with its type.
LEMMA InitType == Init => TypeOK
<1>1. NoCall.kind # "apply"
  BY DEF NoCall
<1> QED
  BY <1>1, EmptyTypes DEF Init, TypeOK

\* What a claim writes has the type of its row.
LEMMA ClaimedTypes ==
  ASSUME TypeOK, NEW w \in Workers, call[w].kind \in Kinds, NEW token \in Nat
  PROVE  /\ ClaimedSession(w, token) \in Session
         /\ NewOperation(w, token) \in Op
         /\ ReclaimedOperation(w, token) \in Op
<1>1. call[w] \in Call /\ snap[w] \in Snapshot /\ session \in Session
      /\ ops[call[w].request] \in Op
  BY DEF TypeOK, Call
<1> DEFINE last == [request |-> call[w].request, kind |-> call[w].kind,
                    status |-> "running", token |-> token,
                    base |-> call[w].input.base, lease |-> snap[w].now + Lease]
<1>2. ClaimedSession(w, token) \in Session
  <2>1. last \in LastOperation
    BY <1>1 DEF LastOperation, Call, Input, OpStatus, Snapshot
  <2>2. snap[w].now + Retention \in Int
    BY <1>1 DEF Snapshot
  <2>3. ClaimedSession(w, token)
          = [session EXCEPT !.last = last, !.expires = snap[w].now + Retention]
    BY DEF ClaimedSession
  <2> HIDE DEF last
  <2> QED
    BY <1>1, <2>1, <2>2, <2>3 DEF Session
<1>3. NewOperation(w, token) \in Op
  BY <1>1 DEF NewOperation, Op, Call, Input, OpStatus, Snapshot
<1>4. ReclaimedOperation(w, token) \in Op
  <2>1. snap[w].now + Lease \in Int /\ "running" \in OpStatus
    BY <1>1 DEF OpStatus, Snapshot
  <2> QED
    BY <1>1, <2>1 DEF ReclaimedOperation, Op
<1> QED
  BY <1>2, <1>3, <1>4

\* A session row with new values in some of its columns is a session row.
LEMMA UpdatedSession ==
  ASSUME NEW s \in Session, NEW revision \in Nat, NEW status \in SessionStatus,
         NEW scope \in Scopes \cup {NoScope}, NEW proposed \in SUBSET Evidence,
         NEW confirmed \in SUBSET Evidence, NEW opStatus \in OpStatus,
         NEW lease \in Int, NEW expires \in Int
  PROVE  /\ [s EXCEPT !.confirmed = confirmed, !.proposed = proposed,
                      !.revision = revision, !.status = status,
                      !.last.status = opStatus, !.last.lease = lease] \in Session
         /\ [s EXCEPT !.revision = revision, !.status = status, !.scope = scope,
                      !.proposed = proposed, !.last.status = opStatus,
                      !.expires = expires] \in Session
  BY DEF Session, LastOperation

\* A table keeps its type when one status in it changes.
LEMMA StatusTyped ==
  /\ \A f \in [Requests -> Op], r \in Requests, status \in OpStatus :
       [f EXCEPT ![r].status = status] \in [Requests -> Op]
  /\ \A f \in [Requests -> Proposal], r \in Requests, status \in {"none", "draft", "accepted"} :
       [f EXCEPT ![r].status = status] \in [Requests -> Proposal]
<1>1. \A o \in Op, status \in OpStatus : [o EXCEPT !.status = status] \in Op
  BY DEF Op
<1>2. \A p \in Proposal, status \in {"none", "draft", "accepted"} :
        [p EXCEPT !.status = status] \in Proposal
  BY DEF Proposal
<1> QED
  BY <1>1, <1>2

\* What is typed of the handlers.
Handlers ==
  /\ pc \in [Workers -> {"idle", "claim", "reclaim", "confirm", "apply", "model",
                         "finish", "fail"}]
  /\ call \in [Workers -> Call] /\ snap \in [Workers -> Snapshot]
  /\ \A w \in Workers : call[w].kind = "apply" => pc[w] = "apply"

\* The handler that ends, and the one that begins, keep their types.
LEMMA HandlersTyped ==
  ASSUME TypeOK, NEW w \in Workers
  PROVE  /\ Return(w) => Handlers'
         /\ \A phase \in {"claim", "reclaim", "confirm", "apply"}, c \in Call, r \in Requests :
              (c.kind = "apply" => phase = "apply") /\ Enter(w, phase, c, r) => Handlers'
<1>1. ASSUME NEW phase \in {"idle", "claim", "reclaim", "confirm", "apply"}, NEW c \in Call,
             NEW s \in Snapshot, c.kind = "apply" => phase = "apply",
             pc' = [pc EXCEPT ![w] = phase], call' = [call EXCEPT ![w] = c],
             snap' = [snap EXCEPT ![w] = s]
      PROVE  Handlers'
  <2>1. /\ pc \in [Workers -> {"idle", "claim", "reclaim", "confirm", "apply", "model",
                               "finish", "fail"}]
        /\ call \in [Workers -> Call] /\ snap \in [Workers -> Snapshot]
        /\ \A v \in Workers : call[v].kind = "apply" => pc[v] = "apply"
    BY DEF TypeOK
  <2> QED
    BY <1>1, <2>1 DEF Handlers
<1>2. Return(w) => Handlers'
  BY <1>1, EmptyTypes DEF Return, NoCall
<1>3. ASSUME NEW phase \in {"claim", "reclaim", "confirm", "apply"}, NEW c \in Call,
             NEW r \in Requests, c.kind = "apply" => phase = "apply", Enter(w, phase, c, r)
      PROVE  Handlers'
  BY <1>1, <1>3, ReadType DEF Enter
<1> QED
  BY <1>2, <1>3

\* A step that only begins or ends a handler keeps the types.
LEMMA HandlerTypes ==
  ASSUME TypeOK, NEW w \in Workers
  PROVE  /\ UNCHANGED <<clock, tokens, tables>> /\ Return(w) => TypeOK'
         /\ \A phase \in {"claim", "reclaim", "confirm", "apply"}, c \in Call,
              r \in Requests :
              /\ c.kind = "apply" => phase = "apply"
              /\ UNCHANGED <<clock, tokens, tables>> /\ Enter(w, phase, c, r)
              => TypeOK'
<1>1. UNCHANGED <<clock, tokens, tables>> /\ Handlers' => TypeOK'
  BY DEF TypeOK, Handlers, tables
<1> QED
  BY <1>1, HandlersTyped

\* A task that awaits the model keeps the types of the handlers.
LEMMA AwaitTypes ==
  ASSUME TypeOK, NEW w \in Workers, NEW token \in Nat, AwaitModel(w, token)
  PROVE  /\ pc' \in [Workers -> {"idle", "claim", "reclaim", "confirm", "apply",
                                 "model", "finish", "fail"}]
         /\ call' \in [Workers -> Call]
         /\ snap' \in [Workers -> Snapshot]
         /\ \A v \in Workers : v # w => pc'[v] = pc[v] /\ call'[v] = call[v]
         /\ call'[w].kind = call[w].kind
<1>1. [call[w] EXCEPT !.token = token] \in Call
  <2>1. call[w] \in Call
    BY DEF TypeOK
  <2> QED
    BY <2>1 DEF Call
<1>2. [NoSnapshot EXCEPT !.id = snap[w].id, !.now = clock] \in Snapshot
  BY EmptyTypes DEF TypeOK, Snapshot
<1> QED
  BY <1>1, <1>2 DEF TypeOK, AwaitModel, Call

\* Every step of every handler keeps the types.
LEMMA StepType == TypeOK /\ [Next]_vars => TypeOK'
<1> SUFFICES ASSUME TypeOK, [Next]_vars PROVE TypeOK'
  OBVIOUS
<1>1. ASSUME NEW w \in Workers, NEW body \in Bodies, StartCreate(w, body) PROVE TypeOK'
  <2> DEFINE token == tokens + 1
             input == [NoInput EXCEPT !.payload = body]
             op == [kind |-> "start", status |-> "running", token |-> token, base |-> 0,
                    lease |-> clock + Lease, digest |-> input]
             last == [request |-> CreationRequest, kind |-> "start", status |-> "running",
                      token |-> token, base |-> 0, lease |-> clock + Lease]
             row == [NoSession EXCEPT !.id = token, !.status = "active",
                                      !.expires = clock + Retention, !.last = last]
             c == [request |-> CreationRequest, kind |-> "start", token |-> token,
                   input |-> input]
             read == [NoSnapshot EXCEPT !.id = token, !.now = clock]
  <2>1. token \in Nat /\ clock + Lease \in Int /\ clock + Retention \in Int /\ clock \in Int
    BY DEF TypeOK
  <2>2. input \in Input
    BY EmptyTypes DEF Input
  <2>3. op \in Op /\ last \in LastOperation /\ c \in Call
    <3> HIDE DEF token, input
    <3> QED
      BY <2>1, <2>2 DEF Op, LastOperation, Call, Kinds, OpStatus
  <2>4. row \in Session /\ read \in Snapshot
    <3> HIDE DEF token, last
    <3> QED
      BY <2>1, <2>3, EmptyTypes DEF Session, SessionStatus, Snapshot
  <2>5. /\ tokens' = token /\ session' = row
        /\ c.kind # "apply"
        /\ ops' = [ops EXCEPT ![CreationRequest] = op]
        /\ pc' = [pc EXCEPT ![w] = "model"]
        /\ call' = [call EXCEPT ![w] = c]
        /\ snap' = [snap EXCEPT ![w] = read]
        /\ UNCHANGED <<clock, turns, proposals>>
    BY <1>1 DEF StartCreate
  <2> HIDE DEF token, input, op, last, row, c, read
  <2> QED
    BY <2>1, <2>3, <2>4, <2>5 DEF TypeOK
<1>2. ASSUME NEW w \in Workers, NEW r \in Requests, NEW base \in 0 .. session.revision,
             \/ \E question \in 0 .. Len(turns) : AnswerRead(w, r, base, question)
             \/ GenerateRead(w, r, base)
             \/ \E accept, reject \in SUBSET (session.proposed \cup session.confirmed) :
                  ConfirmRead(w, r, base, accept, reject)
             \/ ApplyRead(w, r, base)
             \/ \E payload \in Bodies \cup 0 .. Len(turns) :
                  RetryRead(w, r, [NoInput EXCEPT !.base = base, !.payload = payload])
      PROVE  TypeOK'
  <2>1. base \in Nat /\ Len(turns) \in Nat /\ ops[r] \in Op
    BY DEF TypeOK, Session
  <2>2. session.proposed \cup session.confirmed \subseteq Evidence
    BY DEF TypeOK, Session
  <2>3. \A payload \in Bodies \cup 0 .. Len(turns) :
          [NoInput EXCEPT !.base = base, !.payload = payload] \in Input
    <3> TAKE payload \in Bodies \cup 0 .. Len(turns)
    <3>1. payload \in Nat
      BY <2>1
    <3> QED
      BY <2>1, <3>1, EmptyTypes DEF Input
  <2>4. CASE \E question \in 0 .. Len(turns) : AnswerRead(w, r, base, question)
    <3> PICK question \in 0 .. Len(turns) : AnswerRead(w, r, base, question)
      BY <2>4
    <3> DEFINE c == [request |-> r, kind |-> "answer", token |-> 0,
                     input |-> [NoInput EXCEPT !.base = base, !.payload = question]]
    <3>1. c \in Call /\ c.kind # "apply"
      BY <2>3 DEF Call, Kinds
    <3>2. Enter(w, "claim", c, r) /\ UNCHANGED <<clock, tokens, tables>>
      BY DEF AnswerRead
    <3> HIDE DEF c
    <3> QED
      BY <3>1, <3>2, HandlerTypes
  <2>5. CASE GenerateRead(w, r, base)
    <3> DEFINE c == [request |-> r, kind |-> "proposal", token |-> 0,
                     input |-> [NoInput EXCEPT !.base = base]]
    <3>1. c \in Call /\ c.kind # "apply"
      BY <2>1, EmptyTypes DEF Call, Kinds, Input
    <3>2. Enter(w, "claim", c, r) /\ UNCHANGED <<clock, tokens, tables>>
      BY <2>5 DEF GenerateRead
    <3> HIDE DEF c
    <3> QED
      BY <3>1, <3>2, HandlerTypes
  <2>6. CASE \E accept, reject \in SUBSET (session.proposed \cup session.confirmed) :
               ConfirmRead(w, r, base, accept, reject)
    <3> PICK accept \in SUBSET (session.proposed \cup session.confirmed),
             reject \in SUBSET (session.proposed \cup session.confirmed) :
             ConfirmRead(w, r, base, accept, reject)
      BY <2>6
    <3> DEFINE input == [base |-> base, payload |-> 0, accept |-> accept,
                         reject |-> reject]
               c == [request |-> r, kind |-> "confirmation", token |-> 0,
                     input |-> input]
    <3>1. input \in Input
      BY <2>1, <2>2 DEF Input
    <3>2. Enter(w, "confirm", c, r) /\ UNCHANGED <<clock, tokens, tables>>
      BY DEF ConfirmRead
    <3> HIDE DEF input
    <3>3. c \in Call /\ c.kind # "apply"
      BY <3>1 DEF Call, Kinds
    <3> HIDE DEF c
    <3> QED
      BY <3>3, <3>2, HandlerTypes
  <2>7. CASE ApplyRead(w, r, base)
    <3> DEFINE c == [request |-> r, kind |-> "apply", token |-> 0,
                     input |-> [NoInput EXCEPT !.base = base]]
    <3>1. c \in Call
      BY <2>1, EmptyTypes DEF Call, Kinds, Input
    <3>2. Enter(w, "apply", c, r) /\ UNCHANGED <<clock, tokens, tables>>
      BY <2>7 DEF ApplyRead
    <3> HIDE DEF c
    <3> QED
      BY <3>1, <3>2, HandlerTypes
  <2>8. CASE \E payload \in Bodies \cup 0 .. Len(turns) :
               RetryRead(w, r, [NoInput EXCEPT !.base = base, !.payload = payload])
    <3> PICK payload \in Bodies \cup 0 .. Len(turns) :
             RetryRead(w, r, [NoInput EXCEPT !.base = base, !.payload = payload])
      BY <2>8
    <3> DEFINE input == [NoInput EXCEPT !.base = base, !.payload = payload]
               c == [request |-> r, kind |-> ops[r].kind, token |-> 0, input |-> input]
    <3>1. input \in Input
      BY <2>3
    <3>2. Enter(w, "reclaim", c, r) /\ UNCHANGED <<clock, tokens, tables>>
      BY DEF RetryRead
    <3> HIDE DEF input
    <3>3. c \in Call /\ c.kind # "apply"
      BY <2>1, <3>1 DEF Call, Op, Kinds
    <3> HIDE DEF c
    <3> QED
      BY <3>3, <3>2, HandlerTypes
  <2> QED
    BY <1>2, <2>4, <2>5, <2>6, <2>7, <2>8
<1>3. ASSUME NEW w \in Workers,
             ClaimAnswer(w) \/ ClaimGeneration(w) \/ Reclaim(w)
      PROVE  TypeOK'
  <2> DEFINE token == tokens + 1
  <2>1. token \in Nat /\ call[w].request \in Requests
    BY DEF TypeOK, Call
  <2>2. call[w].kind \in Kinds /\ call[w].kind # "apply"
    BY <1>3 DEF ClaimAnswer, ClaimGeneration, Reclaim, Kinds, TypeOK, Call
  <2>3. UserTurn(w) \in Turn
    BY <2>1 DEF UserTurn, Turn, TypeOK, Call, Snapshot, Input
  <2>4. /\ ClaimedSession(w, token) \in Session
        /\ NewOperation(w, token) \in Op /\ ReclaimedOperation(w, token) \in Op
    BY <2>1, <2>2, ClaimedTypes
  <2>5. /\ session' = ClaimedSession(w, token) /\ tokens' = token
        /\ AwaitModel(w, token)
        /\ UNCHANGED <<clock, proposals>>
        /\ \/ ops' = [ops EXCEPT ![call[w].request] = NewOperation(w, token)]
           \/ ops' = [ops EXCEPT ![call[w].request] = ReclaimedOperation(w, token)]
        /\ turns' = Append(turns, UserTurn(w)) \/ turns' = turns
    BY <1>3 DEF ClaimAnswer, ClaimGeneration, Reclaim
  <2> HIDE DEF token
  <2>6. turns' \in Seq(Turn)
    BY <2>3, <2>5 DEF TypeOK
  <2>7. ops' \in [Requests -> Op] /\ session' \in Session /\ proposals' \in [Requests -> Proposal]
    BY <2>1, <2>4, <2>5 DEF TypeOK
  <2>8. \A v \in Workers : call'[v].kind = "apply" => pc'[v] = "apply"
    BY <2>1, <2>2, <2>5, AwaitTypes DEF TypeOK
  <2> QED
    BY <2>1, <2>5, <2>6, <2>7, <2>8, AwaitTypes DEF TypeOK
<1>4. ASSUME NEW w \in Workers, Confirm(w) PROVE TypeOK'
  <2> DEFINE token == tokens + 1
             left == session.proposed \ Decided(call[w].input)
             row == ClaimedSession(w, token)
             op == NewOperation(w, token)
  <2>1. /\ token \in Nat /\ call[w] \in Call /\ snap[w].now \in Int
        /\ session \in Session /\ call[w].input \in Input
    BY DEF TypeOK, Call, Snapshot
  <2>2. call[w].kind \in Kinds
    BY <1>4, <2>1 DEF Confirm, Kinds, TypeOK, Call
  <2>3. row \in Session /\ op \in Op
    BY <2>1, <2>2, ClaimedTypes
  <2>4. ConfirmedAfter(w) \subseteq Evidence /\ left \subseteq Evidence
    BY <2>1 DEF ConfirmedAfter, Session, Input
  <2>5. session' = [row EXCEPT
          !.confirmed = ConfirmedAfter(w), !.proposed = left,
          !.revision = session.revision + 1,
          !.status = IF left # {} THEN "awaiting-confirmation" ELSE "active",
          !.last.status = "succeeded", !.last.lease = snap[w].now]
    BY <1>4 DEF Confirm
  <2>6. /\ ops' = [ops EXCEPT ![call[w].request] =
                     [op EXCEPT !.status = "succeeded", !.lease = snap[w].now]]
        /\ tokens' = token /\ Return(w) /\ UNCHANGED <<clock, turns, proposals>>
    BY <1>4 DEF Confirm
  <2> HIDE DEF token, left, row, op
  <2>7. session' \in Session
    <3>1. session.revision + 1 \in Nat /\ "succeeded" \in OpStatus
          /\ (IF left # {} THEN "awaiting-confirmation" ELSE "active") \in SessionStatus
      BY <2>1 DEF Session, OpStatus, SessionStatus
    <3> QED
      BY <2>1, <2>3, <2>4, <2>5, <3>1, UpdatedSession
  <2>8. [op EXCEPT !.status = "succeeded", !.lease = snap[w].now] \in Op
    BY <2>1, <2>3 DEF Op, OpStatus
  <2>9. NoCall.kind # "apply"
    BY DEF NoCall
  <2> QED
    BY <2>1, <2>6, <2>7, <2>8, <2>9, EmptyTypes DEF TypeOK, Return
<1>5. ASSUME NEW w \in Workers, Apply(w) PROVE TypeOK'
  <2>1. session' \in Session
    <3>1. session.revision + 1 \in Nat /\ snap[w].now + Retention \in Int
      BY DEF TypeOK, Session, Snapshot
    <3>2. session \in Session /\ session' = [session EXCEPT
            !.revision = session.revision + 1, !.expires = snap[w].now + Retention]
      BY <1>5 DEF Apply, TypeOK
    <3> QED
      BY <3>1, <3>2 DEF Session
  <2>2. proposals' \in [Requests -> Proposal]
    <3>1. proposals' = [proposals EXCEPT ![call[w].request].status = "accepted"]
      BY <1>5 DEF Apply
    <3>2. proposals \in [Requests -> Proposal] /\ call[w].request \in Requests
      BY DEF TypeOK, Call
    <3> QED
      BY <3>1, <3>2, StatusTyped
  <2> QED
    BY <1>5, <2>1, <2>2, HandlersTyped DEF Apply, Handlers, TypeOK
<1>6. ASSUME NEW w \in Workers, ReplyRead(w) \/ ErrorRead(w) PROVE TypeOK'
  <2>1. call[w].request \in Requests
    BY DEF TypeOK, Call
  <2>2. Read(call[w].request) \in Snapshot
    BY <2>1, ReadType
  <2>3. PICK phase \in {"finish", "fail"} :
          /\ pc[w] = "model" /\ pc' = [pc EXCEPT ![w] = phase]
          /\ snap' = [snap EXCEPT ![w] = Read(call[w].request)]
          /\ UNCHANGED <<clock, tokens, session, ops, turns, proposals, call>>
    BY <1>6 DEF ReplyRead, ErrorRead, tables
  <2> QED
    BY <2>2, <2>3 DEF TypeOK
<1>7. ASSUME NEW w \in Workers, NEW slots \in SUBSET Slots, NEW ready \in BOOLEAN,
             NEW scope \in Scopes \cup {NoScope}, FinishReply(w, slots, ready, scope)
      PROVE  TypeOK'
  <2> DEFINE proposed == {call[w].token} \X slots
  <2>1. /\ call[w] \in Call /\ call[w].input.base \in Nat /\ call[w].request \in Requests
        /\ snap[w] \in Snapshot /\ proposed \subseteq Evidence
    BY DEF TypeOK, Call, Input, Evidence
  <2>2. session' \in Session
    <3> DEFINE status == IF proposed # {} THEN "awaiting-confirmation"
                         ELSE IF ready THEN "completed" ELSE "active"
               revision == call[w].input.base + 1
               expires == snap[w].now + Retention
    <3>1. /\ revision \in Nat /\ expires \in Int /\ status \in SessionStatus
          /\ session \in Session /\ "succeeded" \in OpStatus
      BY <2>1 DEF TypeOK, Snapshot, OpStatus, SessionStatus
    <3>2. session' = [session EXCEPT
            !.revision = revision, !.status = status, !.scope = scope,
            !.proposed = proposed, !.last.status = "succeeded", !.expires = expires]
      BY <1>7 DEF FinishReply
    <3> HIDE DEF proposed, status, revision, expires
    <3> QED
      BY <2>1, <3>1, <3>2, UpdatedSession
  <2>3. AssistantTurn(w) \in Turn
    BY <2>1 DEF AssistantTurn, Turn, Snapshot
  <2>4. turns' \in Seq(Turn)
    BY <1>7, <2>3 DEF FinishReply, TypeOK
  <2>5. ops' \in [Requests -> Op]
    <3>1. ops \in [Requests -> Op] /\ "succeeded" \in OpStatus
      BY DEF TypeOK, OpStatus
    <3>2. ops' = [ops EXCEPT ![call[w].request].status = "succeeded"]
      BY <1>7 DEF FinishReply, Succeed
    <3> QED
      BY <2>1, <3>1, <3>2, StatusTyped
  <2>6. Return(w) /\ UNCHANGED <<clock, tokens, proposals>>
    BY <1>7 DEF FinishReply
  <2> QED
    BY <2>2, <2>4, <2>5, <2>6, HandlersTyped DEF Handlers, TypeOK
<1>8. ASSUME NEW w \in Workers, NEW workflow \in Scopes, FinishGeneration(w, workflow)
      PROVE  TypeOK'
  <2>1. /\ call[w] \in Call /\ call[w].input.base \in Nat /\ call[w].request \in Requests
        /\ snap[w] \in Snapshot
    BY DEF TypeOK, Call, Input
  <2>2. session' \in Session
    <3>1. /\ call[w].input.base + 1 \in Nat /\ snap[w].now + Retention \in Int
          /\ session \in Session /\ "succeeded" \in OpStatus
          /\ "completed" \in SessionStatus
      BY <2>1 DEF TypeOK, Snapshot, OpStatus, SessionStatus
    <3>2. session' = [session EXCEPT
            !.revision = call[w].input.base + 1, !.status = "completed",
            !.last.status = "succeeded", !.expires = snap[w].now + Retention]
      BY <1>8 DEF FinishGeneration
    <3> QED
      BY <3>1, <3>2 DEF Session, LastOperation
  <2>3. [status |-> "draft", revision |-> call[w].input.base + 1,
         facts |-> snap[w].confirmed, workflow |-> workflow] \in Proposal
    BY <2>1 DEF Proposal, Snapshot
  <2>4. proposals' \in [Requests -> Proposal]
    BY <1>8, <2>1, <2>3 DEF FinishGeneration, TypeOK
  <2>5. ops' \in [Requests -> Op]
    <3>1. ops \in [Requests -> Op] /\ "succeeded" \in OpStatus
      BY DEF TypeOK, OpStatus
    <3>2. ops' = [ops EXCEPT ![call[w].request].status = "succeeded"]
      BY <1>8 DEF FinishGeneration, Succeed
    <3> QED
      BY <2>1, <3>1, <3>2, StatusTyped
  <2>6. Return(w) /\ UNCHANGED <<clock, tokens, turns>>
    BY <1>8 DEF FinishGeneration
  <2> QED
    BY <2>2, <2>4, <2>5, <2>6, HandlersTyped DEF Handlers, TypeOK
<1>9. ASSUME NEW w \in Workers, RecordFailure(w) PROVE TypeOK'
  <2>1. session' \in Session
    BY <1>9 DEF RecordFailure, TypeOK, Session, LastOperation, OpStatus
  <2>2. ops' \in [Requests -> Op]
    <3>1. /\ ops \in [Requests -> Op] /\ "failed" \in OpStatus
          /\ call[w].request \in Requests
      BY DEF TypeOK, OpStatus, Call
    <3>2. ops' = [ops EXCEPT ![call[w].request].status = "failed"]
      BY <1>9 DEF RecordFailure
    <3> QED
      BY <3>1, <3>2, StatusTyped
  <2> QED
    BY <1>9, <2>1, <2>2, HandlersTyped DEF RecordFailure, Handlers, TypeOK
<1>10. ASSUME NEW w \in Workers, Refused(w) \/ Crash(w) PROVE TypeOK'
  BY <1>10, HandlerTypes DEF Refused, Crash
<1>11. CASE Delete \/ Cleanup
  <2>1. RemoveRows
    BY <1>11 DEF Delete, Cleanup
  <2>2. <<>> \in Seq(Turn)
    OBVIOUS
  <2> QED
    BY <2>1, <2>2, EmptyTypes DEF RemoveRows, TypeOK
<1>12. CASE Tick
  BY <1>12 DEF Tick, TypeOK, tables
<1>13. CASE UNCHANGED vars
  BY <1>13 DEF vars, tables, TypeOK
<1>14. ASSUME NEW w \in Workers, Receive(w) PROVE TypeOK'
  BY <1>14, <1>1, <1>2 DEF Receive
<1>15. ASSUME NEW w \in Workers, Proceed(w) PROVE TypeOK'
  BY <1>15, <1>3, <1>4, <1>5, <1>6, <1>7, <1>8, <1>9, <1>10 DEF Proceed
<1> QED
  BY <1>10, <1>11, <1>12, <1>13, <1>14, <1>15 DEF Next

\* Types: whatever the interleaving, every row and every handler keeps its type.
THEOREM TypeCorrect == Spec => []TypeOK
  BY InitType, StepType, PTL DEF Spec

-----------------------------------------------------------------------------
(* Ownership *)

\* An empty table and idle tasks satisfy the invariant.
LEMMA InitOwnership == Init => OwnershipInv
<1> SUFFICES ASSUME Init PROVE OwnershipInv
  OBVIOUS
<1>1. TypeOK
  BY InitType
<1>2. /\ OwnerAgrees /\ DeletedStaysDeleted /\ TurnLimit /\ TurnSequence
  BY DEF Init, OwnerAgrees, DeletedStaysDeleted, TurnLimit, TurnSequence, NoSession
<1>3. /\ TokensFresh /\ RevisionsReached /\ ReadsHold /\ OwnersRun
  BY DEF Init, TokensFresh, RevisionsReached, ReadsHold, OwnersRun, Attached, Reading,
         Owning, NoSession, NoLast, NoOp, NoInput
<1>4. CountsHold
  BY DEF Init, CountsHold, Attached, NoSession, NoOp
<1> QED
  BY <1>1, <1>2, <1>3, <1>4 DEF OwnershipInv

\* A transaction that opens records what is stored, and that is then what it read.
LEMMA ReadStep ==
  ASSUME OwnershipInv, TypeOK', UNCHANGED <<clock, tokens, tables>>,
         NEW w \in Workers, NEW r \in Requests, NEW c \in Call,
         NEW phase \in Reading,
         Enter(w, phase, c, r),
         session.id # 0, c.request = r, c.token = 0, c.input.base <= session.revision,
         phase \in {"claim", "confirm"} => ops[r].status = "none",
         phase = "reclaim" => /\ ops[r].status # "succeeded"
                              /\ ops[r].kind = c.kind /\ ops[r].base = c.input.base,
         phase = "claim" /\ c.kind = "answer" => RoomForAnswer
  PROVE  OwnershipInv'
<1>1. /\ pc[w] = "idle" /\ pc' = [pc EXCEPT ![w] = phase]
      /\ call' = [call EXCEPT ![w] = c] /\ snap' = [snap EXCEPT ![w] = Read(r)]
      /\ UNCHANGED <<clock, tokens, session, ops, turns, proposals>>
  BY DEF Enter, tables
<1>2. TypeOK /\ Read(r) \in Snapshot /\ session \in Session
  BY ReadType DEF OwnershipInv, TypeOK
<1>3. /\ Read(r).id = session.id /\ Read(r).last = session.last /\ Read(r).op = ops[r]
      /\ Read(r).count = Len(turns)
  BY DEF Read
<1>4. session.id \in Nat /\ session.last.token \in Nat /\ tokens \in Nat
  BY <1>2 DEF TypeOK, Session, LastOperation
<1>5. (OwnerAgrees /\ DeletedStaysDeleted /\ TurnLimit /\ TurnSequence)'
  BY <1>1 DEF OwnershipInv, OwnerAgrees, DeletedStaysDeleted, TurnLimit, TurnSequence
<1>6. TokensFresh'
  BY <1>1, <1>2, <1>3, <1>4 DEF OwnershipInv, TokensFresh, Reading, Owning, TypeOK
<1>7. RevisionsReached'
  BY <1>1, <1>2, <1>3 DEF OwnershipInv, RevisionsReached, Attached, TypeOK
<1>8. ReadsHold'
  BY <1>1, <1>2, <1>3 DEF OwnershipInv, ReadsHold, Attached, TypeOK
<1>9. OwnersRun'
  BY <1>1, <1>2, <1>3 DEF OwnershipInv, OwnersRun, Attached, TypeOK, Reading, Owning
<1>10. CountsHold'
  BY <1>1, <1>2, <1>3 DEF OwnershipInv, CountsHold, Attached, TypeOK, Reading,
                          RoomForAnswer
<1> QED
  BY <1>5, <1>6, <1>7, <1>8, <1>9, <1>10 DEF OwnershipInv

\* A handler that ends leaves every promise to the others.
LEMMA ReturnStep ==
  ASSUME OwnershipInv, TypeOK', UNCHANGED <<clock, tokens, tables>>,
         NEW w \in Workers, Return(w)
  PROVE  OwnershipInv'
<1>1. /\ pc' = [pc EXCEPT ![w] = "idle"]
      /\ call' = [call EXCEPT ![w] = NoCall] /\ snap' = [snap EXCEPT ![w] = NoSnapshot]
      /\ UNCHANGED <<clock, tokens, session, ops, turns, proposals>>
  BY DEF Return, tables
<1>2. TypeOK
  BY DEF OwnershipInv
<1>3. (OwnerAgrees /\ DeletedStaysDeleted /\ TurnLimit /\ TurnSequence)'
  BY <1>1 DEF OwnershipInv, OwnerAgrees, DeletedStaysDeleted, TurnLimit, TurnSequence
<1>4. TokensFresh'
  BY <1>1, <1>2 DEF OwnershipInv, TokensFresh, Owning, TypeOK
<1>5. RevisionsReached' /\ ReadsHold' /\ OwnersRun'
  BY <1>1, <1>2 DEF OwnershipInv, RevisionsReached, ReadsHold, OwnersRun, Attached,
                    TypeOK, Reading, Owning
<1>6. CountsHold'
  BY <1>1, <1>2 DEF OwnershipInv, CountsHold, Attached, TypeOK
<1> QED
  BY <1>3, <1>4, <1>5, <1>6 DEF OwnershipInv

\* What a claim leaves in the session's row.
LEMMA ClaimedFields ==
  ASSUME TypeOK, NEW w \in Workers, NEW token \in Nat
  PROVE  /\ ClaimedSession(w, token).id = session.id
         /\ ClaimedSession(w, token).revision = session.revision
         /\ ClaimedSession(w, token).confirmed = session.confirmed
         /\ ClaimedSession(w, token).last =
              [request |-> call[w].request, kind |-> call[w].kind, status |-> "running",
               token |-> token, base |-> call[w].input.base, lease |-> snap[w].now + Lease]
  BY DEF TypeOK, Session, ClaimedSession

\* The old owners of a session whose token is replaced by a fresh one can no longer
\* write, and the task that replaced it can.
LEMMA TakeOver ==
  ASSUME OwnershipInv, TypeOK', NEW w \in Workers,
         pc[w] \in Reading, Attached(w),
         session'.id = session.id, session'.revision = session.revision,
         call[w].input.base = session.revision,
         tokens' = tokens + 1, AwaitModel(w, tokens + 1),
         session'.last.token = tokens + 1, session'.last.status = "running",
         session'.last.request = call[w].request, session'.last.kind = call[w].kind,
         session'.last.base = call[w].input.base
  PROVE  /\ TokensFresh' /\ ReadsHold' /\ OwnersRun'
         /\ \A v \in Workers : Attached(v)' => call'[v].input.base <= session'.revision
         /\ pc'[w] = "model"
         /\ \A v \in Workers \ {w} :
              pc'[v] # "idle" => session'.last.token \notin {snap'[v].last.token, call'[v].token}
<1>1. /\ pc' = [pc EXCEPT ![w] = "model"]
      /\ call' = [call EXCEPT ![w].token = tokens + 1]
      /\ snap' = [snap EXCEPT ![w] = [NoSnapshot EXCEPT !.id = snap[w].id, !.now = clock]]
  BY DEF AwaitModel
<1>2. TypeOK /\ tokens \in Nat /\ session.id \in Nat /\ session.last.token \in Nat
  BY DEF OwnershipInv, TypeOK, Session, LastOperation
<1>3. /\ snap'[w].id = session.id /\ snap'[w].last = NoLast
      /\ call'[w].token = tokens + 1 /\ call'[w].request = call[w].request
      /\ call'[w].kind = call[w].kind /\ call'[w].input = call[w].input
      /\ pc'[w] = "model"
  BY <1>1, <1>2, EmptyTypes DEF TypeOK, Snapshot, Call, Attached, NoSnapshot
<1>4. \A v \in Workers : v # w => pc'[v] = pc[v] /\ call'[v] = call[v] /\ snap'[v] = snap[v]
  BY <1>1, <1>2 DEF TypeOK
<1>5. \A v \in Workers : pc[v] # "idle" =>
        /\ snap[v].id \in 1 .. tokens /\ snap[v].last.token <= tokens
        /\ call[v].token <= tokens /\ call[v].token \in Nat /\ snap[v].last.token \in Nat
  BY <1>2 DEF OwnershipInv, TokensFresh, TypeOK, Call, Snapshot, LastOperation
<1>6. TokensFresh'
  <2>1. session'.id <= tokens' /\ session'.last.token <= tokens'
    BY <1>2 DEF OwnershipInv, TokensFresh
  <2>2. ASSUME NEW v \in Workers, pc'[v] # "idle"
        PROVE  /\ snap'[v].id \in 1 .. tokens' /\ snap'[v].last.token <= tokens'
               /\ call'[v].token <= tokens'
    <3>1. CASE v = w
      <4>1. pc[w] # "idle" /\ session.id = snap[w].id /\ NoLast.token = 0
        BY DEF Attached, NoLast
      <4> QED
        BY <3>1, <1>2, <1>3, <1>5, <4>1
    <3>2. CASE v # w
      BY <3>2, <1>2, <1>4, <1>5, <2>2
    <3> QED
      BY <3>1, <3>2
  <2>3. ASSUME NEW u \in Workers, NEW v \in Workers, u # v,
               pc'[u] \in Owning, pc'[v] \in Owning
        PROVE  call'[u].token # call'[v].token
    BY <2>3, <1>2, <1>3, <1>4, <1>5 DEF OwnershipInv, TokensFresh, Owning
  <2> QED
    BY <2>1, <2>2, <2>3 DEF TokensFresh
<1>7. \A v \in Workers \ {w} :
        pc'[v] # "idle" => session'.last.token \notin {snap'[v].last.token, call'[v].token}
  BY <1>2, <1>4, <1>5
<1>8. ReadsHold'
  BY <1>1, <1>2, <1>3, <1>4, <1>7 DEF OwnershipInv, ReadsHold, Attached, Reading
<1>9. OwnersRun'
  BY <1>3, <1>7 DEF OwnersRun, Attached
<1>10. \A v \in Workers : Attached(v)' => call'[v].input.base <= session'.revision
  BY <1>3, <1>4 DEF OwnershipInv, RevisionsReached, Attached, TypeOK, Session
<1> QED
  BY <1>3, <1>6, <1>7, <1>8, <1>9, <1>10

\* A turn whose sequence number continues the stored ones keeps the limit and order.
LEMMA AppendedTurn ==
  ASSUME OwnershipInv, NEW t \in Turn, turns' = Append(turns, t),
         t.seq = Len(turns) + 1, Len(turns) + 1 <= MaxTurns
  PROVE  Len(turns') = Len(turns) + 1 /\ Len(turns) \in Nat /\ TurnLimit' /\ TurnSequence'
<1>1. turns \in Seq(Turn)
  BY DEF OwnershipInv, TypeOK
<1>2. /\ Len(turns') = Len(turns) + 1 /\ Len(turns) \in Nat
      /\ \A i \in 1 .. Len(turns) : turns'[i] = turns[i]
      /\ turns'[Len(turns) + 1] = t
  BY <1>1
<1> QED
  BY <1>2 DEF OwnershipInv, TurnLimit, TurnSequence

\* A new operation takes the session over; an answer also stores its turn.
LEMMA ClaimStep ==
  ASSUME OwnershipInv, TypeOK', NEW w \in Workers, ClaimAnswer(w) \/ ClaimGeneration(w)
  PROVE  OwnershipInv'
<1> DEFINE op == NewOperation(w, tokens + 1)
           r == call[w].request
<1>1. TypeOK /\ tokens + 1 \in Nat
  BY DEF OwnershipInv, TypeOK
<1>2. /\ pc[w] = "claim" /\ ClaimHolds(w)
      /\ tokens' = tokens + 1 /\ session' = ClaimedSession(w, tokens + 1)
      /\ ops' = [ops EXCEPT ![r] = op]
      /\ AwaitModel(w, tokens + 1)
      /\ UNCHANGED <<clock, proposals>>
      /\ \/ turns' = turns /\ call[w].kind = "proposal"
         \/ turns' = Append(turns, UserTurn(w)) /\ call[w].kind = "answer"
  BY DEF ClaimAnswer, ClaimGeneration
<1>3. /\ session'.id = session.id /\ session'.revision = session.revision
      /\ session'.last.token = tokens + 1 /\ session'.last.status = "running"
      /\ session'.last.request = r /\ session'.last.kind = call[w].kind
      /\ session'.last.base = call[w].input.base
      /\ session'.last.lease = snap[w].now + Lease
  <2>1. /\ session'.id = session.id /\ session'.revision = session.revision
        /\ session'.last =
             [request |-> call[w].request, kind |-> call[w].kind, status |-> "running",
              token |-> tokens + 1, base |-> call[w].input.base,
              lease |-> snap[w].now + Lease]
    BY <1>1, <1>2, ClaimedFields
  <2> QED
    BY <2>1
<1>4. /\ Attached(w) /\ call[w].input.base = session.revision
      /\ session.last = snap[w].last /\ pc[w] \in Reading
  BY <1>2 DEF ClaimHolds, Attached, Reading
<1>5. /\ r \in Requests /\ ops \in [Requests -> Op] /\ call[w] \in Call
      /\ session.id \in Nat /\ turns \in Seq(Turn) /\ session.revision \in Nat
      /\ session.last.token \in Nat
  BY <1>1 DEF TypeOK, Call, Session, LastOperation
<1>6. session.id # 0
  BY <1>4 DEF OwnershipInv, TokensFresh, Attached
<1>7. /\ TokensFresh' /\ ReadsHold' /\ OwnersRun'
      /\ \A v \in Workers : Attached(v)' => call'[v].input.base <= session'.revision
      /\ pc'[w] = "model"
      /\ \A v \in Workers \ {w} :
           pc'[v] # "idle" => session'.last.token \notin {snap'[v].last.token, call'[v].token}
  BY <1>2, <1>3, <1>4, TakeOver
<1>8. op.kind = call[w].kind /\ op.status = "running" /\ op.token = tokens + 1
      /\ op.base = call[w].input.base /\ op.lease = snap[w].now + Lease
      /\ op.digest = call[w].input
  BY DEF NewOperation
<1> HIDE DEF op, r
<1>9. OwnerAgrees' /\ DeletedStaysDeleted'
  BY <1>2, <1>3, <1>5, <1>6, <1>8 DEF OwnerAgrees, DeletedStaysDeleted
<1>10. RevisionsReached'
  BY <1>2, <1>3, <1>4, <1>5, <1>7, <1>8 DEF OwnershipInv, RevisionsReached
<1>11. call[w].kind = "answer" => snap[w].count = Len(turns) /\ Len(turns) + 2 <= MaxTurns
  BY <1>2, <1>4 DEF OwnershipInv, CountsHold
<1>12. /\ UserTurn(w) \in Turn /\ UserTurn(w).seq = snap[w].count + 1
       /\ Len(turns) \in Nat
  <2>1. call[w].request \in Requests /\ call[w].input.payload \in Nat
    BY <1>5 DEF Call, Input
  <2>2. snap[w].count \in Nat
    BY <1>1 DEF TypeOK, Snapshot
  <2>3. UserTurn(w) \in Turn /\ UserTurn(w).seq = snap[w].count + 1
    BY <2>1, <2>2 DEF UserTurn, Turn
  <2> QED
    BY <1>5, <2>3
<1>13. TurnLimit' /\ TurnSequence'
  <2>1. CASE turns' = turns
    BY <2>1 DEF OwnershipInv, TurnLimit, TurnSequence
  <2>2. CASE turns' = Append(turns, UserTurn(w)) /\ call[w].kind = "answer"
    BY <2>2, <1>11, <1>12, AppendedTurn
  <2> QED
    BY <1>2, <2>1, <2>2
<1>14. CountsHold'
  <2>3. ASSUME NEW s \in Requests, ops'[s].kind \in {"start", "answer"},
               ops'[s].status # "succeeded", ops'[s].base = session'.revision
        PROVE  Len(turns') + 1 <= MaxTurns
    <3>1. CASE call[w].kind = "answer"
      <4>1. Len(turns') = Len(turns) + 1 /\ Len(turns) \in Nat
        BY <1>2, <1>5, <3>1
      <4> QED
        BY <4>1, <3>1, <1>11
    <3>2. CASE call[w].kind # "answer"
      <4>1. turns' = turns /\ s # r
        BY <1>2, <1>5, <1>8, <2>3, <3>2
      <4> QED
        BY <4>1, <1>2, <1>3, <1>5, <2>3 DEF OwnershipInv, CountsHold
    <3> QED
      BY <3>1, <3>2
  <2> QED
    BY <1>7, <2>3 DEF CountsHold, Attached
<1> QED
  BY <1>7, <1>9, <1>10, <1>13, <1>14 DEF OwnershipInv

\* A retry takes the session and its operation over together.
LEMMA ReclaimStep ==
  ASSUME OwnershipInv, TypeOK', NEW w \in Workers, Reclaim(w)
  PROVE  OwnershipInv'
<1> DEFINE op == ReclaimedOperation(w, tokens + 1)
           r == call[w].request
<1>1. TypeOK /\ tokens + 1 \in Nat
  BY DEF OwnershipInv, TypeOK
<1>2. /\ pc[w] = "reclaim" /\ ClaimHolds(w)
      /\ tokens' = tokens + 1 /\ session' = ClaimedSession(w, tokens + 1)
      /\ ops' = [ops EXCEPT ![r] = op]
      /\ AwaitModel(w, tokens + 1)
      /\ UNCHANGED <<clock, turns, proposals>>
  BY DEF Reclaim
<1>3. /\ session'.id = session.id /\ session'.revision = session.revision
      /\ session'.last.token = tokens + 1 /\ session'.last.status = "running"
      /\ session'.last.request = r /\ session'.last.kind = call[w].kind
      /\ session'.last.base = call[w].input.base
      /\ session'.last.lease = snap[w].now + Lease
  <2>1. /\ session'.id = session.id /\ session'.revision = session.revision
        /\ session'.last =
             [request |-> call[w].request, kind |-> call[w].kind, status |-> "running",
              token |-> tokens + 1, base |-> call[w].input.base,
              lease |-> snap[w].now + Lease]
    BY <1>1, <1>2, ClaimedFields
  <2> QED
    BY <2>1
<1>4. /\ Attached(w) /\ call[w].input.base = session.revision
      /\ session.last = snap[w].last /\ pc[w] \in Reading
  BY <1>2 DEF ClaimHolds, Attached, Reading
<1>5. /\ r \in Requests /\ ops \in [Requests -> Op] /\ session.id \in Nat
      /\ session.revision \in Nat
  BY <1>1 DEF TypeOK, Call, Session
<1>6. session.id # 0
  BY <1>4 DEF OwnershipInv, TokensFresh, Attached
<1>7. /\ TokensFresh' /\ ReadsHold' /\ OwnersRun'
      /\ \A v \in Workers : Attached(v)' => call'[v].input.base <= session'.revision
      /\ pc'[w] = "model"
      /\ \A v \in Workers \ {w} :
           pc'[v] # "idle" => session'.last.token \notin {snap'[v].last.token, call'[v].token}
  BY <1>2, <1>3, <1>4, TakeOver
<1>8. /\ ops[r] = snap[w].op /\ ops[r].kind = call[w].kind
      /\ ops[r].base = call[w].input.base /\ ops[r].status # "succeeded"
  BY <1>2, <1>4 DEF OwnershipInv, ReadsHold
<1>9. /\ op.kind = ops[r].kind /\ op.status = "running" /\ op.token = tokens + 1
      /\ op.base = ops[r].base /\ op.lease = snap[w].now + Lease
      /\ op.digest = ops[r].digest
  BY <1>5 DEF ReclaimedOperation, Op
<1> HIDE DEF op, r
<1>10. OwnerAgrees' /\ DeletedStaysDeleted' /\ TurnLimit' /\ TurnSequence'
  BY <1>2, <1>3, <1>5, <1>6, <1>8, <1>9
     DEF OwnershipInv, OwnerAgrees, DeletedStaysDeleted, TurnLimit, TurnSequence
<1>11. RevisionsReached'
  BY <1>2, <1>3, <1>5, <1>7, <1>9 DEF OwnershipInv, RevisionsReached
<1>12. CountsHold'
  <2>1. ASSUME NEW s \in Requests, ops'[s].kind \in {"start", "answer"},
               ops'[s].status # "succeeded", ops'[s].base = session'.revision
        PROVE  Len(turns') + 1 <= MaxTurns
    BY <2>1, <1>2, <1>3, <1>5, <1>8, <1>9 DEF OwnershipInv, CountsHold
  <2> QED
    BY <1>7, <2>1 DEF CountsHold, Attached
<1> QED
  BY <1>7, <1>10, <1>11, <1>12 DEF OwnershipInv

\* The owner of the running operation ends it, in the session and in its row.
LEMMA OwnerEnds ==
  ASSUME OwnershipInv, TypeOK', NEW w \in Workers, NEW status \in {"succeeded", "failed"},
         pc[w] \in Owning, Attached(w), session.last.token = call[w].token,
         session'.id = session.id, session'.revision >= session.revision,
         session'.last = [session.last EXCEPT !.status = status],
         ops' = [ops EXCEPT ![call[w].request].status = status],
         tokens' = tokens, Return(w)
  PROVE  /\ OwnerAgrees' /\ DeletedStaysDeleted' /\ TokensFresh' /\ RevisionsReached'
         /\ ReadsHold' /\ OwnersRun'
<1> DEFINE r == call[w].request
<1>1. /\ pc' = [pc EXCEPT ![w] = "idle"]
      /\ call' = [call EXCEPT ![w] = NoCall] /\ snap' = [snap EXCEPT ![w] = NoSnapshot]
  BY DEF Return
<1>2. /\ TypeOK /\ r \in Requests /\ ops \in [Requests -> Op]
      /\ session.last \in LastOperation /\ session'.last \in LastOperation
      /\ session.revision \in Nat /\ session'.revision \in Nat
  BY DEF OwnershipInv, TypeOK, Call, Session
<1>3. /\ session.last.status = "running" /\ session.last.request = r
  BY DEF OwnershipInv, OwnersRun
<1>4. /\ session'.last.token = session.last.token
      /\ session'.last.request = session.last.request
      /\ session'.last.kind = session.last.kind /\ session'.last.base = session.last.base
      /\ session'.last.lease = session.last.lease /\ session'.last.status = status
  BY <1>2 DEF LastOperation
<1>5. session.id # 0 /\ session.id = snap[w].id
  BY <1>2 DEF OwnershipInv, TokensFresh, Attached, Owning
<1>6. /\ ops'[r] = [ops[r] EXCEPT !.status = status]
      /\ \A s \in Requests \ {r} : ops'[s] = ops[s]
  BY <1>2
<1>7. /\ ops'[r].kind = ops[r].kind /\ ops'[r].token = ops[r].token
      /\ ops'[r].base = ops[r].base /\ ops'[r].lease = ops[r].lease
      /\ ops'[r].digest = ops[r].digest /\ ops'[r].status = status
  BY <1>2, <1>6 DEF Op
<1> HIDE DEF r
<1>8. OwnerAgrees' /\ DeletedStaysDeleted'
  BY <1>3, <1>4, <1>5, <1>7 DEF OwnershipInv, OwnerAgrees, DeletedStaysDeleted
<1>9. TokensFresh'
  <2>1. \A v \in Workers : pc'[v] # "idle" =>
          v # w /\ pc'[v] = pc[v] /\ call'[v] = call[v] /\ snap'[v] = snap[v]
    BY <1>1, <1>2 DEF TypeOK
  <2>2. TokensFresh /\ session'.id = session.id /\ tokens' = tokens
    BY DEF OwnershipInv
  <2> QED
    BY <1>4, <2>1, <2>2 DEF TokensFresh, Owning
<1>10. RevisionsReached'
  <2>1. \A s \in Requests : ops'[s].base <= session'.revision
                            /\ ops'[s].digest.base = ops'[s].base
    BY <1>2, <1>6, <1>7 DEF OwnershipInv, RevisionsReached, Op
  <2>2. ASSUME NEW v \in Workers, Attached(v)'
        PROVE  call'[v].input.base <= session'.revision
    <3>1. v # w /\ call'[v] = call[v] /\ Attached(v)
      BY <1>1, <1>2, <2>2 DEF TypeOK, Attached
    <3>2. call[v].input.base \in Nat
      BY <1>2 DEF TypeOK, Call, Input
    <3> QED
      BY <3>1, <3>2, <1>2 DEF OwnershipInv, RevisionsReached
  <2> QED
    BY <2>1, <2>2 DEF RevisionsReached
<1>11. ReadsHold'
  <2>1. ASSUME NEW v \in Workers, Attached(v)', pc'[v] \in Reading,
               session'.last.token = snap'[v].last.token
        PROVE  snap'[v].last.status = "running" /\ session'.last.status # "running"
    <3>1. v # w
      BY <2>1, <1>1, <1>2 DEF Reading, TypeOK
    <3>2. pc'[v] = pc[v] /\ snap'[v] = snap[v] /\ Attached(v)
      BY <3>1, <2>1, <1>1, <1>2 DEF TypeOK, Attached
    <3> QED
      BY <2>1, <3>2, <1>3, <1>4 DEF OwnershipInv, ReadsHold
  <2> QED
    BY <2>1, <1>1, <1>2 DEF OwnershipInv, ReadsHold, TypeOK
<1>12. OwnersRun'
  <2>1. ASSUME NEW v \in Workers, pc'[v] \in Owning, call'[v].token = session'.last.token
        PROVE  FALSE
    <3>1. v # w /\ pc'[v] = pc[v] /\ call'[v] = call[v]
      BY <2>1, <1>1, <1>2 DEF Owning, TypeOK
    <3> QED
      BY <2>1, <3>1, <1>4 DEF OwnershipInv, TokensFresh
  <2> QED
    BY <2>1 DEF OwnersRun
<1> QED
  BY <1>8, <1>9, <1>10, <1>11, <1>12

\* Once the revision moves on, nobody who worked on the old one relies on a count.
LEMMA PastRevision ==
  ASSUME OwnershipInv, TypeOK', NEW w \in Workers, Return(w), session'.id = session.id,
         session'.revision = session.revision + 1,
         \A r \in Requests : ops'[r].base <= session.revision
  PROVE  CountsHold'
<1>1. TypeOK /\ session.revision \in Nat /\ ops' \in [Requests -> Op]
  BY DEF OwnershipInv, TypeOK, Session
<1>2. ASSUME NEW v \in Workers, Attached(v)' PROVE session'.revision # call'[v].input.base
  <2>1. v # w /\ call'[v] = call[v] /\ Attached(v)
    BY <1>1, <1>2 DEF Return, TypeOK, Attached
  <2>2. call[v].input.base \in Nat
    BY <1>1 DEF TypeOK, Call, Input
  <2> QED
    BY <2>1, <2>2, <1>1 DEF OwnershipInv, RevisionsReached
<1>3. ASSUME NEW r \in Requests PROVE ops'[r].base # session'.revision
  BY <1>1 DEF Op
<1> QED
  BY <1>2, <1>3 DEF CountsHold

\* An answer's or a creation's reply is the turn its operation kept room for.
LEMMA FinishReplyStep ==
  ASSUME OwnershipInv, TypeOK', NEW w \in Workers, NEW slots \in SUBSET Slots,
         NEW ready \in BOOLEAN, NEW scope \in Scopes \cup {NoScope},
         FinishReply(w, slots, ready, scope)
  PROVE  OwnershipInv'
<1>1. /\ pc[w] = "finish" /\ call[w].kind \in {"start", "answer"} /\ FinishHolds(w)
      /\ session' = [session EXCEPT
          !.revision = call[w].input.base + 1,
          !.status = IF {call[w].token} \X slots # {} THEN "awaiting-confirmation"
                     ELSE IF ready THEN "completed" ELSE "active",
          !.scope = scope, !.proposed = {call[w].token} \X slots,
          !.last.status = "succeeded", !.expires = snap[w].now + Retention]
      /\ turns' = Append(turns, AssistantTurn(w))
      /\ ops' = [ops EXCEPT ![call[w].request].status = "succeeded"]
      /\ Return(w) /\ UNCHANGED <<clock, tokens, proposals>>
  BY DEF FinishReply, Succeed
<1>2. /\ TypeOK /\ session \in Session /\ call[w] \in Call /\ snap[w].count \in Nat
      /\ session.revision \in Nat /\ ops \in [Requests -> Op]
      /\ call[w].request \in Requests
  BY DEF OwnershipInv, TypeOK, Session, Snapshot, Call
<1>3. /\ Attached(w) /\ session.revision = call[w].input.base
      /\ session.last.token = call[w].token
  BY <1>1 DEF FinishHolds, Attached
<1>4. /\ session'.id = session.id /\ session'.revision = session.revision + 1
      /\ session'.last = [session.last EXCEPT !.status = "succeeded"]
  BY <1>1, <1>2, <1>3 DEF Session
<1>5. /\ OwnerAgrees' /\ DeletedStaysDeleted' /\ TokensFresh' /\ RevisionsReached'
      /\ ReadsHold' /\ OwnersRun'
  <2>1. /\ pc[w] \in Owning /\ session'.revision >= session.revision
        /\ "succeeded" \in {"succeeded", "failed"} /\ tokens' = tokens
    BY <1>1, <1>2, <1>4 DEF Owning
  <2> QED
    BY <1>1, <1>3, <1>4, <2>1, OwnerEnds
<1>6. snap[w].count = Len(turns) /\ Len(turns) + 1 <= MaxTurns
  <2>1. /\ session.last.status = "running" /\ session.last.request = call[w].request
        /\ session.last.kind = call[w].kind /\ session.last.base = session.revision
        /\ session.id # 0
    BY <1>1, <1>3 DEF OwnershipInv, OwnersRun, Owning, TokensFresh, Attached
  <2> QED
    BY <2>1, <1>1, <1>2, <1>3 DEF OwnershipInv, CountsHold, OwnerAgrees
<1>7. AssistantTurn(w) \in Turn /\ AssistantTurn(w).seq = snap[w].count + 1
  BY <1>2 DEF AssistantTurn, Turn, Call
<1>8. TurnLimit' /\ TurnSequence'
  BY <1>1, <1>6, <1>7, AppendedTurn
<1>9. \A r \in Requests : ops'[r].base <= session.revision
  <2> TAKE r \in Requests
  <2>1. ops'[r].base = ops[r].base
    BY <1>1, <1>2 DEF Op
  <2> QED
    BY <2>1 DEF OwnershipInv, RevisionsReached
<1>10. CountsHold'
  BY <1>1, <1>4, <1>9, PastRevision
<1> QED
  BY <1>5, <1>8, <1>10 DEF OwnershipInv

\* A generated proposal ends its operation and stores no turn.
LEMMA FinishGenerationStep ==
  ASSUME OwnershipInv, TypeOK', NEW w \in Workers, NEW workflow \in Scopes,
         FinishGeneration(w, workflow)
  PROVE  OwnershipInv'
<1>1. /\ pc[w] = "finish" /\ FinishHolds(w)
      /\ session' = [session EXCEPT
          !.revision = call[w].input.base + 1, !.status = "completed",
          !.last.status = "succeeded", !.expires = snap[w].now + Retention]
      /\ ops' = [ops EXCEPT ![call[w].request].status = "succeeded"]
      /\ Return(w) /\ UNCHANGED <<clock, tokens, turns>>
  BY DEF FinishGeneration, Succeed
<1>2. /\ TypeOK /\ session \in Session /\ session.revision \in Nat
      /\ ops \in [Requests -> Op] /\ call[w].request \in Requests
  BY DEF OwnershipInv, TypeOK, Session, Call
<1>3. /\ Attached(w) /\ session.revision = call[w].input.base
      /\ session.last.token = call[w].token
  BY <1>1 DEF FinishHolds, Attached
<1>4. /\ session'.id = session.id /\ session'.revision = session.revision + 1
      /\ session'.last = [session.last EXCEPT !.status = "succeeded"]
  BY <1>1, <1>2, <1>3 DEF Session
<1>5. /\ OwnerAgrees' /\ DeletedStaysDeleted' /\ TokensFresh' /\ RevisionsReached'
      /\ ReadsHold' /\ OwnersRun'
  <2>1. /\ pc[w] \in Owning /\ session'.revision >= session.revision
        /\ "succeeded" \in {"succeeded", "failed"} /\ tokens' = tokens
    BY <1>1, <1>2, <1>4 DEF Owning
  <2> QED
    BY <1>1, <1>3, <1>4, <2>1, OwnerEnds
<1>6. TurnLimit' /\ TurnSequence'
  BY <1>1 DEF OwnershipInv, TurnLimit, TurnSequence
<1>7. \A r \in Requests : ops'[r].base <= session.revision
  <2> TAKE r \in Requests
  <2>1. ops'[r].base = ops[r].base
    BY <1>1, <1>2 DEF Op
  <2> QED
    BY <2>1 DEF OwnershipInv, RevisionsReached
<1>8. CountsHold'
  BY <1>1, <1>4, <1>7, PastRevision
<1> QED
  BY <1>5, <1>6, <1>8 DEF OwnershipInv

\* A recorded failure ends the operation and keeps the revision and the turns.
LEMMA FailureStep ==
  ASSUME OwnershipInv, TypeOK', NEW w \in Workers, RecordFailure(w)
  PROVE  OwnershipInv'
<1>1. /\ pc[w] = "fail" /\ FailureHolds(w)
      /\ session' = [session EXCEPT !.last.status = "failed"]
      /\ ops' = [ops EXCEPT ![call[w].request].status = "failed"]
      /\ Return(w) /\ UNCHANGED <<clock, tokens, turns, proposals>>
  BY DEF RecordFailure
<1>2. /\ TypeOK /\ session \in Session /\ session.revision \in Nat
      /\ ops \in [Requests -> Op] /\ call[w].request \in Requests
  BY DEF OwnershipInv, TypeOK, Session, Call
<1>3. Attached(w) /\ session.last.token = call[w].token
  BY <1>1 DEF FailureHolds, Attached
<1>4. /\ session'.id = session.id /\ session'.revision = session.revision
      /\ session'.last = [session.last EXCEPT !.status = "failed"]
  BY <1>1, <1>2 DEF Session
<1>5. /\ OwnerAgrees' /\ DeletedStaysDeleted' /\ TokensFresh' /\ RevisionsReached'
      /\ ReadsHold' /\ OwnersRun'
  <2>1. /\ pc[w] \in Owning /\ session'.revision >= session.revision
        /\ "failed" \in {"succeeded", "failed"} /\ tokens' = tokens
    BY <1>1, <1>2, <1>4 DEF Owning
  <2> QED
    BY <1>1, <1>3, <1>4, <2>1, OwnerEnds
<1>6. TurnLimit' /\ TurnSequence'
  BY <1>1 DEF OwnershipInv, TurnLimit, TurnSequence
<1>7. CountsHold'
  <2>1. session'.last.token = session.last.token
    BY <1>2, <1>4 DEF Session, LastOperation
  <2>2. ASSUME NEW v \in Workers, Attached(v)'
        PROVE  v # w /\ Attached(v) /\ pc'[v] = pc[v] /\ call'[v] = call[v]
               /\ snap'[v] = snap[v]
    BY <1>1, <1>2, <1>4, <2>2 DEF Return, TypeOK, Attached
  <2>3. ASSUME NEW r \in Requests, ops'[r].status # "succeeded"
        PROVE  /\ ops[r].status # "succeeded"
               /\ ops'[r].kind = ops[r].kind /\ ops'[r].base = ops[r].base
    <3>1. CASE r = call[w].request
      <4>1. OwnerAgrees /\ session.last.request = r /\ session.last.status = "running"
            /\ session.id # 0
        BY <1>1, <1>3, <3>1 DEF OwnershipInv, OwnersRun, Owning, TokensFresh, Attached
      <4> QED
        BY <4>1, <1>1, <1>2, <3>1 DEF OwnerAgrees, Op
    <3>2. CASE r # call[w].request
      BY <3>2, <2>3, <1>1, <1>2
    <3> QED
      BY <3>1, <3>2
  <2> QED
    BY <1>1, <1>4, <2>1, <2>2, <2>3 DEF OwnershipInv, CountsHold
<1> QED
  BY <1>5, <1>6, <1>7 DEF OwnershipInv

\* An application moves the revision on and leaves every operation alone.
LEMMA ApplyStep ==
  ASSUME OwnershipInv, TypeOK', NEW w \in Workers, Apply(w)
  PROVE  OwnershipInv'
<1>1. /\ session' = [session EXCEPT !.revision = session.revision + 1,
                                    !.expires = snap[w].now + Retention]
      /\ pc[w] = "apply" /\ ClaimHolds(w)
      /\ Return(w) /\ UNCHANGED <<clock, tokens, ops, turns>>
  BY DEF Apply, AdvanceHolds
<1>2. /\ TypeOK /\ session \in Session /\ session.revision \in Nat /\ session.id \in Nat
      /\ ops \in [Requests -> Op]
  BY DEF OwnershipInv, TypeOK, Session
<1>3. /\ session'.id = session.id /\ session'.revision = session.revision + 1
      /\ session'.last = session.last
  BY <1>1, <1>2 DEF Session
<1>4. /\ pc' = [pc EXCEPT ![w] = "idle"]
      /\ call' = [call EXCEPT ![w] = NoCall] /\ snap' = [snap EXCEPT ![w] = NoSnapshot]
  BY <1>1 DEF Return
<1>5. session.id # 0
  BY <1>1 DEF ClaimHolds, OwnershipInv, TokensFresh
<1>6. (OwnerAgrees /\ DeletedStaysDeleted /\ TurnLimit /\ TurnSequence)'
  BY <1>1, <1>3, <1>5
     DEF OwnershipInv, OwnerAgrees, DeletedStaysDeleted, TurnLimit, TurnSequence
<1>7. TokensFresh'
  BY <1>1, <1>2, <1>3, <1>4 DEF OwnershipInv, TokensFresh, Owning, TypeOK
<1>8. ReadsHold' /\ OwnersRun'
  BY <1>1, <1>2, <1>3, <1>4
     DEF OwnershipInv, ReadsHold, OwnersRun, Attached, TypeOK, Reading, Owning
<1>9. \A r \in Requests : ops[r].base <= session.revision /\ ops[r].base \in Nat
  BY <1>2 DEF OwnershipInv, RevisionsReached, Op
<1>10. RevisionsReached'
  <2>1. ASSUME NEW v \in Workers, Attached(v)'
        PROVE  call'[v].input.base <= session'.revision
    <3>1. v # w /\ call'[v] = call[v] /\ Attached(v) /\ call[v].input.base \in Nat
      BY <1>2, <1>3, <1>4, <2>1 DEF TypeOK, Attached, Call, Input
    <3> QED
      BY <3>1, <1>2, <1>3 DEF OwnershipInv, RevisionsReached
  <2> QED
    BY <1>1, <1>2, <1>3, <1>9, <2>1 DEF OwnershipInv, RevisionsReached
<1>11. CountsHold'
  BY <1>1, <1>3, <1>9, PastRevision
<1> QED
  BY <1>6, <1>7, <1>8, <1>10, <1>11 DEF OwnershipInv

\* A confirmation replaces the owner and moves the revision on in one transaction.
LEMMA ConfirmStep ==
  ASSUME OwnershipInv, TypeOK', NEW w \in Workers, Confirm(w)
  PROVE  OwnershipInv'
<1> DEFINE r == call[w].request
           row == ClaimedSession(w, tokens + 1)
           op == [NewOperation(w, tokens + 1) EXCEPT !.status = "succeeded",
                                                     !.lease = snap[w].now]
<1>1. /\ pc[w] = "confirm" /\ ClaimHolds(w) /\ tokens' = tokens + 1
      /\ session' = [row EXCEPT
           !.confirmed = ConfirmedAfter(w),
           !.proposed = session.proposed \ Decided(call[w].input),
           !.revision = session.revision + 1,
           !.status = IF session.proposed \ Decided(call[w].input) # {}
                      THEN "awaiting-confirmation" ELSE "active",
           !.last.status = "succeeded", !.last.lease = snap[w].now]
      /\ ops' = [ops EXCEPT ![r] = op]
      /\ Return(w) /\ UNCHANGED <<clock, turns, proposals>>
  BY DEF Confirm
<1>2. /\ TypeOK /\ tokens \in Nat /\ tokens + 1 \in Nat /\ call[w].kind \in Kinds
      /\ session.id \in Nat /\ session.revision \in Nat /\ session.last.token \in Nat
      /\ r \in Requests /\ ops \in [Requests -> Op] /\ call[w].input.base \in Nat
      /\ session'.last \in LastOperation
  <2>0. TypeOK
    BY DEF OwnershipInv
  <2>1. TypeOK /\ call[w] \in Call /\ session \in Session /\ session' \in Session
    BY <2>0 DEF TypeOK
  <2>2. call[w].kind # "apply"
    BY <1>1, <2>1 DEF TypeOK
  <2>3. /\ call[w].kind \in Kinds /\ r \in Requests /\ call[w].input.base \in Nat
    BY <2>1, <2>2 DEF Call, Input, Kinds
  <2>4. session.last \in LastOperation /\ session'.last \in LastOperation
        /\ session.id \in Nat /\ session.revision \in Nat
    BY <2>1 DEF Session
  <2>5. ops \in [Requests -> Op] /\ tokens \in Nat
    BY <2>1 DEF TypeOK
  <2> QED
    BY <2>1, <2>3, <2>4, <2>5 DEF LastOperation
<1>3. row \in Session
  BY <1>2, ClaimedTypes
<1>4. /\ row.id = session.id
      /\ row.last =
           [request |-> r, kind |-> call[w].kind, status |-> "running",
            token |-> tokens + 1, base |-> call[w].input.base,
            lease |-> snap[w].now + Lease]
  BY <1>2, ClaimedFields
<1> HIDE DEF row
<1>5. /\ session'.id = session.id /\ session'.revision = session.revision + 1
      /\ session'.last =
           [row.last EXCEPT !.status = "succeeded", !.lease = snap[w].now]
  BY <1>1, <1>3, <1>4 DEF Session, LastOperation
<1>6. /\ session'.last.request = r /\ session'.last.kind = call[w].kind
      /\ session'.last.status = "succeeded" /\ session'.last.token = tokens + 1
      /\ session'.last.base = call[w].input.base /\ session'.last.lease = snap[w].now
  BY <1>4, <1>5
<1>7. /\ op.kind = call[w].kind /\ op.status = "succeeded" /\ op.token = tokens + 1
      /\ op.base = call[w].input.base /\ op.lease = snap[w].now
      /\ op.digest = call[w].input
  BY DEF NewOperation
<1>8. call[w].input.base = session.revision /\ session.id # 0
  BY <1>1 DEF ClaimHolds, OwnershipInv, TokensFresh
<1> HIDE DEF op, r
<1>9. (OwnerAgrees /\ DeletedStaysDeleted /\ TurnLimit /\ TurnSequence)'
  BY <1>1, <1>2, <1>5, <1>6, <1>7, <1>8
     DEF OwnershipInv, OwnerAgrees, DeletedStaysDeleted, TurnLimit, TurnSequence
<1>10. ASSUME NEW v \in Workers, pc'[v] # "idle"
       PROVE  /\ v # w /\ pc'[v] = pc[v] /\ call'[v] = call[v] /\ snap'[v] = snap[v]
              /\ snap[v].id \in 1 .. tokens
              /\ snap[v].last.token <= tokens /\ call[v].token <= tokens
              /\ session'.last.token \notin {snap[v].last.token, call[v].token}
              /\ call[v].input.base \in Nat
  <2>1. v # w /\ pc'[v] = pc[v] /\ call'[v] = call[v] /\ snap'[v] = snap[v]
    BY <1>1, <1>2, <1>10 DEF Return, TypeOK
  <2>2. /\ snap[v].last.token \in Nat /\ call[v].token \in Nat
        /\ call[v].input.base \in Nat
    BY <1>2 DEF TypeOK, Snapshot, LastOperation, Call, Input
  <2> QED
    BY <2>1, <2>2, <1>2, <1>6, <1>10 DEF OwnershipInv, TokensFresh
<1>11. TokensFresh'
  <2>1. session'.id <= tokens' /\ session'.last.token <= tokens'
    BY <1>1, <1>2, <1>5, <1>6 DEF OwnershipInv, TokensFresh
  <2>2. ASSUME NEW v \in Workers, pc'[v] # "idle"
        PROVE  /\ snap'[v].id \in 1 .. tokens' /\ snap'[v].last.token <= tokens'
               /\ call'[v].token <= tokens'
    <3>1. snap[v].last.token \in Nat /\ call[v].token \in Nat /\ snap[v].id \in Nat
      BY <1>2 DEF TypeOK, Snapshot, LastOperation, Call
    <3> QED
      BY <3>1, <2>2, <1>1, <1>2, <1>10
  <2> QED
    BY <2>1, <2>2, <1>10 DEF TokensFresh, OwnershipInv, Owning
<1>12. RevisionsReached'
  <2>1. ASSUME NEW v \in Workers, Attached(v)'
        PROVE  call'[v].input.base <= session'.revision
    <3>1. Attached(v) /\ pc'[v] # "idle"
      BY <2>1, <1>5, <1>10 DEF Attached
    <3> QED
      BY <3>1, <1>2, <1>5, <1>10 DEF OwnershipInv, RevisionsReached
  <2>2. ASSUME NEW s \in Requests
        PROVE  ops'[s].base <= session'.revision /\ ops'[s].digest.base = ops'[s].base
    <3>1. ops[s].base \in Nat /\ ops[s].base <= session.revision
          /\ ops[s].digest.base = ops[s].base
      BY <1>2 DEF OwnershipInv, RevisionsReached, Op
    <3> QED
      BY <3>1, <1>1, <1>2, <1>5, <1>7, <1>8
  <2> QED
    BY <2>1, <2>2 DEF RevisionsReached
<1>13. ReadsHold'
  BY <1>10 DEF OwnershipInv, ReadsHold, Attached, Reading
<1>14. OwnersRun'
  BY <1>10 DEF OwnersRun, Owning
<1>15. \A s \in Requests : ops'[s].base <= session.revision
  <2> TAKE s \in Requests
  <2>1. ops[s].base \in Nat /\ ops[s].base <= session.revision
    BY <1>2 DEF OwnershipInv, RevisionsReached, Op
  <2> QED
    BY <2>1, <1>1, <1>2, <1>7, <1>8
<1>16. CountsHold'
  BY <1>1, <1>5, <1>15, PastRevision
<1> QED
  BY <1>9, <1>11, <1>12, <1>13, <1>14, <1>16 DEF OwnershipInv

\* A creation starts a session that no handler of an earlier one can be attached to.
LEMMA StartStep ==
  ASSUME OwnershipInv, TypeOK', NEW w \in Workers, NEW body \in Bodies,
         StartCreate(w, body)
  PROVE  OwnershipInv'
<1> DEFINE token == tokens + 1
           input == [NoInput EXCEPT !.payload = body]
           op == [kind |-> "start", status |-> "running", token |-> token, base |-> 0,
                  lease |-> clock + Lease, digest |-> input]
           last == [request |-> CreationRequest, kind |-> "start", status |-> "running",
                    token |-> token, base |-> 0, lease |-> clock + Lease]
           c == [request |-> CreationRequest, kind |-> "start", token |-> token,
                 input |-> input]
           read == [NoSnapshot EXCEPT !.id = token, !.now = clock]
<1>1. /\ session.id = 0 /\ tokens' = token
      /\ session' = [NoSession EXCEPT !.id = token, !.status = "active",
                                      !.expires = clock + Retention, !.last = last]
      /\ ops' = [ops EXCEPT ![CreationRequest] = op]
      /\ pc' = [pc EXCEPT ![w] = "model"]
      /\ call' = [call EXCEPT ![w] = c] /\ snap' = [snap EXCEPT ![w] = read]
      /\ UNCHANGED <<clock, turns, proposals>>
  BY DEF StartCreate
<1>2. TypeOK /\ tokens \in Nat
  BY DEF OwnershipInv, TypeOK
<1>3. /\ session'.id = token /\ session'.revision = 0 /\ session'.last = last
      /\ input.base = 0 /\ read.id = token /\ read.last.token = 0
  BY <1>1 DEF NoSession, NoInput, NoSnapshot, NoLast
<1>4. /\ turns = <<>> /\ \A r \in Requests : ops[r] = NoOp
  BY <1>1 DEF OwnershipInv, DeletedStaysDeleted
<1>5. /\ pc'[w] = "model" /\ call'[w] = c /\ snap'[w] = read
      /\ \A v \in Workers \ {w} :
           pc'[v] = pc[v] /\ call'[v] = call[v] /\ snap'[v] = snap[v]
  BY <1>1, <1>2 DEF TypeOK
<1>6. /\ ops'[CreationRequest] = op
      /\ \A r \in Requests \ {CreationRequest} : ops'[r] = NoOp
  BY <1>1, <1>2, <1>4 DEF TypeOK
<1> HIDE DEF read, input
<1>7. (OwnerAgrees /\ DeletedStaysDeleted /\ TurnLimit /\ TurnSequence)'
  BY <1>1, <1>2, <1>3, <1>4, <1>6
     DEF OwnerAgrees, DeletedStaysDeleted, TurnLimit, TurnSequence
<1>8. ASSUME NEW v \in Workers \ {w}, pc'[v] # "idle"
      PROVE  /\ snap'[v].id \in 1 .. tokens /\ snap'[v].last.token <= tokens
             /\ call'[v].token <= tokens /\ ~Attached(v)'
             /\ call'[v].token \in Nat /\ snap'[v].last.token \in Nat
  <2>1. pc[v] # "idle" /\ call'[v] = call[v] /\ snap'[v] = snap[v]
    BY <1>5, <1>8
  <2>2. /\ snap[v].id \in 1 .. tokens /\ snap[v].last.token <= tokens
        /\ call[v].token <= tokens
    BY <2>1 DEF OwnershipInv, TokensFresh
  <2>3. call[v].token \in Nat /\ snap[v].last.token \in Nat
    BY <1>2 DEF TypeOK, Call, Snapshot, LastOperation
  <2>4. session'.id # snap'[v].id
    BY <2>1, <2>2, <1>2, <1>3
  <2> QED
    BY <2>1, <2>2, <2>3, <2>4 DEF Attached
<1>9. TokensFresh'
  <2>1. ASSUME NEW v \in Workers, pc'[v] # "idle"
        PROVE  /\ snap'[v].id \in 1 .. tokens' /\ snap'[v].last.token <= tokens'
               /\ call'[v].token <= tokens'
    <3>1. CASE v = w
      BY <3>1, <1>1, <1>2, <1>3, <1>5
    <3>2. CASE v # w
      BY <3>2, <2>1, <1>1, <1>2, <1>8
    <3> QED
      BY <3>1, <3>2
  <2>2. ASSUME NEW u \in Workers, NEW v \in Workers, u # v,
               pc'[u] \in Owning, pc'[v] \in Owning
        PROVE  call'[u].token # call'[v].token
    BY <2>2, <1>2, <1>5, <1>8 DEF OwnershipInv, TokensFresh, Owning
  <2> QED
    BY <2>1, <2>2, <1>1, <1>2, <1>3 DEF TokensFresh
<1>10. RevisionsReached' /\ ReadsHold' /\ OwnersRun'
  <2>1. RevisionsReached'
    BY <1>3, <1>5, <1>6, <1>8 DEF RevisionsReached, Attached, NoOp, NoInput
  <2>2. ReadsHold'
    BY <1>5, <1>8 DEF OwnershipInv, ReadsHold, Attached, Reading
  <2>3. OwnersRun'
    BY <1>3, <1>5, <1>8 DEF OwnersRun, Attached, Owning
  <2> QED
    BY <2>1, <2>2, <2>3
<1>11. CountsHold'
  <2>1. Len(turns') = 0
    BY <1>1, <1>4
  <2> QED
    BY <2>1, <1>5, <1>8 DEF CountsHold, Attached
<1> QED
  BY <1>7, <1>9, <1>10, <1>11 DEF OwnershipInv

\* The second transaction reads afresh and changes no row.
LEMMA OutcomeStep ==
  ASSUME OwnershipInv, TypeOK', NEW w \in Workers, ReplyRead(w) \/ ErrorRead(w)
  PROVE  OwnershipInv'
<1> DEFINE read == Read(call[w].request)
<1>1. PICK phase \in {"finish", "fail"} :
        /\ pc[w] = "model" /\ pc' = [pc EXCEPT ![w] = phase]
        /\ snap' = [snap EXCEPT ![w] = read]
        /\ UNCHANGED <<clock, tokens, session, ops, turns, proposals, call>>
  BY DEF ReplyRead, ErrorRead, tables
<1>2. session.id = snap[w].id
  BY DEF ReplyRead, ErrorRead, ReplyHolds, OwnsOperation
<1>3. TypeOK /\ tokens \in Nat
  BY DEF OwnershipInv, TypeOK
<1>4. read.id = session.id /\ read.last = session.last /\ read.count = Len(turns)
  BY DEF Read
<1> HIDE DEF read
<1>5. (OwnerAgrees /\ DeletedStaysDeleted /\ TurnLimit /\ TurnSequence)'
  BY <1>1 DEF OwnershipInv, OwnerAgrees, DeletedStaysDeleted, TurnLimit, TurnSequence
<1>6. TokensFresh'
  BY <1>1, <1>2, <1>3, <1>4 DEF OwnershipInv, TokensFresh, Owning, TypeOK
<1>7. RevisionsReached' /\ ReadsHold' /\ OwnersRun'
  BY <1>1, <1>2, <1>3, <1>4 DEF OwnershipInv, RevisionsReached, ReadsHold, OwnersRun,
                                Attached, Reading, Owning, TypeOK
<1>8. CountsHold'
  BY <1>1, <1>2, <1>3, <1>4 DEF OwnershipInv, CountsHold, Attached, TypeOK
<1> QED
  BY <1>5, <1>6, <1>7, <1>8 DEF OwnershipInv

\* After a deletion no handler is attached to anything.
LEMMA RemoveStep ==
  ASSUME OwnershipInv, TypeOK', RemoveRows
  PROVE  OwnershipInv'
<1>1. /\ session' = NoSession /\ ops' = [r \in Requests |-> NoOp] /\ turns' = <<>>
      /\ proposals' = [r \in Requests |-> NoProposal]
      /\ UNCHANGED <<clock, tokens, pc, call, snap>>
  BY DEF RemoveRows
<1>2. TypeOK /\ tokens \in Nat
  BY DEF OwnershipInv, TypeOK
<1>3. /\ session'.id = 0 /\ session'.last.token = 0 /\ session'.revision = 0
      /\ NoOp.base = 0 /\ NoOp.digest.base = 0 /\ NoOp.kind = "none"
  BY <1>1 DEF NoSession, NoLast, NoOp, NoInput
<1>4. \A v \in Workers : ~Attached(v)'
  BY <1>1, <1>3 DEF OwnershipInv, TokensFresh, Attached
<1>5. (OwnerAgrees /\ DeletedStaysDeleted /\ TurnLimit /\ TurnSequence)'
  BY <1>1, <1>3 DEF OwnerAgrees, DeletedStaysDeleted, TurnLimit, TurnSequence
<1>6. TokensFresh' /\ RevisionsReached' /\ OwnersRun'
  BY <1>1, <1>2, <1>3, <1>4 DEF OwnershipInv, TokensFresh, RevisionsReached, OwnersRun
<1>7. ReadsHold'
  BY <1>1, <1>4 DEF OwnershipInv, ReadsHold
<1>8. CountsHold'
  BY <1>1, <1>3, <1>4 DEF CountsHold
<1> QED
  BY <1>5, <1>6, <1>7, <1>8 DEF OwnershipInv

\* Every step keeps the invariant.
LEMMA StepOwnership == OwnershipInv /\ [Next]_vars => OwnershipInv'
<1> SUFFICES ASSUME OwnershipInv, [Next]_vars PROVE OwnershipInv'
  OBVIOUS
<1>1. TypeOK /\ TypeOK'
  BY StepType DEF OwnershipInv
<1>2. ASSUME NEW w \in Workers, NEW r \in Requests, NEW base \in 0 .. session.revision,
             NEW c \in Call, NEW phase \in Reading,
             Readable(clock), Enter(w, phase, c, r), UNCHANGED <<clock, tokens, tables>>,
             c.request = r, c.token = 0, c.input.base = base,
             phase \in {"claim", "confirm"} => ops[r].status = "none",
             phase = "reclaim" => /\ ops[r].status # "succeeded"
                                  /\ ops[r].kind = c.kind /\ ops[r].base = base,
             phase = "claim" /\ c.kind = "answer" => RoomForAnswer
      PROVE  OwnershipInv'
  <2>1. session.id # 0 /\ c.input.base <= session.revision
    BY <1>1, <1>2 DEF Readable, TypeOK, Session
  <2> QED
    BY <1>1, <1>2, <2>1, ReadStep
<1>3. ASSUME NEW w \in Workers, Receive(w) PROVE OwnershipInv'
  <2>1. CASE \E body \in Bodies : StartCreate(w, body)
    BY <2>1, <1>1, StartStep
  <2>2. ASSUME NEW r \in Requests, NEW base \in 0 .. session.revision,
               NEW question \in 0 .. Len(turns), AnswerRead(w, r, base, question)
        PROVE  OwnershipInv'
    <3> DEFINE c == [request |-> r, kind |-> "answer", token |-> 0,
                     input |-> [NoInput EXCEPT !.base = base, !.payload = question]]
    <3>1. base \in Nat /\ question \in Nat
      BY <1>1 DEF TypeOK, Session
    <3>2. c \in Call /\ c.input.base = base
      BY <3>1, EmptyTypes DEF Call, Kinds, Input
    <3>3. /\ Readable(clock) /\ Enter(w, "claim", c, r)
          /\ UNCHANGED <<clock, tokens, tables>>
          /\ ops[r].status = "none" /\ RoomForAnswer
      BY <2>2 DEF AnswerRead
    <3>4. c.request = r /\ c.token = 0 /\ "claim" \in Reading
      BY DEF Reading
    <3> HIDE DEF c
    <3> QED
      BY <3>2, <3>3, <3>4, <1>2
  <2>3. ASSUME NEW r \in Requests, NEW base \in 0 .. session.revision,
               GenerateRead(w, r, base)
        PROVE  OwnershipInv'
    <3> DEFINE c == [request |-> r, kind |-> "proposal", token |-> 0,
                     input |-> [NoInput EXCEPT !.base = base]]
    <3>1. base \in Nat
      BY <1>1 DEF TypeOK, Session
    <3>2. c \in Call /\ c.input.base = base
      BY <3>1, EmptyTypes DEF Call, Kinds, Input
    <3>3. /\ Readable(clock) /\ Enter(w, "claim", c, r)
          /\ UNCHANGED <<clock, tokens, tables>> /\ ops[r].status = "none"
      BY <2>3 DEF GenerateRead
    <3>4. c.request = r /\ c.token = 0 /\ c.kind = "proposal" /\ "claim" \in Reading
      BY DEF Reading
    <3> HIDE DEF c
    <3> QED
      BY <3>2, <3>3, <3>4, <1>2
  <2>4. ASSUME NEW r \in Requests, NEW base \in 0 .. session.revision,
               NEW accept \in SUBSET (session.proposed \cup session.confirmed),
               NEW reject \in SUBSET (session.proposed \cup session.confirmed),
               ConfirmRead(w, r, base, accept, reject)
        PROVE  OwnershipInv'
    <3> DEFINE input == [base |-> base, payload |-> 0, accept |-> accept,
                         reject |-> reject]
               c == [request |-> r, kind |-> "confirmation", token |-> 0,
                     input |-> input]
    <3>1. base \in Nat /\ session.proposed \cup session.confirmed \subseteq Evidence
      BY <1>1 DEF TypeOK, Session
    <3>2. input \in Input /\ input.base = base
      BY <3>1 DEF Input
    <3>3. /\ Readable(clock) /\ Enter(w, "confirm", c, r)
          /\ UNCHANGED <<clock, tokens, tables>> /\ ops[r].status = "none"
      BY <2>4 DEF ConfirmRead
    <3> HIDE DEF input
    <3>4. c \in Call /\ c.input.base = base /\ c.request = r /\ c.token = 0
          /\ "confirm" \in Reading
      BY <3>2 DEF Call, Kinds, Reading
    <3> HIDE DEF c
    <3> QED
      BY <3>3, <3>4, <1>2
  <2>5. ASSUME NEW r \in Requests, NEW base \in 0 .. session.revision,
               ApplyRead(w, r, base)
        PROVE  OwnershipInv'
    <3> DEFINE c == [request |-> r, kind |-> "apply", token |-> 0,
                     input |-> [NoInput EXCEPT !.base = base]]
    <3>1. base \in Nat
      BY <1>1 DEF TypeOK, Session
    <3>2. c \in Call /\ c.input.base = base
      BY <3>1, EmptyTypes DEF Call, Kinds, Input
    <3>3. /\ Readable(clock) /\ Enter(w, "apply", c, r)
          /\ UNCHANGED <<clock, tokens, tables>>
      BY <2>5 DEF ApplyRead
    <3>4. c.request = r /\ c.token = 0 /\ "apply" \in Reading
      BY DEF Reading
    <3> HIDE DEF c
    <3> QED
      BY <3>2, <3>3, <3>4, <1>2
  <2>6. ASSUME NEW r \in Requests, NEW base \in 0 .. session.revision,
               NEW payload \in Bodies \cup 0 .. Len(turns),
               RetryRead(w, r, [NoInput EXCEPT !.base = base, !.payload = payload])
        PROVE  OwnershipInv'
    <3> DEFINE input == [NoInput EXCEPT !.base = base, !.payload = payload]
               c == [request |-> r, kind |-> ops[r].kind, token |-> 0, input |-> input]
    <3>1. base \in Nat /\ payload \in Nat /\ ops[r] \in Op
      BY <1>1 DEF TypeOK, Session
    <3>2. input \in Input /\ input.base = base
      BY <3>1, EmptyTypes DEF Input
    <3>3. /\ Readable(clock) /\ Enter(w, "reclaim", c, r)
          /\ UNCHANGED <<clock, tokens, tables>>
          /\ ops[r].digest = input /\ ops[r].status # "succeeded"
      BY <2>6 DEF RetryRead
    <3> HIDE DEF input
    <3>4. c \in Call /\ c.input.base = base /\ c.request = r /\ c.token = 0
          /\ c.kind = ops[r].kind /\ "reclaim" \in Reading
      BY <3>1, <3>2 DEF Call, Op, Reading
    <3>5. ops[r].base = base
      BY <3>2, <3>3 DEF OwnershipInv, RevisionsReached
    <3> HIDE DEF c
    <3> QED
      BY <3>3, <3>4, <3>5, <1>2
  <2> QED
    BY <1>3, <2>1, <2>2, <2>3, <2>4, <2>5, <2>6 DEF Receive
<1>4. ASSUME NEW w \in Workers, Refused(w) \/ Crash(w) PROVE OwnershipInv'
  BY <1>1, <1>4, ReturnStep DEF Refused, Crash
<1>5. ASSUME NEW w \in Workers, Proceed(w) PROVE OwnershipInv'
  BY <1>1, <1>4, <1>5, ClaimStep, ReclaimStep, ConfirmStep, ApplyStep, OutcomeStep,
     FinishReplyStep, FinishGenerationStep, FailureStep DEF Proceed
<1>6. CASE Delete \/ Cleanup
  BY <1>1, <1>6, RemoveStep DEF Delete, Cleanup
<1>7. CASE Tick \/ UNCHANGED vars
  <2>1. UNCHANGED <<tokens, session, ops, turns, proposals, pc, call, snap>>
    BY <1>7 DEF Tick, vars, tables
  <2> QED
    BY <1>1, <2>1 DEF OwnershipInv, OwnerAgrees, DeletedStaysDeleted, TurnLimit,
       TurnSequence, TokensFresh, RevisionsReached, ReadsHold, OwnersRun, CountsHold,
       Attached
<1> QED
  BY <1>3, <1>4, <1>5, <1>6, <1>7 DEF Next

\* Ownership: what an owner's commit relies on holds in every reachable state.
THEOREM Ownership == Spec => []OwnershipInv
  BY InitOwnership, StepOwnership, PTL DEF Spec

\* No interview ever holds more than MaxTurns turns, though each answer counts them
\* before it inserts its own and its reply comes a whole inference later.
THEOREM TurnLimitHolds == Spec => []TurnLimit
<1>1. OwnershipInv => TurnLimit
  BY DEF OwnershipInv
<1> QED
  BY <1>1, Ownership, PTL

\* Nothing is stored for a deleted interview, however late replies, failures and
\* repeated requests arrive after the deletion.
THEOREM DeletedStaysDeletedHolds == Spec => []DeletedStaysDeleted
<1>1. OwnershipInv => DeletedStaysDeleted
  BY DEF OwnershipInv
<1> QED
  BY <1>1, Ownership, PTL

\* Turns are numbered 1, 2, 3, ...: the unique constraint on the sequence is never hit.
THEOREM TurnSequenceHolds == Spec => []TurnSequence
<1>1. OwnershipInv => TurnSequence
  BY DEF OwnershipInv
<1> QED
  BY <1>1, Ownership, PTL

\* The session's last_operation_* columns and the operation row always agree.
THEOREM OwnerAgreesHolds == Spec => []OwnerAgrees
<1>1. OwnershipInv => OwnerAgrees
  BY DEF OwnershipInv
<1> QED
  BY <1>1, Ownership, PTL

\* An overtaken task can commit neither a reply nor a failure.
THEOREM OnlyOwnerCommitsHolds == Spec => []OnlyOwnerCommits
<1>1. OwnershipInv => OnlyOwnerCommits
  <2> SUFFICES ASSUME OwnershipInv, NEW w \in Workers, pc[w] \in {"finish", "fail"},
                      session.id = snap[w].id, session.last.token = call[w].token
               PROVE  session.last.request = call[w].request /\ OwnsOperation(w)
    BY DEF OnlyOwnerCommits, FinishHolds, FailureHolds
  <2>1. /\ session.last.status = "running" /\ session.last.request = call[w].request
        /\ session.id # 0
    BY DEF OwnershipInv, OwnersRun, Owning, Attached, TokensFresh
  <2> QED
    BY <2>1 DEF OwnershipInv, OwnerAgrees, OwnsOperation
<1> QED
  BY <1>1, Ownership, PTL

\* A retry that takes the session also takes its operation.
THEOREM ReclaimIsWholeHolds == Spec => []ReclaimIsWhole
<1>1. OwnershipInv => ReclaimIsWhole
  <2> SUFFICES ASSUME OwnershipInv, NEW w \in Workers, pc[w] = "reclaim", ClaimHolds(w)
               PROVE  OperationHolds(w)
    BY DEF ReclaimIsWhole
  <2>1. ops[call[w].request] = snap[w].op
    BY DEF OwnershipInv, ReadsHold, ClaimHolds, Attached, Reading
  <2> QED
    BY <2>1 DEF OperationHolds
<1> QED
  BY <1>1, Ownership, PTL
-----------------------------------------------------------------------------
(* The lease *)

\* The lease outlasts the transaction that claims it and the inference after it.  The
\* code's defaults (75 s against a 60 s deadline) satisfy this, but the settings accept
\* any lease of at least one second.
LeaseCovers == Lease > TxTime + Deadline

\* A claim can hold only if nobody awaits the model for that session.
LEMMA NoRival ==
  ASSUME OwnershipInv, LeaseInv, LeaseCovers, NEW w \in Workers,
         pc[w] \in {"claim", "reclaim", "confirm"}, ClaimHolds(w),
         NEW v \in Workers, pc[v] = "model"
  PROVE  snap[v].id # session.id
<1> SUFFICES ASSUME snap[v].id = session.id PROVE FALSE
  OBVIOUS
<1>1. Attached(v) /\ pc[v] \in Owning /\ pc[w] \in Reading
  BY DEF Attached, Owning, Reading
<1>2. /\ clock <= snap[v].now + Deadline /\ session.last.token = call[v].token
      /\ session.last.lease + TxTime >= snap[v].now + Lease
  BY <1>1 DEF LeaseInv
<1>3. session.last.status = "running"
  BY <1>1, <1>2 DEF OwnershipInv, OwnersRun
<1>4. session.last = snap[w].last /\ snap[w].now <= clock
      /\ ~LiveAt(snap[w].last, snap[w].now)
  BY <1>1 DEF ClaimHolds, LeaseInv
<1>5. /\ session.last.lease \in Int /\ snap[v].now \in Int /\ snap[w].now \in Int
      /\ clock \in Int
  BY DEF OwnershipInv, TypeOK, Session, LastOperation, Snapshot
<1>6. session.last.lease > snap[w].now
  BY <1>2, <1>4, <1>5, LimitsAssumption DEF LeaseCovers
<1> QED
  BY <1>3, <1>4, <1>6 DEF LiveAt

\* A claim leaves its task alone at the model, with a whole lease ahead of it.
LEMMA LeaseClaim ==
  ASSUME OwnershipInv, LeaseInv, OneInference, LeaseCovers, NEW w \in Workers,
         pc[w] \in {"claim", "reclaim"}, ClaimHolds(w), AwaitModel(w, tokens + 1),
         session' = ClaimedSession(w, tokens + 1), UNCHANGED clock
  PROVE  LeaseInv' /\ OneInference'
<1>1. TypeOK /\ tokens + 1 \in Nat
  BY DEF OwnershipInv, TypeOK
<1>2. /\ pc' = [pc EXCEPT ![w] = "model"]
      /\ call' = [call EXCEPT ![w].token = tokens + 1]
      /\ snap' = [snap EXCEPT ![w] = [NoSnapshot EXCEPT !.id = snap[w].id, !.now = clock]]
  BY DEF AwaitModel
<1>3. /\ session'.id = session.id
      /\ session'.last.token = tokens + 1 /\ session'.last.lease = snap[w].now + Lease
  <2>1. /\ session'.id = session.id
        /\ session'.last =
             [request |-> call[w].request, kind |-> call[w].kind, status |-> "running",
              token |-> tokens + 1, base |-> call[w].input.base,
              lease |-> snap[w].now + Lease]
    BY <1>1, ClaimedFields
  <2> QED
    BY <2>1
<1>4. /\ pc'[w] = "model" /\ snap'[w].id = session.id /\ snap'[w].now = clock
      /\ call'[w].token = tokens + 1
      /\ \A v \in Workers \ {w} :
           pc'[v] = pc[v] /\ call'[v] = call[v] /\ snap'[v] = snap[v]
  BY <1>1, <1>2, EmptyTypes DEF TypeOK, Snapshot, Call, ClaimHolds, NoSnapshot
<1>5. \A v \in Workers \ {w} : pc'[v] = "model" => snap'[v].id # session.id
  BY <1>4, NoRival
<1>6. clock <= snap[w].now + TxTime /\ snap[w].now \in Int /\ clock \in Int
  BY <1>1 DEF LeaseInv, TypeOK, Snapshot
<1>7. OneInference'
  BY <1>4, <1>5 DEF OneInference
<1>8. \A v \in Workers : pc'[v] \in Reading =>
        snap'[v].now <= clock' /\ ~LiveAt(snap'[v].last, snap'[v].now)
  BY <1>4 DEF LeaseInv, Reading, LiveAt
<1>9. \A v \in Workers : pc'[v] \in {"claim", "reclaim"} => clock' <= snap'[v].now + TxTime
  BY <1>4 DEF LeaseInv
<1>10. ASSUME NEW v \in Workers, pc'[v] = "model"
       PROVE  /\ clock' <= snap'[v].now + Deadline
              /\ Attached(v)' => /\ session'.last.token = call'[v].token
                                 /\ session'.last.lease + TxTime >= snap'[v].now + Lease
  <2>1. CASE v = w
    BY <2>1, <1>3, <1>4, <1>6, LimitsAssumption
  <2>2. CASE v # w
    <3>1. ~Attached(v)' /\ pc[v] = "model"
      BY <2>2, <1>10, <1>3, <1>4, <1>5 DEF Attached
    <3> QED
      BY <2>2, <3>1, <1>4 DEF LeaseInv
  <2> QED
    BY <2>1, <2>2
<1> QED
  BY <1>7, <1>8, <1>9, <1>10 DEF LeaseInv, LiveAt

\* A step that ends a handler, and neither changes the owner nor the lease, keeps both.
LEMMA LeaseReturn ==
  ASSUME OwnershipInv, LeaseInv, OneInference, NEW w \in Workers, Return(w),
         UNCHANGED clock,
         \/ session'.id = session.id /\ session'.last.token = session.last.token
              /\ session'.last.lease = session.last.lease
         \/ \A v \in Workers : pc[v] = "model" => snap[v].id # session'.id
  PROVE  LeaseInv' /\ OneInference'
<1>1. TypeOK
  BY DEF OwnershipInv
<1>2. /\ pc'[w] = "idle"
      /\ \A v \in Workers \ {w} :
           pc'[v] = pc[v] /\ call'[v] = call[v] /\ snap'[v] = snap[v]
  BY <1>1 DEF Return, TypeOK
<1> QED
  BY <1>2 DEF LeaseInv, OneInference, Attached, Reading, LiveAt

\* A transaction that opens while no lease is running starts with a true promise.
LEMMA LeaseRead ==
  ASSUME OwnershipInv, LeaseInv, OneInference, NEW w \in Workers, NEW c \in Call,
         NEW r \in Requests, NEW phase \in Reading, Enter(w, phase, c, r),
         UNCHANGED <<clock, tokens, tables>>, ~LiveAt(session.last, clock)
  PROVE  LeaseInv' /\ OneInference'
<1>1. TypeOK /\ clock \in Int
  BY DEF OwnershipInv, TypeOK
<1>2. /\ pc'[w] = phase /\ snap'[w].now = clock /\ snap'[w].last = session.last
      /\ \A v \in Workers \ {w} :
           pc'[v] = pc[v] /\ call'[v] = call[v] /\ snap'[v] = snap[v]
      /\ UNCHANGED <<clock, session>>
  BY <1>1 DEF Enter, Read, TypeOK, tables
<1>3. phase # "model"
  BY DEF Reading
<1> QED
  BY <1>1, <1>2, <1>3, LimitsAssumption DEF LeaseInv, OneInference, Attached, LiveAt

\* A creation's task is alone with its session, and its lease begins now.
LEMMA LeaseStart ==
  ASSUME OwnershipInv, LeaseInv, OneInference, NEW w \in Workers, NEW body \in Bodies,
         StartCreate(w, body)
  PROVE  LeaseInv' /\ OneInference'
<1>1. TypeOK /\ clock \in Int /\ tokens \in Nat
  BY DEF OwnershipInv, TypeOK
<1>2. /\ pc' = [pc EXCEPT ![w] = "model"] /\ UNCHANGED clock
      /\ session'.id = tokens + 1 /\ session'.last.token = tokens + 1
      /\ session'.last.lease = clock + Lease
      /\ snap' = [snap EXCEPT ![w] = [NoSnapshot EXCEPT !.id = tokens + 1, !.now = clock]]
      /\ call'[w].token = tokens + 1
      /\ \A v \in Workers \ {w} : call'[v] = call[v]
  BY <1>1 DEF StartCreate, NoSession, TypeOK
<1>3. /\ pc'[w] = "model" /\ snap'[w].now = clock /\ snap'[w].id = tokens + 1
      /\ \A v \in Workers \ {w} : pc'[v] = pc[v] /\ snap'[v] = snap[v]
  BY <1>1, <1>2 DEF TypeOK, NoSnapshot
<1>4. \A v \in Workers \ {w} : pc'[v] # "idle" => snap'[v].id # tokens + 1
  BY <1>1, <1>3 DEF OwnershipInv, TokensFresh
<1>5. OneInference'
  BY <1>3, <1>4 DEF OneInference
<1> QED
  BY <1>1, <1>2, <1>3, <1>4, <1>5, LimitsAssumption
     DEF LeaseInv, Attached, Reading, LiveAt

\* Every step keeps the leases apart.
LEMMA LeaseStep ==
  ASSUME LeaseCovers
  PROVE  OwnershipInv /\ LeaseInv /\ OneInference /\ [Next]_vars
           => LeaseInv' /\ OneInference'
<1> SUFFICES ASSUME OwnershipInv, LeaseInv, OneInference, [Next]_vars
             PROVE  LeaseInv' /\ OneInference'
  OBVIOUS
<1>1. TypeOK /\ session \in Session /\ session.last \in LastOperation /\ clock \in Int
  BY DEF OwnershipInv, TypeOK, Session
<1>2. ASSUME NEW w \in Workers, Receive(w) PROVE LeaseInv' /\ OneInference'
  <2>1. CASE \E body \in Bodies : StartCreate(w, body)
    BY <2>1, LeaseStart
  <2>2. ASSUME NEW r \in Requests, NEW c, NEW phase \in Reading,
               Enter(w, phase, c, r), UNCHANGED <<clock, tokens, tables>>,
               ~LiveAt(session.last, clock)
        PROVE  LeaseInv' /\ OneInference'
    <3>1. c \in Call
      BY <2>2, StepType DEF OwnershipInv, TypeOK, Enter
    <3> QED
      BY <2>2, <3>1, LeaseRead
  <2>3. ASSUME NEW r \in Requests, NEW base \in 0 .. session.revision,
               \/ \E question \in 0 .. Len(turns) : AnswerRead(w, r, base, question)
               \/ GenerateRead(w, r, base)
               \/ \E accept, reject \in SUBSET (session.proposed \cup session.confirmed) :
                    ConfirmRead(w, r, base, accept, reject)
               \/ ApplyRead(w, r, base)
               \/ \E payload \in Bodies \cup 0 .. Len(turns) :
                    RetryRead(w, r, [NoInput EXCEPT !.base = base, !.payload = payload])
        PROVE  LeaseInv' /\ OneInference'
    <3>1. {"claim", "reclaim", "confirm", "apply"} \subseteq Reading
      BY DEF Reading
    <3> QED
      BY <2>2, <2>3, <3>1
         DEF AnswerRead, GenerateRead, ConfirmRead, ApplyRead, RetryRead
  <2> QED
    BY <1>2, <2>1, <2>3 DEF Receive
<1>3. ASSUME NEW w \in Workers, ClaimAnswer(w) \/ ClaimGeneration(w) \/ Reclaim(w)
      PROVE  LeaseInv' /\ OneInference'
  BY <1>3, LeaseClaim DEF ClaimAnswer, ClaimGeneration, Reclaim
<1>4. ASSUME NEW w \in Workers, Confirm(w) PROVE LeaseInv' /\ OneInference'
  <2>1. pc[w] = "confirm" /\ ClaimHolds(w) /\ Return(w) /\ UNCHANGED clock
    BY <1>4 DEF Confirm
  <2>2. session'.id = session.id
    <3>1. tokens + 1 \in Nat /\ call[w].kind \in Kinds
      BY <1>1, <2>1 DEF TypeOK, Call
    <3>2. ClaimedSession(w, tokens + 1) \in Session
          /\ ClaimedSession(w, tokens + 1).id = session.id
      BY <1>1, <3>1, ClaimedTypes, ClaimedFields
    <3> QED
      BY <1>4, <3>2 DEF Confirm, Session
  <2>3. \A v \in Workers : pc[v] = "model" => snap[v].id # session'.id
    BY <2>1, <2>2, NoRival
  <2> QED
    BY <2>1, <2>3, LeaseReturn
<1>5. ASSUME NEW w \in Workers,
             \/ Apply(w) \/ RecordFailure(w) \/ Refused(w) \/ Crash(w)
             \/ \E slots \in SUBSET Slots, ready \in BOOLEAN,
                   scope \in Scopes \cup {NoScope} : FinishReply(w, slots, ready, scope)
             \/ \E workflow \in Scopes : FinishGeneration(w, workflow)
      PROVE  LeaseInv' /\ OneInference'
  <2>1. Return(w) /\ UNCHANGED clock
    BY <1>5 DEF Apply, RecordFailure, Refused, Crash, FinishReply, FinishGeneration, tables
  <2>2. /\ session'.id = session.id /\ session'.last.token = session.last.token
        /\ session'.last.lease = session.last.lease
    <3>1. CASE Refused(w) \/ Crash(w)
      BY <3>1 DEF Refused, Crash, tables
    <3>2. CASE Apply(w)
      BY <1>1, <3>2 DEF Apply, Session
    <3>3. CASE RecordFailure(w)
      BY <1>1, <3>3 DEF RecordFailure, Session, LastOperation
    <3>4. CASE \E slots \in SUBSET Slots, ready \in BOOLEAN,
                 scope \in Scopes \cup {NoScope} : FinishReply(w, slots, ready, scope)
      BY <1>1, <3>4 DEF FinishReply, Session, LastOperation
    <3>5. CASE \E workflow \in Scopes : FinishGeneration(w, workflow)
      BY <1>1, <3>5 DEF FinishGeneration, Session, LastOperation
    <3> QED
      BY <1>5, <3>1, <3>2, <3>3, <3>4, <3>5
  <2> QED
    BY <2>1, <2>2, LeaseReturn
<1>6. ASSUME NEW w \in Workers, ReplyRead(w) \/ ErrorRead(w)
      PROVE  LeaseInv' /\ OneInference'
  <2>1. /\ pc'[w] \in {"finish", "fail"} /\ UNCHANGED <<clock, session, call>>
        /\ \A v \in Workers \ {w} : pc'[v] = pc[v] /\ snap'[v] = snap[v]
    BY <1>1, <1>6 DEF ReplyRead, ErrorRead, TypeOK, tables
  <2> QED
    BY <2>1 DEF LeaseInv, OneInference, Attached, Reading, LiveAt
<1>7. CASE Delete \/ Cleanup
  <2>1. /\ session'.id = 0 /\ UNCHANGED <<clock, pc, call, snap>>
    BY <1>7 DEF Delete, Cleanup, RemoveRows, NoSession
  <2>2. \A v \in Workers : ~Attached(v)'
    BY <2>1 DEF OwnershipInv, TokensFresh, Attached
  <2> QED
    BY <2>1, <2>2 DEF LeaseInv, OneInference, LiveAt
<1>8. CASE Tick
  <2>1. /\ clock' = clock + 1 /\ UNCHANGED <<session, pc, call, snap>>
        /\ \A w \in Workers : pc[w] \in {"claim", "reclaim"} => clock < snap[w].now + TxTime
        /\ \A w \in Workers : pc[w] = "model" => clock < snap[w].now + Deadline
    BY <1>8 DEF Tick, tables
  <2>2. \A w \in Workers : snap[w].now \in Int
    BY <1>1 DEF TypeOK, Snapshot
  <2> QED
    BY <1>1, <2>1, <2>2, LimitsAssumption
       DEF LeaseInv, OneInference, Attached, Reading, LiveAt
<1>9. CASE UNCHANGED vars
  BY <1>9 DEF vars, tables, LeaseInv, OneInference, Attached, LiveAt
<1> QED
  BY <1>2, <1>3, <1>4, <1>5, <1>6, <1>7, <1>8, <1>9 DEF Next, Proceed

\* At most one task waits for the model on behalf of an interview, whatever crashes,
\* retries and deletions happen, if the lease covers a claim and an inference.
THEOREM OneInferenceHolds ==
  ASSUME LeaseCovers
  PROVE  Spec => []OneInference
<1>1. Init => LeaseInv /\ OneInference
  BY DEF Init, LeaseInv, OneInference, Reading
<1> QED
  BY <1>1, LeaseStep, Ownership, PTL DEF Spec

-----------------------------------------------------------------------------
(* The rows: turns, evidence, proposals *)

\* Only task w moves.
OnlyMoves(w) ==
  \A v \in Workers \ {w} : pc'[v] = pc[v] /\ call'[v] = call[v] /\ snap'[v] = snap[v]

\* Only the operation of request r changes.
OnlyOp(r) == \A s \in Requests \ {r} : ops'[s] = ops[s]

\* The turns of a role that request r stored.
StoredIn(ts, role, r) == {i \in DOMAIN ts : ts[i].role = role /\ ts[i].request = r}

\* The drafts of a revision.
DraftsAt(ps, revision) ==
  {r \in Requests : ps[r].status = "draft" /\ ps[r].revision = revision}

\* A turn that is appended is one more turn of its role and request, and of no other.
LEMMA StoredAppend ==
  ASSUME NEW ts \in Seq(Turn), NEW t \in Turn
  PROVE  \A role, r :
           Cardinality(StoredIn(Append(ts, t), role, r)) =
             IF t.role = role /\ t.request = r
             THEN Cardinality(StoredIn(ts, role, r)) + 1
             ELSE Cardinality(StoredIn(ts, role, r))
<1> TAKE role, r
<1> DEFINE us == Append(ts, t)
           old == StoredIn(ts, role, r)
<1>1. /\ Len(ts) \in Nat /\ Len(us) = Len(ts) + 1
      /\ DOMAIN ts = 1 .. Len(ts) /\ DOMAIN us = 1 .. Len(ts) + 1
      /\ us[Len(ts) + 1] = t /\ \A i \in 1 .. Len(ts) : us[i] = ts[i]
  OBVIOUS
<1> HIDE DEF us
<1>2. StoredIn(us, role, r) = IF t.role = role /\ t.request = r
                              THEN old \cup {Len(ts) + 1} ELSE old
  BY <1>1 DEF StoredIn
<1>3. IsFiniteSet(old)
  <2>1. old \subseteq 1 .. Len(ts)
    BY <1>1 DEF StoredIn
  <2>2. IsFiniteSet(1 .. Len(ts))
    BY <1>1, FS_Interval
  <2> QED
    BY <2>1, <2>2, FS_Subset
<1>4. Len(ts) + 1 \notin old
  BY <1>1 DEF StoredIn
<1> HIDE DEF old
<1>5. Cardinality(old \cup {Len(ts) + 1}) = Cardinality(old) + 1
  BY <1>3, <1>4, FS_AddElement
<1> QED
  BY <1>2, <1>5 DEF us, old

\* What OneTurnEach says of the turns ts and the operations os.
OneTurn(ts, os) ==
  \A r \in Requests :
    /\ Cardinality(StoredIn(ts, "user", r)) = IF os[r].kind = "answer" THEN 1 ELSE 0
    /\ Cardinality(StoredIn(ts, "assistant", r)) =
         IF os[r].kind \in {"start", "answer"} /\ os[r].status = "succeeded" THEN 1 ELSE 0

\* What ProposalIsCurrent says of the proposals ps at a revision.
DraftsCurrent(ps, revision, confirmed) ==
  /\ Cardinality(DraftsAt(ps, revision)) <= 1
  /\ \A r \in DraftsAt(ps, revision) : ps[r].facts = confirmed

\* The two invariants are these two, before and after a step.
LEMMA OneTurnForm == /\ OneTurnEach <=> OneTurn(turns, ops)
                     /\ OneTurnEach' <=> OneTurn(turns', ops')
  BY DEF OneTurnEach, OneTurn, StoredIn
LEMMA DraftsForm ==
  /\ ProposalIsCurrent <=> DraftsCurrent(proposals, session.revision, session.confirmed)
  /\ ProposalIsCurrent' <=> DraftsCurrent(proposals', session'.revision, session'.confirmed)
  BY DEF ProposalIsCurrent, DraftsCurrent, DraftsAt

\* What EvidenceDecidedOnce says of the operations os and the evidence of a session.
Confirmations(os) == {r \in Requests : os[r].kind = "confirmation"}
EvidenceOnce(os, confirmed, proposed) ==
  /\ \A e : e \in confirmed <=> \E r \in Confirmations(os) : e \in os[r].digest.accept
  /\ \A r, s \in Confirmations(os) : r # s =>
       \A e : e \in Decided(os[r].digest) => e \notin Decided(os[s].digest)
  /\ \A r \in Confirmations(os) : \A e \in Decided(os[r].digest) : e \notin proposed

\* What EvidenceFresh says of an item of evidence.
FreshItem(e) == /\ e[1] <= tokens
                /\ \A w \in Workers : pc[w] \in Owning => call[w].token # e[1]

LEMMA EvidenceForm ==
  /\ EvidenceDecidedOnce <=> EvidenceOnce(ops, session.confirmed, session.proposed)
  /\ EvidenceDecidedOnce' <=> EvidenceOnce(ops', session'.confirmed, session'.proposed)
<1>1. EvidenceDecidedOnce <=> EvidenceOnce(ops, session.confirmed, session.proposed)
  BY DEF EvidenceDecidedOnce, EvidenceOnce, Confirmations
<1>2. EvidenceDecidedOnce' <=> EvidenceOnce(ops', session'.confirmed, session'.proposed)
  BY DEF EvidenceDecidedOnce, EvidenceOnce, Confirmations, Decided
<1> QED
  BY <1>1, <1>2

LEMMA FreshForm ==
  /\ EvidenceFresh <=>
       /\ \A e \in session.proposed : FreshItem(e)
       /\ \A r \in Confirmations(ops) : \A e \in Decided(ops[r].digest) : FreshItem(e)
  /\ EvidenceFresh' <=>
       /\ \A e \in session'.proposed : FreshItem(e)'
       /\ \A r \in Confirmations(ops') : \A e \in Decided(ops'[r].digest) : FreshItem(e)'
<1>1. EvidenceFresh <=>
        /\ \A e \in session.proposed : FreshItem(e)
        /\ \A r \in Confirmations(ops) : \A e \in Decided(ops[r].digest) : FreshItem(e)
  BY DEF EvidenceFresh, FreshItem, Confirmations
<1>2. EvidenceFresh' <=>
        /\ \A e \in session'.proposed : FreshItem(e)'
        /\ \A r \in Confirmations(ops') : \A e \in Decided(ops'[r].digest) : FreshItem(e)'
  BY DEF EvidenceFresh, FreshItem, Confirmations, Decided
<1> QED
  BY <1>1, <1>2

\* OneTurnEach is kept when no turn is stored and no request becomes, or stops being,
\* an answer or a succeeded answer or creation.
LEMMA SameTurns ==
  ASSUME RowsInv, turns' = turns,
         \A r \in Requests :
           /\ ops'[r].kind = "answer" <=> ops[r].kind = "answer"
           /\ ops'[r].kind \in {"start", "answer"} /\ ops'[r].status = "succeeded"
                <=> ops[r].kind \in {"start", "answer"} /\ ops[r].status = "succeeded"
  PROVE  OneTurnEach'
  BY OneTurnForm DEF RowsInv, OneTurn

\* Empty tables and idle tasks satisfy the invariant.
LEMMA InitRows == Init => RowsInv
<1> SUFFICES ASSUME Init PROVE RowsInv
  OBVIOUS
<1>1. /\ pc = [w \in Workers |-> "idle"] /\ session = NoSession /\ turns = <<>>
      /\ ops = [r \in Requests |-> NoOp] /\ proposals = [r \in Requests |-> NoProposal]
  BY DEF Init
<1>2. /\ NoOp.kind = "none" /\ NoOp.status = "none"
      /\ NoSession.proposed = {} /\ NoSession.confirmed = {} /\ NoProposal.status = "none"
  BY DEF NoOp, NoSession, NoProposal
<1>3. OwnershipInv /\ Phases /\ ChoicesHold /\ EvidenceFresh /\ DraftsHold
  BY <1>1, <1>2, InitOwnership DEF Phases, ChoicesHold, EvidenceFresh, DraftsHold
<1>4. OneTurnEach
  BY <1>1, <1>2, FS_EmptySet DEF OneTurnEach
<1>5. ChoiceIsCurrent
  BY <1>1 DEF ChoiceIsCurrent
<1>6. EvidenceDecidedOnce
  BY <1>1, <1>2 DEF EvidenceDecidedOnce
<1>7. ProposalIsCurrent
  <2>1. DraftsAt(proposals, session.revision) = {}
    BY <1>1, <1>2 DEF DraftsAt
  <2> QED
    BY <2>1, FS_EmptySet, DraftsForm DEF DraftsCurrent
<1> QED
  BY <1>3, <1>4, <1>5, <1>6, <1>7 DEF RowsInv

\* A step that moves one handler and writes no row.
LEMMA QuietStep ==
  ASSUME RowsInv, OwnershipInv', UNCHANGED <<tokens, tables>>,
         NEW w \in Workers, OnlyMoves(w),
         pc'[w] = "claim" => /\ call'[w].kind \in {"answer", "proposal"}
                             /\ call'[w].kind = "answer" /\ call'[w].input.payload # 0
                                  => call'[w].input.payload = LatestQuestion(turns),
         pc'[w] = "reclaim" => call'[w].kind \in {"start", "answer", "proposal"},
         pc'[w] = "confirm" => call'[w].kind = "confirmation",
         pc'[w] \in Owning => pc[w] \in Owning /\ call'[w].token = call[w].token,
         pc'[w] = "finish" => snap'[w].confirmed = session.confirmed
  PROVE  RowsInv'
<1>1. UNCHANGED <<session, ops, turns, proposals>> /\ OnlyMoves(w)
  BY DEF tables
<1>2. Phases'
  BY <1>1 DEF RowsInv, Phases, OnlyMoves
<1>3. (OneTurnEach /\ ChoiceIsCurrent /\ EvidenceDecidedOnce /\ ProposalIsCurrent)'
  <2>1. OneTurnEach'
    BY <1>1, SameTurns
  <2>2. ChoiceIsCurrent'
    BY <1>1 DEF RowsInv, ChoiceIsCurrent
  <2>3. EvidenceDecidedOnce'
    BY <1>1 DEF RowsInv, EvidenceDecidedOnce
  <2>4. ProposalIsCurrent'
    BY <1>1, DraftsForm DEF RowsInv
  <2> QED
    BY <2>1, <2>2, <2>3, <2>4
<1>4. ChoicesHold'
  BY <1>1 DEF RowsInv, ChoicesHold, OnlyMoves, Attached
<1>5. EvidenceFresh'
  BY <1>1 DEF RowsInv, EvidenceFresh, OnlyMoves
<1>6. DraftsHold'
  BY <1>1 DEF RowsInv, DraftsHold, OnlyMoves, Attached
<1> QED
  BY <1>2, <1>3, <1>4, <1>5, <1>6 DEF RowsInv

\* What a claim or a retry commits: another owner, a running operation that was not
\* done, and for a new answer its turn.
LEMMA ClaimRows ==
  ASSUME RowsInv, TypeOK', NEW w \in Workers,
         ClaimAnswer(w) \/ ClaimGeneration(w) \/ Reclaim(w)
  PROVE  /\ OnlyMoves(w) /\ pc'[w] = "model" /\ call'[w].token = tokens + 1
         /\ tokens' = tokens + 1 /\ proposals' = proposals
         /\ session'.id = session.id /\ session'.revision = session.revision
         /\ session'.confirmed = session.confirmed /\ session'.proposed = session.proposed
         /\ session'.last.token = tokens + 1
         /\ LET r == call[w].request
            IN /\ r \in Requests /\ OnlyOp(r)
               /\ ops'[r].status = "running" /\ ops[r].status # "succeeded"
               /\ ops'[r].kind \in {"start", "answer", "proposal"}
               /\ \/ turns' = turns /\ ops[r].kind \in {"start", "answer", "proposal"}
                     /\ ops'[r].kind = ops[r].kind
                  \/ turns' = turns /\ ops[r].kind = "none" /\ ops'[r].kind = "proposal"
                  \/ /\ turns' = Append(turns, UserTurn(w)) /\ pc[w] = "claim"
                     /\ ops[r].kind = "none" /\ ops'[r].kind = "answer"
                     /\ call[w].kind = "answer"
         /\ ClaimHolds(w) /\ Attached(w)
<1> DEFINE r == call[w].request
           token == tokens + 1
<1>1. TypeOK /\ call[w] \in Call /\ session \in Session /\ r \in Requests
      /\ ops \in [Requests -> Op] /\ token \in Nat
  BY DEF RowsInv, OwnershipInv, TypeOK, Call
<1>2. /\ session' = ClaimedSession(w, token) /\ tokens' = token
      /\ AwaitModel(w, token) /\ ClaimHolds(w) /\ proposals' = proposals
      /\ pc[w] \in {"claim", "reclaim"}
  BY DEF ClaimAnswer, ClaimGeneration, Reclaim
<1>3. /\ session'.id = session.id /\ session'.revision = session.revision
      /\ session'.confirmed = session.confirmed /\ session'.proposed = session.proposed
      /\ session'.last.token = token
  BY <1>1, <1>2 DEF ClaimedSession, Session
<1>4. OnlyMoves(w) /\ pc'[w] = "model" /\ call'[w].token = token
  BY <1>1, <1>2 DEF AwaitModel, TypeOK, OnlyMoves, Call
<1>5. Attached(w) /\ session.last = snap[w].last
  BY <1>2 DEF ClaimHolds, Attached
<1>6. ops[r] = snap[w].op
  <2>1. ReadsHold /\ pc[w] \in Reading
    BY <1>2 DEF RowsInv, OwnershipInv, Reading
  <2> QED
    BY <2>1, <1>5 DEF ReadsHold
<1>7. CASE Reclaim(w)
  <2>1. /\ pc[w] = "reclaim" /\ turns' = turns
        /\ ops' = [ops EXCEPT ![r] = ReclaimedOperation(w, token)]
    BY <1>7 DEF Reclaim
  <2>2. /\ ReclaimedOperation(w, token).status = "running"
        /\ ReclaimedOperation(w, token).kind = ops[r].kind
    BY <1>1 DEF ReclaimedOperation, Op
  <2>3. /\ ops[r].kind \in {"start", "answer", "proposal"} /\ ops[r].status # "succeeded"
    BY <2>1, <1>6 DEF RowsInv, Phases, OwnershipInv, ReadsHold
  <2> QED
    BY <1>1, <1>2, <1>3, <1>4, <1>5, <2>1, <2>2, <2>3 DEF OnlyOp
<1>8. CASE ClaimAnswer(w) \/ ClaimGeneration(w)
  <2>1. /\ pc[w] = "claim" /\ ops' = [ops EXCEPT ![r] = NewOperation(w, token)]
        /\ \/ call[w].kind = "answer" /\ turns' = Append(turns, UserTurn(w))
           \/ call[w].kind = "proposal" /\ turns' = turns
    BY <1>8 DEF ClaimAnswer, ClaimGeneration
  <2>2. /\ NewOperation(w, token).status = "running"
        /\ NewOperation(w, token).kind = call[w].kind
    BY DEF NewOperation
  <2>3. ops[r].status = "none" /\ ops[r].kind = "none"
    BY <1>1, <2>1, <1>6 DEF RowsInv, Phases, OwnershipInv, ReadsHold
  <2> QED
    BY <1>1, <1>2, <1>3, <1>4, <1>5, <2>1, <2>2, <2>3 DEF OnlyOp
<1> QED
  BY <1>7, <1>8

\* An operation gets another status.
EndsAs(r, status) == ops' = [ops EXCEPT ![r].status = status]

\* What the end of an operation commits: the operation was running, it keeps all but
\* its status, and its task is gone.
LEMMA EndRows ==
  ASSUME RowsInv, TypeOK', NEW w \in Workers,
         pc[w] \in Owning, Attached(w), session.last.token = call[w].token,
         NEW status \in OpStatus,
         EndsAs(call[w].request, status), Return(w)
  PROVE  /\ OnlyMoves(w) /\ pc'[w] = "idle"
         /\ LET r == call[w].request
            IN /\ r \in Requests /\ OnlyOp(r)
               /\ ops[r].status = "running" /\ ops[r].kind = call[w].kind
               /\ ops'[r].status = status /\ ops'[r].kind = ops[r].kind
               /\ ops'[r].digest = ops[r].digest
<1> DEFINE r == call[w].request
<1>1. /\ TypeOK /\ r \in Requests /\ ops \in [Requests -> Op]
  BY DEF RowsInv, OwnershipInv, TypeOK, Call
<1>2. OnlyMoves(w) /\ pc'[w] = "idle"
  BY <1>1 DEF Return, TypeOK, OnlyMoves
<1>3. session.id # 0
  BY <1>1 DEF RowsInv, OwnershipInv, TokensFresh, Attached
<1>4. /\ session.last.status = "running" /\ session.last.request = r
      /\ session.last.kind = call[w].kind
  BY DEF RowsInv, OwnershipInv, OwnersRun
<1>5. ops[r].status = "running" /\ ops[r].kind = call[w].kind
  BY <1>3, <1>4 DEF RowsInv, OwnershipInv, OwnerAgrees
<1> QED
  BY <1>1, <1>2, <1>5 DEF OnlyOp, Op, EndsAs

\* Every row that EndRows speaks of, when a reply is stored.
LEMMA ReplyRows ==
  ASSUME RowsInv, TypeOK', NEW w \in Workers, NEW slots \in SUBSET Slots,
         NEW ready \in BOOLEAN, NEW scope \in Scopes \cup {NoScope},
         FinishReply(w, slots, ready, scope)
  PROVE  /\ pc[w] = "finish" /\ Attached(w) /\ session.last.token = call[w].token
         /\ call[w].kind \in {"start", "answer"}
         /\ EndsAs(call[w].request, "succeeded") /\ Return(w)
         /\ turns' = Append(turns, AssistantTurn(w))
         /\ tokens' = tokens /\ proposals' = proposals
         /\ session'.id = session.id /\ session'.revision = session.revision + 1
         /\ session'.confirmed = session.confirmed
         /\ \A e \in session'.proposed : e[1] = call[w].token
         /\ session'.last.token = session.last.token
<1>1. session \in Session
  BY DEF RowsInv, OwnershipInv, TypeOK
<1>2. /\ session' = [session EXCEPT
          !.revision = call[w].input.base + 1,
          !.status = IF {call[w].token} \X slots # {} THEN "awaiting-confirmation"
                     ELSE IF ready THEN "completed" ELSE "active",
          !.scope = scope, !.proposed = {call[w].token} \X slots,
          !.last.status = "succeeded", !.expires = snap[w].now + Retention]
      /\ FinishHolds(w) /\ pc[w] = "finish" /\ call[w].kind \in {"start", "answer"}
      /\ EndsAs(call[w].request, "succeeded") /\ Return(w)
      /\ turns' = Append(turns, AssistantTurn(w))
      /\ tokens' = tokens /\ proposals' = proposals
  BY DEF FinishReply, Succeed, EndsAs
<1>3. /\ session'.id = session.id /\ session'.revision = call[w].input.base + 1
      /\ session'.confirmed = session.confirmed
      /\ session'.proposed = {call[w].token} \X slots
      /\ session'.last.token = session.last.token
  BY <1>1, <1>2 DEF Session, LastOperation
<1>4. \A e \in {call[w].token} \X slots : e[1] = call[w].token
  OBVIOUS
<1> QED
  BY <1>2, <1>3, <1>4 DEF FinishHolds, Attached

\* The same for a stored proposal.
LEMMA GenerationRows ==
  ASSUME RowsInv, TypeOK', NEW w \in Workers, NEW workflow \in Scopes,
         FinishGeneration(w, workflow)
  PROVE  /\ pc[w] = "finish" /\ Attached(w) /\ session.last.token = call[w].token
         /\ call[w].kind = "proposal"
         /\ EndsAs(call[w].request, "succeeded") /\ Return(w)
         /\ turns' = turns /\ tokens' = tokens
         /\ proposals' = [proposals EXCEPT ![call[w].request] =
              [status |-> "draft", revision |-> session.revision + 1,
               facts |-> snap[w].confirmed, workflow |-> workflow]]
         /\ session'.id = session.id /\ session'.revision = session.revision + 1
         /\ session'.confirmed = session.confirmed
         /\ session'.proposed = session.proposed
         /\ session'.last.token = session.last.token
<1>1. session \in Session
  BY DEF RowsInv, OwnershipInv, TypeOK
<1>2. /\ session' = [session EXCEPT
          !.revision = call[w].input.base + 1, !.status = "completed",
          !.last.status = "succeeded", !.expires = snap[w].now + Retention]
      /\ proposals' = [proposals EXCEPT ![call[w].request] =
              [status |-> "draft", revision |-> call[w].input.base + 1,
               facts |-> snap[w].confirmed, workflow |-> workflow]]
      /\ FinishHolds(w) /\ pc[w] = "finish" /\ call[w].kind = "proposal"
      /\ EndsAs(call[w].request, "succeeded") /\ Return(w)
      /\ turns' = turns /\ tokens' = tokens
  BY DEF FinishGeneration, Succeed, EndsAs
<1>3. /\ session'.id = session.id /\ session'.revision = call[w].input.base + 1
      /\ session'.confirmed = session.confirmed /\ session'.proposed = session.proposed
      /\ session'.last.token = session.last.token
  BY <1>1, <1>2 DEF Session, LastOperation
<1> QED
  BY <1>2, <1>3 DEF FinishHolds, Attached

\* The same for a failure, which leaves all but the status.
LEMMA FailureRows ==
  ASSUME RowsInv, TypeOK', NEW w \in Workers, RecordFailure(w)
  PROVE  /\ pc[w] = "fail" /\ Attached(w) /\ session.last.token = call[w].token
         /\ EndsAs(call[w].request, "failed") /\ Return(w)
         /\ turns' = turns /\ tokens' = tokens /\ proposals' = proposals
         /\ session'.id = session.id /\ session'.revision = session.revision
         /\ session'.confirmed = session.confirmed
         /\ session'.proposed = session.proposed
         /\ session'.last.token = session.last.token
<1>1. session \in Session
  BY DEF RowsInv, OwnershipInv, TypeOK
<1>2. /\ session' = [session EXCEPT !.last.status = "failed"]
      /\ FailureHolds(w) /\ pc[w] = "fail"
      /\ EndsAs(call[w].request, "failed") /\ Return(w)
      /\ turns' = turns /\ tokens' = tokens /\ proposals' = proposals
  BY DEF RecordFailure, EndsAs
<1>3. /\ session'.id = session.id /\ session'.revision = session.revision
      /\ session'.confirmed = session.confirmed /\ session'.proposed = session.proposed
      /\ session'.last.token = session.last.token
  BY <1>1, <1>2 DEF Session, LastOperation
<1> QED
  BY <1>2, <1>3 DEF FailureHolds, Attached

\* A confirmation: a new operation, done at once, whose items were proposed.
LEMMA ConfirmRows ==
  ASSUME RowsInv, TypeOK', NEW w \in Workers, Confirm(w)
  PROVE  /\ OnlyMoves(w) /\ pc'[w] = "idle"
         /\ tokens' = tokens + 1 /\ proposals' = proposals /\ turns' = turns
         /\ session'.id = session.id /\ session'.revision = session.revision + 1
         /\ session'.confirmed = session.confirmed \cup call[w].input.accept
         /\ session'.proposed = session.proposed \ Decided(call[w].input)
         /\ Decided(call[w].input) \subseteq session.proposed
         /\ session'.last.token = tokens + 1
         /\ LET r == call[w].request
            IN /\ r \in Requests /\ OnlyOp(r)
               /\ ops[r].status = "none" /\ ops[r].kind = "none"
               /\ ops'[r].status = "succeeded" /\ ops'[r].kind = "confirmation"
               /\ ops'[r].digest = call[w].input
<1> DEFINE r == call[w].request
           token == tokens + 1
           row == ClaimedSession(w, token)
           op == [NewOperation(w, token) EXCEPT !.status = "succeeded",
                                                !.lease = snap[w].now]
<1>1. TypeOK /\ call[w] \in Call /\ session \in Session /\ r \in Requests
      /\ ops \in [Requests -> Op] /\ token \in Nat
  BY DEF RowsInv, OwnershipInv, TypeOK, Call
<1>2. /\ session' = [row EXCEPT
           !.confirmed = ConfirmedAfter(w),
           !.proposed = session.proposed \ Decided(call[w].input),
           !.revision = session.revision + 1,
           !.status = IF session.proposed \ Decided(call[w].input) # {}
                      THEN "awaiting-confirmation" ELSE "active",
           !.last.status = "succeeded", !.last.lease = snap[w].now]
      /\ ops' = [ops EXCEPT ![r] = op]
      /\ Return(w) /\ pc[w] = "confirm" /\ ClaimHolds(w) /\ Decidable(w)
      /\ tokens' = token /\ proposals' = proposals /\ turns' = turns
  BY DEF Confirm
<1>3. OnlyMoves(w) /\ pc'[w] = "idle"
  BY <1>1, <1>2 DEF Return, TypeOK, OnlyMoves
<1>4. Attached(w) /\ session.last = snap[w].last
  BY <1>2 DEF ClaimHolds, Attached
<1>5. ops[r] = snap[w].op /\ ops[r].status = "none"
  <2>1. ReadsHold /\ pc[w] \in Reading
    BY <1>2 DEF RowsInv, OwnershipInv, Reading
  <2> QED
    BY <2>1, <1>2, <1>4 DEF ReadsHold
<1>6. ops[r].kind = "none" /\ call[w].kind = "confirmation"
  BY <1>1, <1>2, <1>5 DEF RowsInv, Phases
<1>7. row \in Session
  <2>1. call[w].kind \in Kinds
    BY <1>6 DEF Kinds
  <2> QED
    BY <1>1, <2>1, ClaimedTypes
<1>8. row.id = session.id /\ row.last.token = token
  <2>1. /\ row.id = session.id
        /\ row.last = [request |-> r, kind |-> call[w].kind, status |-> "running",
                       token |-> token, base |-> call[w].input.base,
                       lease |-> snap[w].now + Lease]
    BY <1>1, ClaimedFields
  <2> HIDE DEF row
  <2> QED
    BY <2>1
<1>9. op.status = "succeeded" /\ op.kind = "confirmation" /\ op.digest = call[w].input
  BY <1>6 DEF NewOperation
<1> HIDE DEF row, op
<1>10. /\ session'.id = session.id /\ session'.revision = session.revision + 1
       /\ session'.confirmed = ConfirmedAfter(w)
       /\ session'.proposed = session.proposed \ Decided(call[w].input)
       /\ session'.last.token = token
  BY <1>2, <1>7, <1>8 DEF Session, LastOperation
<1> QED
  BY <1>1, <1>2, <1>3, <1>5, <1>6, <1>9, <1>10 DEF OnlyOp, Decidable, ConfirmedAfter

\* An application: a draft becomes accepted, and the revision moves on.
LEMMA ApplyRows ==
  ASSUME RowsInv, TypeOK', NEW w \in Workers, Apply(w)
  PROVE  /\ OnlyMoves(w) /\ pc'[w] = "idle" /\ call[w].request \in Requests
         /\ UNCHANGED <<tokens, turns, ops>>
         /\ proposals' = [proposals EXCEPT ![call[w].request].status = "accepted"]
         /\ session'.id = session.id /\ session'.revision = session.revision + 1
         /\ session'.confirmed = session.confirmed
         /\ session'.proposed = session.proposed
         /\ session'.last = session.last
<1>1. TypeOK /\ session \in Session /\ call[w] \in Call
  BY DEF RowsInv, OwnershipInv, TypeOK
<1>2. /\ session' = [session EXCEPT !.revision = session.revision + 1,
                                   !.expires = snap[w].now + Retention]
      /\ proposals' = [proposals EXCEPT ![call[w].request].status = "accepted"]
      /\ Return(w) /\ UNCHANGED <<tokens, turns, ops>>
  BY DEF Apply
<1>3. OnlyMoves(w) /\ pc'[w] = "idle" /\ call[w].request \in Requests
  BY <1>1, <1>2 DEF Return, TypeOK, OnlyMoves, Call
<1> QED
  BY <1>1, <1>2, <1>3 DEF Session

\* A retried request stores no second turn.
LEMMA OneTurnClaim ==
  ASSUME RowsInv, TypeOK', NEW w \in Workers,
         ClaimAnswer(w) \/ ClaimGeneration(w) \/ Reclaim(w)
  PROVE  OneTurnEach'
<1> DEFINE r == call[w].request
<1>1. /\ r \in Requests /\ OnlyOp(r)
      /\ ops'[r].status = "running" /\ ops[r].status # "succeeded"
      /\ ops'[r].kind \in {"start", "answer", "proposal"}
      /\ \/ turns' = turns /\ ops'[r].kind = ops[r].kind
         \/ turns' = turns /\ ops[r].kind = "none" /\ ops'[r].kind = "proposal"
         \/ /\ turns' = Append(turns, UserTurn(w))
            /\ ops[r].kind = "none" /\ ops'[r].kind = "answer"
  BY ClaimRows
<1>2. CASE turns' = turns
  <2>1. \A s \in Requests :
           /\ ops'[s].kind = "answer" <=> ops[s].kind = "answer"
           /\ ops'[s].kind \in {"start", "answer"} /\ ops'[s].status = "succeeded"
                <=> ops[s].kind \in {"start", "answer"} /\ ops[s].status = "succeeded"
    <3> TAKE s \in Requests
    <3>1. CASE s = r
      <4>1. turns # Append(turns, UserTurn(w))
        <5>1. turns \in Seq(Turn)
          BY DEF RowsInv, OwnershipInv, TypeOK
        <5> QED
          BY <5>1
      <4> QED
        BY <3>1, <1>1, <1>2, <4>1
    <3>2. CASE s # r
      BY <3>2, <1>1 DEF OnlyOp
    <3> QED
      BY <3>1, <3>2
  <2> QED
    BY <1>2, <2>1, SameTurns
<1>3. CASE turns' = Append(turns, UserTurn(w)) /\ ops[r].kind = "none" /\ ops'[r].kind = "answer"
  <2>1. turns \in Seq(Turn) /\ call[w] \in Call /\ snap[w] \in Snapshot
    BY DEF RowsInv, OwnershipInv, TypeOK
  <2>2. UserTurn(w) \in Turn /\ UserTurn(w).role = "user" /\ UserTurn(w).request = r
    BY <2>1 DEF UserTurn, Turn, Call, Input, Snapshot
  <2>3. \A role, s :
           Cardinality(StoredIn(turns', role, s)) =
             IF role = "user" /\ s = r
             THEN Cardinality(StoredIn(turns, role, s)) + 1
             ELSE Cardinality(StoredIn(turns, role, s))
    BY <1>3, <2>1, <2>2, StoredAppend
  <2>4. \A s \in Requests :
          /\ Cardinality(StoredIn(turns, "user", s)) = IF ops[s].kind = "answer" THEN 1 ELSE 0
          /\ Cardinality(StoredIn(turns, "assistant", s)) =
               IF ops[s].kind \in {"start", "answer"} /\ ops[s].status = "succeeded"
               THEN 1 ELSE 0
    BY OneTurnForm DEF RowsInv, OneTurn
  <2>5. \A s \in Requests :
          /\ Cardinality(StoredIn(turns', "user", s)) = IF ops'[s].kind = "answer" THEN 1 ELSE 0
          /\ Cardinality(StoredIn(turns', "assistant", s)) =
               IF ops'[s].kind \in {"start", "answer"} /\ ops'[s].status = "succeeded"
               THEN 1 ELSE 0
    BY <1>1, <1>3, <2>3, <2>4 DEF OnlyOp
  <2> QED
    BY <2>5, OneTurnForm DEF OneTurn
<1> QED
  BY <1>1, <1>2, <1>3

\* The reply of a running operation is its first.
LEMMA OneTurnReply ==
  ASSUME RowsInv, TypeOK', NEW w \in Workers, NEW slots \in SUBSET Slots,
         NEW ready \in BOOLEAN, NEW scope \in Scopes \cup {NoScope},
         FinishReply(w, slots, ready, scope)
  PROVE  OneTurnEach'
<1> DEFINE r == call[w].request
<1>1. /\ pc[w] \in Owning /\ Attached(w) /\ session.last.token = call[w].token
      /\ EndsAs(r, "succeeded") /\ Return(w)
      /\ turns' = Append(turns, AssistantTurn(w)) /\ call[w].kind \in {"start", "answer"}
  <2>1. /\ pc[w] = "finish" /\ Attached(w) /\ session.last.token = call[w].token
        /\ EndsAs(r, "succeeded") /\ Return(w)
        /\ turns' = Append(turns, AssistantTurn(w)) /\ call[w].kind \in {"start", "answer"}
    BY ReplyRows
  <2> QED
    BY <2>1 DEF Owning
<1>2. /\ r \in Requests /\ OnlyOp(r) /\ ops[r].status = "running"
      /\ ops[r].kind = call[w].kind
      /\ ops'[r].status = "succeeded" /\ ops'[r].kind = ops[r].kind
  <2>1. "succeeded" \in OpStatus
    BY DEF OpStatus
  <2> QED
    BY <1>1, <2>1, EndRows
<1>3. turns \in Seq(Turn) /\ call[w] \in Call /\ snap[w] \in Snapshot
  BY DEF RowsInv, OwnershipInv, TypeOK
<1>4. AssistantTurn(w) \in Turn /\ AssistantTurn(w).role = "assistant"
      /\ AssistantTurn(w).request = r
  BY <1>3 DEF AssistantTurn, Turn, Call, Snapshot
<1>5. \A role, s :
        Cardinality(StoredIn(turns', role, s)) =
          IF role = "assistant" /\ s = r
          THEN Cardinality(StoredIn(turns, role, s)) + 1
          ELSE Cardinality(StoredIn(turns, role, s))
  BY <1>1, <1>3, <1>4, StoredAppend
<1>6. \A s \in Requests :
        /\ Cardinality(StoredIn(turns, "user", s)) = IF ops[s].kind = "answer" THEN 1 ELSE 0
        /\ Cardinality(StoredIn(turns, "assistant", s)) =
             IF ops[s].kind \in {"start", "answer"} /\ ops[s].status = "succeeded"
             THEN 1 ELSE 0
  BY OneTurnForm DEF RowsInv, OneTurn
<1>7. \A s \in Requests :
        /\ Cardinality(StoredIn(turns', "user", s)) = IF ops'[s].kind = "answer" THEN 1 ELSE 0
        /\ Cardinality(StoredIn(turns', "assistant", s)) =
             IF ops'[s].kind \in {"start", "answer"} /\ ops'[s].status = "succeeded"
             THEN 1 ELSE 0
  BY <1>1, <1>2, <1>5, <1>6 DEF OnlyOp
<1> QED
  BY <1>7, OneTurnForm DEF OneTurn

\* A turn that is appended leaves the turns before the others as they are.
LEMMA ChoiceAppend ==
  ASSUME RowsInv, NEW t \in Turn, turns' = Append(turns, t),
         t.question # 0 => t.question = LatestQuestion(turns)
  PROVE  ChoiceIsCurrent'
<1>1. turns \in Seq(Turn)
  BY DEF RowsInv, OwnershipInv, TypeOK
<1>2. /\ Len(turns) \in Nat /\ DOMAIN turns' = 1 .. Len(turns) + 1
      /\ DOMAIN turns = 1 .. Len(turns)
      /\ turns'[Len(turns) + 1] = t /\ \A i \in 1 .. Len(turns) : turns'[i] = turns[i]
  BY <1>1
<1>3. \A n \in 0 .. Len(turns) : SubSeq(turns', 1, n) = SubSeq(turns, 1, n)
  <2> TAKE n \in 0 .. Len(turns)
  <2>1. turns' \in Seq(Turn) /\ Len(turns') = Len(turns) + 1
    BY <1>1
  <2>2. \A i \in 1 .. n : turns'[1 + i - 1] = turns[1 + i - 1]
    BY <1>2
  <2>3. /\ SubSeq(turns', 1, n) \in Seq(Turn) /\ SubSeq(turns, 1, n) \in Seq(Turn)
        /\ Len(SubSeq(turns', 1, n)) = n /\ Len(SubSeq(turns, 1, n)) = n
        /\ \A i \in 1 .. n : SubSeq(turns', 1, n)[i] = SubSeq(turns, 1, n)[i]
    BY <1>1, <1>2, <2>1, <2>2, SubSeqProperties
  <2> QED
    BY <2>3, SeqEqual
<1>4. SubSeq(turns, 1, Len(turns)) = turns
  BY <1>1
<1>5. ASSUME NEW i \in DOMAIN turns', turns'[i].question # 0
      PROVE  turns'[i].question = LatestQuestion(SubSeq(turns', 1, i - 1))
  <2>1. CASE i = Len(turns) + 1
    <3>1. SubSeq(turns', 1, i - 1) = turns
      BY <1>2, <1>3, <1>4, <2>1
    <3> QED
      BY <1>2, <1>5, <2>1, <3>1
  <2>2. CASE i \in 1 .. Len(turns)
    <3>1. SubSeq(turns', 1, i - 1) = SubSeq(turns, 1, i - 1) /\ turns'[i] = turns[i]
      BY <1>2, <1>3, <2>2
    <3> QED
      BY <1>2, <1>5, <2>2, <3>1 DEF RowsInv, ChoiceIsCurrent
  <2> QED
    BY <1>2, <1>5, <2>1, <2>2
<1> QED
  BY <1>5 DEF ChoiceIsCurrent

\* Tasks that answer for an earlier revision can no longer store their choice.
LEMMA PastChoices ==
  ASSUME RowsInv, NEW w \in Workers, OnlyMoves(w), pc'[w] = "idle",
         session'.id = session.id, session'.revision = session.revision + 1
  PROVE  ChoicesHold'
<1>1. session.revision \in Nat /\ \A v \in Workers : call[v].input.base \in Nat
  BY DEF RowsInv, OwnershipInv, TypeOK, Session, Call, Input
<1>2. ASSUME NEW v \in Workers, Attached(v)', pc'[v] = "claim"
      PROVE  session'.revision # call'[v].input.base
  <2>1. v # w /\ call'[v] = call[v] /\ Attached(v)
    BY <1>2 DEF OnlyMoves, Attached
  <2>2. call[v].input.base <= session.revision
    BY <2>1 DEF RowsInv, OwnershipInv, RevisionsReached
  <2> QED
    BY <2>1, <2>2, <1>1
<1> QED
  BY <1>2 DEF ChoicesHold

\* No draft is of a revision that has only just been reached.
LEMMA PastDrafts ==
  ASSUME RowsInv, TypeOK', session'.revision = session.revision + 1,
         \A r \in Requests : proposals'[r].status = "draft" =>
           proposals[r].status = "draft" /\ proposals'[r].revision = proposals[r].revision
  PROVE  /\ ProposalIsCurrent'
         /\ \A r \in Requests :
              proposals'[r].status = "draft" => proposals'[r].revision <= session'.revision
<1>1. session.revision \in Nat /\ \A r \in Requests : proposals[r].revision \in Nat
  BY DEF RowsInv, OwnershipInv, TypeOK, Session, Proposal
<1>2. \A r \in Requests : proposals'[r].status = "draft" =>
        proposals'[r].revision <= session.revision
  BY DEF RowsInv, DraftsHold
<1>3. DraftsAt(proposals', session'.revision) = {}
  BY <1>1, <1>2 DEF DraftsAt
<1>4. ProposalIsCurrent'
  <2>1. Cardinality(DraftsAt(proposals', session'.revision)) = 0
    BY <1>3, FS_EmptySet
  <2>2. DraftsCurrent(proposals', session'.revision, session'.confirmed)
    BY <1>3, <2>1 DEF DraftsCurrent
  <2> QED
    BY <2>2, DraftsForm
<1> QED
  BY <1>1, <1>2, <1>4

\* The items of a confirmation are named by a token.
LEMMA DecidedItems ==
  ASSUME TypeOK
  PROVE  \A r \in Confirmations(ops) : \A e \in Decided(ops[r].digest) : e[1] \in Nat
<1> TAKE r \in Confirmations(ops)
<1>1. ops[r].digest \in Input
  BY DEF TypeOK, Op, Confirmations
<1>2. Decided(ops[r].digest) \subseteq Evidence
  BY <1>1 DEF Input, Decided
<1> QED
  BY <1>2 DEF Evidence

\* Evidence is as it was when no confirmation is added, nothing is proposed but under
\* the token of the task that ends, and the tokens in use are old ones or fresh.
LEMMA SameEvidence ==
  ASSUME RowsInv, TypeOK', NEW w \in Workers, OnlyMoves(w), tokens' >= tokens,
         session'.confirmed = session.confirmed,
         \A r \in Requests :
           /\ ops'[r].kind = "confirmation" <=> ops[r].kind = "confirmation"
           /\ ops[r].kind = "confirmation" => ops'[r].digest = ops[r].digest,
         \/ pc'[w] = "idle"
         \/ pc'[w] = "model" /\ call'[w].token = tokens + 1
         \/ pc'[w] \in Owning /\ pc[w] \in Owning /\ call'[w].token = call[w].token,
         \/ session'.proposed = session.proposed
         \/ /\ pc[w] \in Owning /\ pc'[w] = "idle"
            /\ \A e \in session'.proposed : e[1] = call[w].token
  PROVE  EvidenceDecidedOnce' /\ EvidenceFresh'
<1> DEFINE items == {e \in Evidence : \E r \in Confirmations(ops) : e \in Decided(ops[r].digest)}
<1>1. /\ EvidenceOnce(ops, session.confirmed, session.proposed)
      /\ \A e \in session.proposed : FreshItem(e)
      /\ \A r \in Confirmations(ops) : \A e \in Decided(ops[r].digest) : FreshItem(e)
  BY EvidenceForm, FreshForm DEF RowsInv
<1>2. /\ Confirmations(ops') = Confirmations(ops)
      /\ \A r \in Confirmations(ops) : ops'[r].digest = ops[r].digest
  BY DEF Confirmations
<1>3. \A e \in session.proposed : e[1] \in Nat
  BY DEF RowsInv, OwnershipInv, TypeOK, Session, Evidence
<1>4. \A r \in Confirmations(ops) : \A e \in Decided(ops[r].digest) : e[1] \in Nat
  BY DecidedItems DEF RowsInv, OwnershipInv
<1>5. /\ tokens \in Nat /\ tokens' \in Nat
      /\ \A v \in Workers : call[v].token \in Nat
      /\ \A v \in Workers : pc[v] # "idle" => call[v].token <= tokens
  BY DEF RowsInv, OwnershipInv, TypeOK, TokensFresh, Call
<1>6. ASSUME NEW e, e[1] \in Nat, FreshItem(e) PROVE FreshItem(e)'
  <2>1. e[1] <= tokens'
    BY <1>5, <1>6 DEF FreshItem
  <2>2. ASSUME NEW v \in Workers, pc'[v] \in Owning PROVE call'[v].token # e[1]
    <3>1. CASE v = w
      BY <3>1, <2>2, <1>5, <1>6 DEF FreshItem, Owning
    <3>2. CASE v # w
      BY <3>2, <2>2, <1>6 DEF FreshItem, OnlyMoves
    <3> QED
      BY <3>1, <3>2
  <2> QED
    BY <2>1, <2>2 DEF FreshItem
<1>7. CASE session'.proposed = session.proposed
  <2>1. EvidenceOnce(ops', session'.confirmed, session'.proposed)
    BY <1>1, <1>2, <1>7 DEF EvidenceOnce
  <2>2. /\ \A e \in session'.proposed : FreshItem(e)'
        /\ \A r \in Confirmations(ops') : \A e \in Decided(ops'[r].digest) : FreshItem(e)'
    BY <1>1, <1>2, <1>3, <1>4, <1>6, <1>7
  <2> QED
    BY <2>1, <2>2, EvidenceForm, FreshForm
<1>8. CASE /\ pc[w] \in Owning /\ pc'[w] = "idle"
           /\ \A e \in session'.proposed : e[1] = call[w].token
  <2>1. \A r \in Confirmations(ops) : \A e \in Decided(ops[r].digest) : e \notin session'.proposed
    BY <1>1, <1>8 DEF FreshItem
  <2>2. EvidenceOnce(ops', session'.confirmed, session'.proposed)
    BY <1>1, <1>2, <2>1 DEF EvidenceOnce
  <2>3. \A r \in Confirmations(ops') : \A e \in Decided(ops'[r].digest) : FreshItem(e)'
    BY <1>1, <1>2, <1>4, <1>6
  <2>4. ASSUME NEW e \in session'.proposed PROVE FreshItem(e)'
    <3>1. e[1] = call[w].token /\ e[1] <= tokens'
      BY <1>5, <1>8 DEF Owning
    <3>2. ASSUME NEW v \in Workers, pc'[v] \in Owning PROVE call'[v].token # e[1]
      <4>1. v # w /\ pc[v] \in Owning /\ call'[v] = call[v]
        BY <3>2, <1>8 DEF OnlyMoves, Owning
      <4> QED
        BY <4>1, <3>1, <1>8 DEF RowsInv, OwnershipInv, TokensFresh
    <3> QED
      BY <3>1, <3>2 DEF FreshItem
  <2> QED
    BY <2>2, <2>3, <2>4, EvidenceForm, FreshForm
<1> QED
  BY <1>7, <1>8

\* A claim or a retry keeps what the rows say.
LEMMA ClaimRowsStep ==
  ASSUME RowsInv, OwnershipInv', NEW w \in Workers,
         ClaimAnswer(w) \/ ClaimGeneration(w) \/ Reclaim(w)
  PROVE  RowsInv'
<1> DEFINE r == call[w].request
<1>1. TypeOK'
  BY DEF OwnershipInv
<1>2. /\ OnlyMoves(w) /\ pc'[w] = "model" /\ call'[w].token = tokens + 1
      /\ tokens' = tokens + 1 /\ proposals' = proposals
      /\ session'.id = session.id /\ session'.revision = session.revision
      /\ session'.confirmed = session.confirmed /\ session'.proposed = session.proposed
      /\ session'.last.token = tokens + 1
      /\ ClaimHolds(w) /\ Attached(w)
  BY <1>1, ClaimRows
<1>3. /\ r \in Requests /\ OnlyOp(r)
      /\ ops'[r].status = "running" /\ ops[r].status # "succeeded"
      /\ ops'[r].kind \in {"start", "answer", "proposal"}
      /\ ops[r].kind \in {"none", "start", "answer", "proposal"}
      /\ \/ turns' = turns
         \/ turns' = Append(turns, UserTurn(w)) /\ pc[w] = "claim" /\ call[w].kind = "answer"
  BY <1>1, ClaimRows
<1>4. /\ tokens \in Nat /\ call[w] \in Call /\ snap[w] \in Snapshot
      /\ \A v \in Workers : snap[v].last.token \in Nat /\ call[v].token \in Nat
      /\ \A v \in Workers :
           pc[v] # "idle" => snap[v].last.token <= tokens /\ call[v].token <= tokens
  BY DEF RowsInv, OwnershipInv, TypeOK, TokensFresh, Call, Snapshot, LastOperation
<1>5. ASSUME NEW v \in Workers, pc'[v] # "idle", pc'[v] # "model"
      PROVE  /\ v # w /\ pc'[v] = pc[v] /\ call'[v] = call[v] /\ snap'[v] = snap[v]
             /\ session'.last.token \notin {snap'[v].last.token, call'[v].token}
  <2>1. v # w /\ pc'[v] = pc[v] /\ call'[v] = call[v] /\ snap'[v] = snap[v]
    BY <1>2, <1>5 DEF OnlyMoves
  <2> QED
    BY <2>1, <1>2, <1>4, <1>5
<1>6. Phases'
  <2>1. \A s \in Requests : /\ ops'[s].status = "none" <=> ops'[s].kind = "none"
                            /\ ops'[s].kind = "confirmation" => ops'[s].status = "succeeded"
    BY <1>3 DEF RowsInv, Phases, OnlyOp
  <2> QED
    BY <1>2, <1>5, <2>1 DEF RowsInv, Phases
<1>7. OneTurnEach'
  BY <1>1, OneTurnClaim
<1>8. ChoicesHold'
  BY <1>5 DEF ChoicesHold
<1>9. ChoiceIsCurrent'
  <2>1. CASE turns' = turns
    BY <2>1 DEF RowsInv, ChoiceIsCurrent
  <2>2. CASE turns' = Append(turns, UserTurn(w)) /\ pc[w] = "claim" /\ call[w].kind = "answer"
    <3>1. UserTurn(w) \in Turn /\ UserTurn(w).question = call[w].input.payload
      BY <1>4 DEF UserTurn, Turn, Call, Input, Snapshot
    <3>2. call[w].input.payload # 0 => call[w].input.payload = LatestQuestion(turns)
      BY <1>2, <2>2 DEF RowsInv, ChoicesHold, ClaimHolds
    <3> QED
      BY <2>2, <3>1, <3>2, ChoiceAppend
  <2> QED
    BY <1>3, <2>1, <2>2
<1>10. EvidenceDecidedOnce' /\ EvidenceFresh'
  <2>1. \A s \in Requests :
          /\ ops'[s].kind = "confirmation" <=> ops[s].kind = "confirmation"
          /\ ops[s].kind = "confirmation" => ops'[s].digest = ops[s].digest
    BY <1>3 DEF OnlyOp
  <2>2. tokens' >= tokens
    BY <1>2, <1>4
  <2> QED
    BY <1>1, <1>2, <2>1, <2>2, SameEvidence
<1>11. ProposalIsCurrent'
  BY <1>2, DraftsForm DEF RowsInv
<1>12. DraftsHold'
  BY <1>2, <1>5 DEF RowsInv, DraftsHold
<1> QED
  BY <1>6, <1>7, <1>8, <1>9, <1>10, <1>11, <1>12 DEF RowsInv

\* The end of an operation keeps what handlers and operations say of each other, and
\* the confirmations.
LEMMA EndPhases ==
  ASSUME RowsInv, TypeOK', NEW w \in Workers,
         pc[w] \in Owning, Attached(w), session.last.token = call[w].token,
         NEW status \in {"succeeded", "failed"},
         EndsAs(call[w].request, status), Return(w)
  PROVE  /\ Phases'
         /\ \A r \in Requests :
              /\ ops'[r].kind = "confirmation" <=> ops[r].kind = "confirmation"
              /\ ops[r].kind = "confirmation" => ops'[r].digest = ops[r].digest
<1> DEFINE r == call[w].request
<1>1. /\ OnlyMoves(w) /\ pc'[w] = "idle"
      /\ r \in Requests /\ OnlyOp(r)
      /\ ops[r].status = "running" /\ ops[r].kind = call[w].kind
      /\ ops'[r].status = status /\ ops'[r].kind = ops[r].kind
      /\ ops'[r].digest = ops[r].digest
  <2>1. status \in OpStatus
    BY DEF OpStatus
  <2> QED
    BY <2>1, EndRows
<1>2. \A s \in Requests : /\ ops'[s].status = "none" <=> ops'[s].kind = "none"
                          /\ ops'[s].kind = "confirmation" => ops'[s].status = "succeeded"
  BY <1>1 DEF RowsInv, Phases, OnlyOp
<1>3. Phases'
  BY <1>1, <1>2 DEF RowsInv, Phases, OnlyMoves
<1>4. \A s \in Requests :
        /\ ops'[s].kind = "confirmation" <=> ops[s].kind = "confirmation"
        /\ ops[s].kind = "confirmation" => ops'[s].digest = ops[s].digest
  BY <1>1 DEF OnlyOp
<1> QED
  BY <1>3, <1>4

\* So does a reply.
LEMMA ReplyRowsStep ==
  ASSUME RowsInv, OwnershipInv', NEW w \in Workers, NEW slots \in SUBSET Slots,
         NEW ready \in BOOLEAN, NEW scope \in Scopes \cup {NoScope},
         FinishReply(w, slots, ready, scope)
  PROVE  RowsInv'
<1>1. TypeOK'
  BY DEF OwnershipInv
<1>2. /\ pc[w] = "finish" /\ Attached(w) /\ session.last.token = call[w].token
      /\ EndsAs(call[w].request, "succeeded") /\ Return(w)
      /\ turns' = Append(turns, AssistantTurn(w))
      /\ tokens' = tokens /\ proposals' = proposals
      /\ session'.id = session.id /\ session'.revision = session.revision + 1
      /\ session'.confirmed = session.confirmed
      /\ \A e \in session'.proposed : e[1] = call[w].token
      /\ session'.last.token = session.last.token
  BY <1>1, ReplyRows
<1>3. "succeeded" \in {"succeeded", "failed"} /\ "succeeded" \in OpStatus /\ pc[w] \in Owning
  BY <1>2 DEF OpStatus, Owning
<1>4. OnlyMoves(w) /\ pc'[w] = "idle"
  BY <1>1, <1>2, <1>3, EndRows
<1>5. /\ Phases'
      /\ \A r \in Requests :
           /\ ops'[r].kind = "confirmation" <=> ops[r].kind = "confirmation"
           /\ ops[r].kind = "confirmation" => ops'[r].digest = ops[r].digest
  BY <1>1, <1>2, <1>3, EndPhases
<1>6. OneTurnEach'
  BY <1>1, OneTurnReply
<1>7. ChoiceIsCurrent'
  <2>1. call[w] \in Call /\ snap[w] \in Snapshot
    BY DEF RowsInv, OwnershipInv, TypeOK
  <2>2. AssistantTurn(w) \in Turn /\ AssistantTurn(w).question = 0
    BY <2>1 DEF AssistantTurn, Turn, Call, Snapshot
  <2> QED
    BY <1>2, <2>2, ChoiceAppend
<1>8. ChoicesHold'
  BY <1>2, <1>4, PastChoices
<1>9. EvidenceDecidedOnce' /\ EvidenceFresh'
  <2>1. tokens' >= tokens
    BY <1>2 DEF RowsInv, OwnershipInv, TypeOK
  <2> QED
    BY <1>1, <1>2, <1>3, <1>4, <1>5, <2>1, SameEvidence
<1>10. /\ ProposalIsCurrent'
       /\ \A r \in Requests :
            proposals'[r].status = "draft" => proposals'[r].revision <= session'.revision
  BY <1>1, <1>2, PastDrafts
<1>11. DraftsHold'
  BY <1>2, <1>4, <1>10 DEF RowsInv, DraftsHold, OnlyMoves, Attached
<1> QED
  BY <1>5, <1>6, <1>7, <1>8, <1>9, <1>10, <1>11 DEF RowsInv

\* So does a stored proposal.
LEMMA GenerationRowsStep ==
  ASSUME RowsInv, OwnershipInv', NEW w \in Workers, NEW workflow \in Scopes,
         FinishGeneration(w, workflow)
  PROVE  RowsInv'
<1> DEFINE r == call[w].request
           draft == [status |-> "draft", revision |-> session.revision + 1,
                     facts |-> snap[w].confirmed, workflow |-> workflow]
<1>1. TypeOK'
  BY DEF OwnershipInv
<1>2. /\ pc[w] = "finish" /\ Attached(w) /\ session.last.token = call[w].token
      /\ call[w].kind = "proposal"
      /\ EndsAs(r, "succeeded") /\ Return(w)
      /\ turns' = turns /\ tokens' = tokens
      /\ proposals' = [proposals EXCEPT ![r] = draft]
      /\ session'.id = session.id /\ session'.revision = session.revision + 1
      /\ session'.confirmed = session.confirmed
      /\ session'.proposed = session.proposed
      /\ session'.last.token = session.last.token
  BY <1>1, GenerationRows
<1>3. "succeeded" \in {"succeeded", "failed"} /\ "succeeded" \in OpStatus /\ pc[w] \in Owning
  BY <1>2 DEF OpStatus, Owning
<1>4. /\ OnlyMoves(w) /\ pc'[w] = "idle" /\ r \in Requests /\ OnlyOp(r)
      /\ ops[r].kind = call[w].kind /\ ops'[r].kind = ops[r].kind
  BY <1>1, <1>2, <1>3, EndRows
<1>5. /\ Phases'
      /\ \A s \in Requests :
           /\ ops'[s].kind = "confirmation" <=> ops[s].kind = "confirmation"
           /\ ops[s].kind = "confirmation" => ops'[s].digest = ops[s].digest
  BY <1>1, <1>2, <1>3, EndPhases
<1>6. OneTurnEach'
  <2>1. \A s \in Requests :
          /\ ops'[s].kind = "answer" <=> ops[s].kind = "answer"
          /\ ops'[s].kind \in {"start", "answer"} /\ ops'[s].status = "succeeded"
               <=> ops[s].kind \in {"start", "answer"} /\ ops[s].status = "succeeded"
    BY <1>2, <1>4 DEF OnlyOp
  <2> QED
    BY <1>2, <2>1, SameTurns
<1>7. ChoiceIsCurrent'
  BY <1>2 DEF RowsInv, ChoiceIsCurrent
<1>8. ChoicesHold'
  BY <1>2, <1>4, PastChoices
<1>9. EvidenceDecidedOnce' /\ EvidenceFresh'
  <2>1. tokens' >= tokens
    BY <1>2 DEF RowsInv, OwnershipInv, TypeOK
  <2> QED
    BY <1>1, <1>2, <1>4, <1>5, <2>1, SameEvidence
<1>10. /\ session.revision \in Nat /\ \A s \in Requests : proposals[s].revision \in Nat
       /\ \A s \in Requests :
            proposals[s].status = "draft" => proposals[s].revision <= session.revision
       /\ snap[w].confirmed = session.confirmed
  BY <1>2 DEF RowsInv, OwnershipInv, TypeOK, Session, Proposal, DraftsHold
<1>11. /\ proposals'[r] = draft /\ draft.status = "draft"
       /\ draft.revision = session.revision + 1 /\ draft.facts = snap[w].confirmed
       /\ \A s \in Requests \ {r} : proposals'[s] = proposals[s]
  BY <1>2, <1>4 DEF RowsInv, OwnershipInv, TypeOK
<1> HIDE DEF draft, r
<1>12. ProposalIsCurrent'
  <2>1. DraftsAt(proposals', session'.revision) = {r}
    BY <1>2, <1>4, <1>10, <1>11 DEF DraftsAt
  <2>2. Cardinality({r}) = 1
    BY FS_Singleton
  <2>3. DraftsCurrent(proposals', session'.revision, session'.confirmed)
    BY <2>1, <2>2, <1>2, <1>10, <1>11 DEF DraftsCurrent
  <2> QED
    BY <2>3, DraftsForm
<1>13. DraftsHold'
  <2>1. \A s \in Requests :
          proposals'[s].status = "draft" => proposals'[s].revision <= session'.revision
    BY <1>2, <1>10, <1>11
  <2> QED
    BY <2>1, <1>2, <1>4 DEF RowsInv, DraftsHold, OnlyMoves, Attached
<1> QED
  BY <1>5, <1>6, <1>7, <1>8, <1>9, <1>12, <1>13 DEF RowsInv

\* So does a failure.
LEMMA FailureRowsStep ==
  ASSUME RowsInv, OwnershipInv', NEW w \in Workers, RecordFailure(w)
  PROVE  RowsInv'
<1> DEFINE r == call[w].request
<1>1. TypeOK'
  BY DEF OwnershipInv
<1>2. /\ pc[w] = "fail" /\ Attached(w) /\ session.last.token = call[w].token
      /\ EndsAs(r, "failed") /\ Return(w)
      /\ turns' = turns /\ tokens' = tokens /\ proposals' = proposals
      /\ session'.id = session.id /\ session'.revision = session.revision
      /\ session'.confirmed = session.confirmed
      /\ session'.proposed = session.proposed
      /\ session'.last.token = session.last.token
  BY <1>1, FailureRows
<1>3. "failed" \in {"succeeded", "failed"} /\ "failed" \in OpStatus /\ pc[w] \in Owning
  BY <1>2 DEF OpStatus, Owning
<1>4. /\ OnlyMoves(w) /\ pc'[w] = "idle" /\ r \in Requests /\ OnlyOp(r)
      /\ ops[r].status = "running" /\ ops'[r].status = "failed"
      /\ ops'[r].kind = ops[r].kind
  BY <1>1, <1>2, <1>3, EndRows
<1>5. /\ Phases'
      /\ \A s \in Requests :
           /\ ops'[s].kind = "confirmation" <=> ops[s].kind = "confirmation"
           /\ ops[s].kind = "confirmation" => ops'[s].digest = ops[s].digest
  BY <1>1, <1>2, <1>3, EndPhases
<1>6. OneTurnEach'
  <2>1. \A s \in Requests :
          /\ ops'[s].kind = "answer" <=> ops[s].kind = "answer"
          /\ ops'[s].kind \in {"start", "answer"} /\ ops'[s].status = "succeeded"
               <=> ops[s].kind \in {"start", "answer"} /\ ops[s].status = "succeeded"
    BY <1>4 DEF OnlyOp
  <2> QED
    BY <1>2, <2>1, SameTurns
<1>7. ChoiceIsCurrent'
  BY <1>2 DEF RowsInv, ChoiceIsCurrent
<1>8. ChoicesHold'
  BY <1>2, <1>4 DEF RowsInv, ChoicesHold, OnlyMoves, Attached
<1>9. EvidenceDecidedOnce' /\ EvidenceFresh'
  <2>1. tokens' >= tokens
    BY <1>2 DEF RowsInv, OwnershipInv, TypeOK
  <2> QED
    BY <1>1, <1>2, <1>4, <1>5, <2>1, SameEvidence
<1>10. ProposalIsCurrent'
  BY <1>2, DraftsForm DEF RowsInv
<1>11. DraftsHold'
  BY <1>2, <1>4 DEF RowsInv, DraftsHold, OnlyMoves, Attached
<1> QED
  BY <1>5, <1>6, <1>7, <1>8, <1>9, <1>10, <1>11 DEF RowsInv

\* So does a confirmation: its items were proposed, so none of them was decided before.
LEMMA ConfirmRowsStep ==
  ASSUME RowsInv, OwnershipInv', NEW w \in Workers, Confirm(w)
  PROVE  RowsInv'
<1> DEFINE r == call[w].request
           input == call[w].input
<1>1. TypeOK'
  BY DEF OwnershipInv
<1>2. /\ OnlyMoves(w) /\ pc'[w] = "idle"
      /\ tokens' = tokens + 1 /\ proposals' = proposals /\ turns' = turns
      /\ session'.id = session.id /\ session'.revision = session.revision + 1
      /\ session'.confirmed = session.confirmed \cup input.accept
      /\ session'.proposed = session.proposed \ Decided(input)
      /\ Decided(input) \subseteq session.proposed
      /\ session'.last.token = tokens + 1
  BY <1>1, ConfirmRows
<1>3. /\ r \in Requests /\ OnlyOp(r)
      /\ ops[r].status = "none" /\ ops[r].kind = "none"
      /\ ops'[r].status = "succeeded" /\ ops'[r].kind = "confirmation"
      /\ ops'[r].digest = input
  BY <1>1, ConfirmRows
<1> HIDE DEF r, input
<1>4. /\ tokens \in Nat
      /\ \A v \in Workers : call[v].token \in Nat
      /\ \A v \in Workers : pc[v] # "idle" => call[v].token <= tokens
      /\ \A e \in session.proposed : e[1] \in Nat
  BY DEF RowsInv, OwnershipInv, TypeOK, TokensFresh, Call, Session, Evidence
<1>5. Phases'
  <2>1. \A s \in Requests :
          /\ ops'[s].status = "none" <=> ops'[s].kind = "none"
          /\ ops'[s].kind = "confirmation" => ops'[s].status = "succeeded"
    BY <1>3 DEF RowsInv, Phases, OnlyOp
  <2> QED
    BY <1>2, <2>1 DEF RowsInv, Phases, OnlyMoves
<1>6. OneTurnEach'
  <2>1. \A s \in Requests :
          /\ ops'[s].kind = "answer" <=> ops[s].kind = "answer"
          /\ ops'[s].kind \in {"start", "answer"} /\ ops'[s].status = "succeeded"
               <=> ops[s].kind \in {"start", "answer"} /\ ops[s].status = "succeeded"
    BY <1>3 DEF OnlyOp
  <2> QED
    BY <1>2, <2>1, SameTurns
<1>7. ChoiceIsCurrent'
  BY <1>2 DEF RowsInv, ChoiceIsCurrent
<1>8. ChoicesHold'
  BY <1>2, PastChoices
<1>9. /\ EvidenceOnce(ops, session.confirmed, session.proposed)
      /\ \A e \in session.proposed : FreshItem(e)
      /\ \A s \in Confirmations(ops) : \A e \in Decided(ops[s].digest) : FreshItem(e)
  BY EvidenceForm, FreshForm DEF RowsInv
<1>10. /\ r \in Confirmations(ops') /\ r \notin Confirmations(ops)
       /\ Confirmations(ops') = Confirmations(ops) \cup {r}
       /\ \A s \in Confirmations(ops) : ops'[s] = ops[s]
  BY <1>3 DEF Confirmations, OnlyOp
<1>11. input.accept \subseteq Decided(input)
  BY DEF Decided
<1>12. EvidenceOnce(ops', session'.confirmed, session'.proposed)
  <2>1. \A e : e \in session'.confirmed
                 <=> \E s \in Confirmations(ops') : e \in ops'[s].digest.accept
    BY <1>2, <1>3, <1>9, <1>10 DEF EvidenceOnce
  <2>2. \A s \in Confirmations(ops) :
          \A e \in Decided(ops'[s].digest) : e \notin session.proposed /\ e \notin Decided(input)
    BY <1>2, <1>9, <1>10 DEF EvidenceOnce
  <2>3. \A s \in Confirmations(ops') :
          \A e \in Decided(ops'[s].digest) : e \notin session'.proposed
    BY <1>2, <1>3, <1>10, <2>2
  <2>4. \A s, q \in Confirmations(ops') : s # q =>
          \A e : e \in Decided(ops'[s].digest) => e \notin Decided(ops'[q].digest)
    <3> TAKE s, q \in Confirmations(ops')
    <3> HAVE s # q
    <3>1. CASE s \in Confirmations(ops) /\ q \in Confirmations(ops)
      BY <3>1, <1>9, <1>10 DEF EvidenceOnce
    <3>2. CASE s = r
      BY <3>2, <1>3, <1>10, <2>2
    <3>3. CASE q = r
      BY <3>3, <1>3, <1>10, <2>2
    <3> QED
      BY <3>1, <3>2, <3>3, <1>10
  <2> QED
    BY <2>1, <2>3, <2>4 DEF EvidenceOnce
<1>13. ASSUME NEW e, e[1] \in Nat, FreshItem(e) PROVE FreshItem(e)'
  <2>1. e[1] <= tokens'
    BY <1>2, <1>4, <1>13 DEF FreshItem
  <2>2. ASSUME NEW v \in Workers, pc'[v] \in Owning PROVE call'[v].token # e[1]
    <3>1. v # w
      BY <2>2, <1>2 DEF Owning
    <3> QED
      BY <3>1, <2>2, <1>2, <1>13 DEF FreshItem, OnlyMoves
  <2> QED
    BY <2>1, <2>2 DEF FreshItem
<1>14. EvidenceFresh'
  <2>1. \A e \in session'.proposed : FreshItem(e)'
    BY <1>2, <1>4, <1>9, <1>13
  <2>2. \A e \in Decided(input) : FreshItem(e)'
    BY <1>2, <1>4, <1>9, <1>13
  <2>3. \A s \in Confirmations(ops) : \A e \in Decided(ops[s].digest) : FreshItem(e)'
    BY <1>9, <1>13, DecidedItems DEF RowsInv, OwnershipInv
  <2>4. \A s \in Confirmations(ops') : \A e \in Decided(ops'[s].digest) : FreshItem(e)'
    BY <1>3, <1>10, <2>2, <2>3
  <2> QED
    BY <2>1, <2>4, FreshForm
<1>15. /\ ProposalIsCurrent'
       /\ \A s \in Requests :
            proposals'[s].status = "draft" => proposals'[s].revision <= session'.revision
  BY <1>1, <1>2, PastDrafts
<1>16. DraftsHold'
  <2>1. ASSUME NEW v \in Workers, pc'[v] = "finish" PROVE session'.last.token # call'[v].token
    BY <2>1, <1>2, <1>4 DEF OnlyMoves
  <2> QED
    BY <2>1, <1>15 DEF DraftsHold
<1> QED
  BY <1>5, <1>6, <1>7, <1>8, <1>12, <1>14, <1>15, <1>16, EvidenceForm DEF RowsInv

\* So does an application.
LEMMA ApplyRowsStep ==
  ASSUME RowsInv, OwnershipInv', NEW w \in Workers, Apply(w)
  PROVE  RowsInv'
<1> DEFINE r == call[w].request
<1>1. TypeOK'
  BY DEF OwnershipInv
<1>2. /\ OnlyMoves(w) /\ pc'[w] = "idle" /\ r \in Requests
      /\ tokens' = tokens /\ turns' = turns /\ ops' = ops
      /\ proposals' = [proposals EXCEPT ![r].status = "accepted"]
      /\ session'.id = session.id /\ session'.revision = session.revision + 1
      /\ session'.confirmed = session.confirmed /\ session'.proposed = session.proposed
      /\ session'.last = session.last
  BY <1>1, ApplyRows
<1>3. Phases' /\ ChoiceIsCurrent'
  BY <1>2 DEF RowsInv, Phases, OnlyMoves, ChoiceIsCurrent
<1>4. OneTurnEach'
  BY <1>2, SameTurns
<1>5. ChoicesHold'
  BY <1>2, PastChoices
<1>6. EvidenceDecidedOnce' /\ EvidenceFresh'
  <2>1. tokens' >= tokens
    BY <1>2 DEF RowsInv, OwnershipInv, TypeOK
  <2> QED
    BY <1>1, <1>2, <2>1, SameEvidence
<1>7. \A s \in Requests : proposals'[s].status = "draft" =>
        proposals[s].status = "draft" /\ proposals'[s].revision = proposals[s].revision
  BY <1>2 DEF RowsInv, OwnershipInv, TypeOK, Proposal
<1>8. /\ ProposalIsCurrent'
      /\ \A s \in Requests :
           proposals'[s].status = "draft" => proposals'[s].revision <= session'.revision
  BY <1>1, <1>2, <1>7, PastDrafts
<1>9. DraftsHold'
  BY <1>2, <1>8 DEF RowsInv, DraftsHold, OnlyMoves, Attached
<1> QED
  BY <1>3, <1>4, <1>5, <1>6, <1>8, <1>9 DEF RowsInv

\* A creation finds empty tables.
LEMMA StartRowsStep ==
  ASSUME RowsInv, OwnershipInv', NEW w \in Workers, NEW body \in Bodies,
         StartCreate(w, body)
  PROVE  RowsInv'
<1>1. /\ session.id = 0 /\ tokens' = tokens + 1 /\ turns' = turns /\ proposals' = proposals
      /\ session'.id = tokens + 1 /\ session'.proposed = {} /\ session'.confirmed = {}
      /\ OnlyMoves(w) /\ pc'[w] = "model" /\ OnlyOp(CreationRequest)
      /\ ops'[CreationRequest].kind = "start" /\ ops'[CreationRequest].status = "running"
  <2>1. /\ session.id = 0 /\ tokens' = tokens + 1 /\ turns' = turns /\ proposals' = proposals
        /\ session'.id = tokens + 1 /\ session'.proposed = {} /\ session'.confirmed = {}
    BY DEF StartCreate, NoSession
  <2>2. OnlyMoves(w) /\ pc'[w] = "model"
    BY DEF StartCreate, OnlyMoves, RowsInv, OwnershipInv, TypeOK
  <2>3. /\ OnlyOp(CreationRequest) /\ ops'[CreationRequest].kind = "start"
        /\ ops'[CreationRequest].status = "running"
    BY DEF StartCreate, OnlyOp, RowsInv, OwnershipInv, TypeOK
  <2> QED
    BY <2>1, <2>2, <2>3
<1>2. /\ turns = <<>> /\ \A s \in Requests : ops[s].kind = "none" /\ ops[s].status = "none"
                                            /\ proposals[s].status = "none"
  BY <1>1 DEF RowsInv, OwnershipInv, DeletedStaysDeleted, NoOp, NoProposal
<1>3. \A v \in Workers \ {w} : ~Attached(v)'
  <2> TAKE v \in Workers \ {w}
  <2>1. pc[v] # "idle" => snap[v].id \in 1 .. tokens /\ tokens \in Nat
    BY DEF RowsInv, OwnershipInv, TokensFresh, TypeOK
  <2>2. pc[v] # "idle" => snap[v].id # tokens + 1
    BY <2>1
  <2> QED
    BY <1>1, <2>2 DEF Attached, OnlyMoves
<1>4. Phases'
  BY <1>1, <1>2 DEF RowsInv, Phases, OnlyMoves, OnlyOp
<1>5. OneTurnEach'
  <2>1. \A s \in Requests :
          /\ ops'[s].kind = "answer" <=> ops[s].kind = "answer"
          /\ ops'[s].kind \in {"start", "answer"} /\ ops'[s].status = "succeeded"
               <=> ops[s].kind \in {"start", "answer"} /\ ops[s].status = "succeeded"
    BY <1>1, <1>2 DEF OnlyOp
  <2> QED
    BY <1>1, <2>1, SameTurns
<1>6. ChoiceIsCurrent' /\ ChoicesHold'
  BY <1>1, <1>3 DEF RowsInv, ChoiceIsCurrent, ChoicesHold
<1>7. Confirmations(ops') = {}
  BY <1>1, <1>2 DEF Confirmations, OnlyOp
<1>8. EvidenceDecidedOnce' /\ EvidenceFresh'
  BY <1>1, <1>7, EvidenceForm, FreshForm DEF EvidenceOnce
<1>9. ProposalIsCurrent' /\ DraftsHold'
  <2>1. DraftsAt(proposals', session'.revision) = {}
    BY <1>1, <1>2 DEF DraftsAt
  <2>2. Cardinality(DraftsAt(proposals', session'.revision)) = 0
    BY <2>1, FS_EmptySet
  <2>3. DraftsCurrent(proposals', session'.revision, session'.confirmed)
    BY <2>1, <2>2 DEF DraftsCurrent
  <2> QED
    BY <1>1, <1>2, <1>3, <2>3, DraftsForm DEF DraftsHold
<1> QED
  BY <1>4, <1>5, <1>6, <1>8, <1>9 DEF RowsInv

\* A deletion leaves none of the rows.
LEMMA RemoveRowsStep ==
  ASSUME RowsInv, OwnershipInv', RemoveRows
  PROVE  RowsInv'
<1>1. /\ session'.id = 0 /\ session'.proposed = {} /\ session'.confirmed = {}
      /\ turns' = <<>>
      /\ \A s \in Requests : ops'[s].kind = "none" /\ ops'[s].status = "none"
      /\ \A s \in Requests : proposals'[s].status = "none"
      /\ UNCHANGED <<tokens, pc, call, snap>>
  BY DEF RemoveRows, NoSession, NoOp, NoProposal
<1>2. \A v \in Workers : ~Attached(v)'
  BY <1>1 DEF RowsInv, OwnershipInv, TokensFresh, Attached
<1>3. Phases' /\ ChoiceIsCurrent' /\ ChoicesHold'
  BY <1>1, <1>2 DEF RowsInv, Phases, ChoiceIsCurrent, ChoicesHold
<1>4. OneTurnEach'
  <2>1. \A role, r : StoredIn(turns', role, r) = {}
    BY <1>1 DEF StoredIn
  <2>2. \A role, r : Cardinality(StoredIn(turns', role, r)) = 0
    BY <2>1, FS_EmptySet
  <2> QED
    BY <1>1, <2>2, OneTurnForm DEF OneTurn
<1>5. Confirmations(ops') = {}
  BY <1>1 DEF Confirmations
<1>6. EvidenceDecidedOnce' /\ EvidenceFresh'
  BY <1>1, <1>5, EvidenceForm, FreshForm DEF EvidenceOnce
<1>7. ProposalIsCurrent' /\ DraftsHold'
  <2>1. DraftsAt(proposals', session'.revision) = {}
    BY <1>1 DEF DraftsAt
  <2>2. Cardinality(DraftsAt(proposals', session'.revision)) = 0
    BY <2>1, FS_EmptySet
  <2>3. DraftsCurrent(proposals', session'.revision, session'.confirmed)
    BY <2>1, <2>2 DEF DraftsCurrent
  <2> QED
    BY <1>1, <1>2, <2>3, DraftsForm DEF DraftsHold
<1> QED
  BY <1>3, <1>4, <1>6, <1>7 DEF RowsInv

\* A transaction that opens: what its handler may have read.
LEMMA EnterRowsStep ==
  ASSUME RowsInv, OwnershipInv', NEW w \in Workers, NEW r \in Requests, NEW c \in Call,
         NEW phase \in Reading, Enter(w, phase, c, r), UNCHANGED <<clock, tokens, tables>>,
         phase = "claim" => c.kind \in {"answer", "proposal"},
         phase = "claim" /\ c.kind = "answer" /\ c.input.payload # 0
           => c.input.payload = LatestQuestion(turns),
         phase = "reclaim" => c.kind \in {"start", "answer", "proposal"},
         phase = "confirm" => c.kind = "confirmation"
  PROVE  RowsInv'
<1>1. OnlyMoves(w) /\ pc'[w] = phase /\ call'[w] = c
  BY DEF Enter, OnlyMoves, RowsInv, OwnershipInv, TypeOK
<1>2. phase \notin Owning /\ phase # "finish"
  BY DEF Reading, Owning
<1> QED
  BY <1>1, <1>2, QuietStep

\* Every step keeps what the rows say.
LEMMA StepRows == RowsInv /\ [Next]_vars => RowsInv'
<1> SUFFICES ASSUME RowsInv, [Next]_vars PROVE RowsInv'
  OBVIOUS
<1>1. OwnershipInv' /\ TypeOK
  BY StepOwnership DEF RowsInv, OwnershipInv
<1>2. ASSUME NEW w \in Workers, Receive(w) PROVE RowsInv'
  <2>1. CASE \E body \in Bodies : StartCreate(w, body)
    BY <2>1, <1>1, StartRowsStep
  <2>2. ASSUME NEW r \in Requests, NEW base \in 0 .. session.revision,
               NEW question \in 0 .. Len(turns), AnswerRead(w, r, base, question)
        PROVE  RowsInv'
    <3> DEFINE c == [request |-> r, kind |-> "answer", token |-> 0,
                     input |-> [NoInput EXCEPT !.base = base, !.payload = question]]
    <3>1. base \in Nat /\ question \in Nat
      BY <1>1 DEF TypeOK, Session
    <3>2. c \in Call /\ c.kind = "answer" /\ c.input.payload = question
      BY <3>1, EmptyTypes DEF Call, Kinds, Input
    <3>3. /\ Enter(w, "claim", c, r) /\ UNCHANGED <<clock, tokens, tables>>
          /\ question # 0 => question = LatestQuestion(turns)
      BY <2>2 DEF AnswerRead
    <3>4. "claim" \in Reading
      BY DEF Reading
    <3> HIDE DEF c
    <3> QED
      BY <3>2, <3>3, <3>4, <1>1, EnterRowsStep
  <2>3. ASSUME NEW r \in Requests, NEW base \in 0 .. session.revision,
               GenerateRead(w, r, base)
        PROVE  RowsInv'
    <3> DEFINE c == [request |-> r, kind |-> "proposal", token |-> 0,
                     input |-> [NoInput EXCEPT !.base = base]]
    <3>1. base \in Nat
      BY <1>1 DEF TypeOK, Session
    <3>2. c \in Call /\ c.kind = "proposal"
      BY <3>1, EmptyTypes DEF Call, Kinds, Input
    <3>3. Enter(w, "claim", c, r) /\ UNCHANGED <<clock, tokens, tables>>
      BY <2>3 DEF GenerateRead
    <3>4. "claim" \in Reading
      BY DEF Reading
    <3> HIDE DEF c
    <3> QED
      BY <3>2, <3>3, <3>4, <1>1, EnterRowsStep
  <2>4. ASSUME NEW r \in Requests, NEW base \in 0 .. session.revision,
               NEW accept \in SUBSET (session.proposed \cup session.confirmed),
               NEW reject \in SUBSET (session.proposed \cup session.confirmed),
               ConfirmRead(w, r, base, accept, reject)
        PROVE  RowsInv'
    <3> DEFINE input == [base |-> base, payload |-> 0, accept |-> accept,
                         reject |-> reject]
               c == [request |-> r, kind |-> "confirmation", token |-> 0,
                     input |-> input]
    <3>1. base \in Nat /\ session.proposed \cup session.confirmed \subseteq Evidence
      BY <1>1 DEF TypeOK, Session
    <3>2. input \in Input
      BY <3>1 DEF Input
    <3>3. Enter(w, "confirm", c, r) /\ UNCHANGED <<clock, tokens, tables>>
      BY <2>4 DEF ConfirmRead
    <3> HIDE DEF input
    <3>4. c \in Call /\ c.kind = "confirmation" /\ "confirm" \in Reading
      BY <3>2 DEF Call, Kinds, Reading
    <3> HIDE DEF c
    <3> QED
      BY <3>3, <3>4, <1>1, EnterRowsStep
  <2>5. ASSUME NEW r \in Requests, NEW base \in 0 .. session.revision,
               ApplyRead(w, r, base)
        PROVE  RowsInv'
    <3> DEFINE c == [request |-> r, kind |-> "apply", token |-> 0,
                     input |-> [NoInput EXCEPT !.base = base]]
    <3>1. base \in Nat
      BY <1>1 DEF TypeOK, Session
    <3>2. c \in Call /\ "apply" \in Reading
      BY <3>1, EmptyTypes DEF Call, Kinds, Input, Reading
    <3>3. Enter(w, "apply", c, r) /\ UNCHANGED <<clock, tokens, tables>>
      BY <2>5 DEF ApplyRead
    <3> HIDE DEF c
    <3> QED
      BY <3>2, <3>3, <1>1, EnterRowsStep
  <2>6. ASSUME NEW r \in Requests, NEW base \in 0 .. session.revision,
               NEW payload \in Bodies \cup 0 .. Len(turns),
               RetryRead(w, r, [NoInput EXCEPT !.base = base, !.payload = payload])
        PROVE  RowsInv'
    <3> DEFINE input == [NoInput EXCEPT !.base = base, !.payload = payload]
               c == [request |-> r, kind |-> ops[r].kind, token |-> 0, input |-> input]
    <3>1. base \in Nat /\ payload \in Nat /\ ops[r] \in Op
      BY <1>1 DEF TypeOK, Session
    <3>2. input \in Input
      BY <3>1, EmptyTypes DEF Input
    <3>3. /\ Enter(w, "reclaim", c, r) /\ UNCHANGED <<clock, tokens, tables>>
          /\ ops[r].kind \in {"start", "answer", "proposal"}
      BY <2>6 DEF RetryRead
    <3> HIDE DEF input
    <3>4. c \in Call /\ c.kind = ops[r].kind /\ "reclaim" \in Reading
      BY <3>1, <3>2 DEF Call, Op, Reading
    <3> HIDE DEF c
    <3> QED
      BY <3>3, <3>4, <1>1, EnterRowsStep
  <2> QED
    BY <1>2, <2>1, <2>2, <2>3, <2>4, <2>5, <2>6 DEF Receive
<1>3. ASSUME NEW w \in Workers, Refused(w) \/ Crash(w) PROVE RowsInv'
  <2>1. Return(w) /\ UNCHANGED <<clock, tokens, tables>>
    BY <1>3 DEF Refused, Crash
  <2>2. OnlyMoves(w) /\ pc'[w] = "idle"
    BY <1>1, <2>1 DEF Return, OnlyMoves, TypeOK
  <2> QED
    BY <1>1, <2>1, <2>2, QuietStep DEF Owning
<1>4. ASSUME NEW w \in Workers, ReplyRead(w) \/ ErrorRead(w) PROVE RowsInv'
  <2>1. /\ UNCHANGED <<clock, tokens, tables, call>> /\ pc[w] = "model"
        /\ snap' = [snap EXCEPT ![w] = Read(call[w].request)]
        /\ pc' = [pc EXCEPT ![w] = "finish"] \/ pc' = [pc EXCEPT ![w] = "fail"]
    BY <1>4 DEF ReplyRead, ErrorRead
  <2>2. /\ OnlyMoves(w) /\ pc'[w] \in {"finish", "fail"}
        /\ call'[w] = call[w] /\ snap'[w].confirmed = session.confirmed
    BY <1>1, <2>1 DEF OnlyMoves, TypeOK, Read
  <2> QED
    BY <1>1, <2>1, <2>2, QuietStep DEF Owning
<1>5. ASSUME NEW w \in Workers, Proceed(w) PROVE RowsInv'
  BY <1>1, <1>3, <1>4, <1>5, ClaimRowsStep, ConfirmRowsStep, ApplyRowsStep, ReplyRowsStep,
     GenerationRowsStep, FailureRowsStep DEF Proceed
<1>6. CASE Delete \/ Cleanup
  BY <1>1, <1>6, RemoveRowsStep DEF Delete, Cleanup
<1>7. CASE Tick \/ UNCHANGED vars
  <2>1. UNCHANGED <<tokens, session, ops, turns, proposals, pc, call, snap>>
    BY <1>7 DEF Tick, vars, tables
  <2>2. (Phases /\ ChoicesHold /\ EvidenceFresh /\ DraftsHold)'
    BY <2>1 DEF RowsInv, Phases, ChoicesHold, EvidenceFresh, DraftsHold, Attached
  <2>3. OneTurnEach'
    BY <2>1, SameTurns
  <2>4. ChoiceIsCurrent'
    BY <2>1 DEF RowsInv, ChoiceIsCurrent
  <2>5. EvidenceDecidedOnce'
    BY <2>1 DEF RowsInv, EvidenceDecidedOnce
  <2>6. ProposalIsCurrent'
    BY <2>1, DraftsForm DEF RowsInv
  <2> QED
    BY <1>1, <2>2, <2>3, <2>4, <2>5, <2>6 DEF RowsInv
<1> QED
  BY <1>2, <1>3, <1>5, <1>6, <1>7 DEF Next

\* What the rows of an interview say of one another holds in every reachable state.
THEOREM Rows == Spec => []RowsInv
  BY InitRows, StepRows, PTL DEF Spec

\* However often a request is retried and whoever overtakes whom, a request stores its
\* user turn once, and a reply once and only if it succeeded.
THEOREM OneTurnEachHolds == Spec => []OneTurnEach
<1>1. RowsInv => OneTurnEach
  BY DEF RowsInv
<1> QED
  BY <1>1, Rows, PTL

\* A stored choice answers the latest question, though the question was compared in an
\* earlier read than the one that decides whether the answer is stored.
THEOREM ChoiceIsCurrentHolds == Spec => []ChoiceIsCurrent
<1>1. RowsInv => ChoiceIsCurrent
  BY DEF RowsInv
<1> QED
  BY <1>1, Rows, PTL

\* No evidence is decided twice, and what is confirmed is what was accepted.
THEOREM EvidenceDecidedOnceHolds == Spec => []EvidenceDecidedOnce
<1>1. RowsInv => EvidenceDecidedOnce
  BY DEF RowsInv
<1> QED
  BY <1>1, Rows, PTL

\* A draft at the session's revision is the only one and holds the facts confirmed now.
THEOREM ProposalIsCurrentHolds == Spec => []ProposalIsCurrent
<1>1. RowsInv => ProposalIsCurrent
  BY DEF RowsInv
<1> QED
  BY <1>1, Rows, PTL

\* No step but a deletion takes confirmed evidence or a stored turn away.
LEMMA NothingLostStep ==
  ASSUME RowsInv, [Next]_vars, session'.id = session.id
  PROVE  /\ session.confirmed \subseteq session'.confirmed
         /\ Len(turns) <= Len(turns') /\ SubSeq(turns', 1, Len(turns)) = turns
<1>1. TypeOK /\ TypeOK' /\ turns \in Seq(Turn) /\ Len(turns) \in Nat
  BY StepType DEF RowsInv, OwnershipInv, TypeOK
<1>2. ASSUME turns' = turns
      PROVE  Len(turns) <= Len(turns') /\ SubSeq(turns', 1, Len(turns)) = turns
  BY <1>1, <1>2, SubSeqFull
<1>3. ASSUME NEW t \in Turn, turns' = Append(turns, t)
      PROVE  Len(turns) <= Len(turns') /\ SubSeq(turns', 1, Len(turns)) = turns
  <2>1. /\ turns' \in Seq(Turn) /\ Len(turns') = Len(turns) + 1
        /\ \A i \in 1 .. Len(turns) : turns'[i] = turns[i]
    BY <1>1, <1>3
  <2>2. /\ SubSeq(turns', 1, Len(turns)) \in Seq(Turn)
        /\ Len(SubSeq(turns', 1, Len(turns))) = Len(turns)
        /\ \A i \in 1 .. Len(turns) : SubSeq(turns', 1, Len(turns))[i] = turns[i]
    BY <1>1, <2>1, SubSeqProperties
  <2> QED
    BY <1>1, <2>1, <2>2, SeqEqual
<1>4. ASSUME NEW w \in Workers, ClaimAnswer(w) \/ ClaimGeneration(w) \/ Reclaim(w)
      PROVE  session'.confirmed = session.confirmed
             /\ (turns' = turns \/ \E t \in Turn : turns' = Append(turns, t))
  <2>1. call[w] \in Call /\ snap[w] \in Snapshot
    BY <1>1 DEF TypeOK
  <2>2. UserTurn(w) \in Turn
    BY <2>1 DEF UserTurn, Turn, Call, Input, Snapshot
  <2>3. /\ session'.confirmed = session.confirmed
        /\ turns' = turns \/ turns' = Append(turns, UserTurn(w))
    BY <1>1, <1>4, ClaimRows
  <2> QED
    BY <2>2, <2>3
<1>5. ASSUME NEW w \in Workers, NEW slots \in SUBSET Slots, NEW ready \in BOOLEAN,
             NEW scope \in Scopes \cup {NoScope}, FinishReply(w, slots, ready, scope)
      PROVE  session'.confirmed = session.confirmed
             /\ (turns' = turns \/ \E t \in Turn : turns' = Append(turns, t))
  <2>1. call[w] \in Call /\ snap[w] \in Snapshot
    BY <1>1 DEF TypeOK
  <2>2. AssistantTurn(w) \in Turn
    BY <2>1 DEF AssistantTurn, Turn, Call, Snapshot
  <2>3. session'.confirmed = session.confirmed /\ turns' = Append(turns, AssistantTurn(w))
    BY <1>1, <1>5, ReplyRows
  <2> QED
    BY <2>2, <2>3
<1>6. ASSUME NEW w \in Workers,
             Confirm(w) \/ Apply(w) \/ RecordFailure(w)
             \/ \E workflow \in Scopes : FinishGeneration(w, workflow)
      PROVE  session.confirmed \subseteq session'.confirmed /\ turns' = turns
  <2>1. CASE Confirm(w)
    BY <2>1, <1>1, ConfirmRows
  <2>2. CASE Apply(w)
    BY <2>2, <1>1, ApplyRows
  <2>3. CASE RecordFailure(w)
    BY <2>3, <1>1, FailureRows
  <2>4. ASSUME NEW workflow \in Scopes, FinishGeneration(w, workflow)
        PROVE  session.confirmed \subseteq session'.confirmed /\ turns' = turns
    BY <2>4, <1>1, GenerationRows
  <2> QED
    BY <1>6, <2>1, <2>2, <2>3, <2>4
<1>7. ASSUME NEW w \in Workers, Receive(w)
      PROVE  tables' = tables \/ \E body \in Bodies : StartCreate(w, body)
  <2> DEFINE Outcome == tables' = tables \/ \E body \in Bodies : StartCreate(w, body)
  <2> SUFFICES Outcome
    OBVIOUS
  <2>1. CASE \E body \in Bodies : StartCreate(w, body)
    BY <2>1
  <2>2. ASSUME NEW r \in Requests, NEW base \in 0 .. session.revision,
               NEW question \in 0 .. Len(turns), AnswerRead(w, r, base, question)
        PROVE  Outcome
    BY <2>2 DEF AnswerRead
  <2>3. ASSUME NEW r \in Requests, NEW base \in 0 .. session.revision,
               GenerateRead(w, r, base)
        PROVE  Outcome
    BY <2>3 DEF GenerateRead
  <2>4. ASSUME NEW r \in Requests, NEW base \in 0 .. session.revision,
               NEW accept \in SUBSET (session.proposed \cup session.confirmed),
               NEW reject \in SUBSET (session.proposed \cup session.confirmed),
               ConfirmRead(w, r, base, accept, reject)
        PROVE  Outcome
    BY <2>4 DEF ConfirmRead
  <2>5. ASSUME NEW r \in Requests, NEW base \in 0 .. session.revision,
               ApplyRead(w, r, base)
        PROVE  Outcome
    BY <2>5 DEF ApplyRead
  <2>6. ASSUME NEW r \in Requests, NEW base \in 0 .. session.revision,
               NEW payload \in Bodies \cup 0 .. Len(turns),
               RetryRead(w, r, [NoInput EXCEPT !.base = base, !.payload = payload])
        PROVE  Outcome
    BY <2>6 DEF RetryRead
  <2> HIDE DEF Outcome
  <2> QED
    BY <1>7, <2>1, <2>2, <2>3, <2>4, <2>5, <2>6 DEF Receive
<1>8. ASSUME NEW w \in Workers, ReplyRead(w) \/ ErrorRead(w) \/ Refused(w) \/ Crash(w)
       PROVE  tables' = tables
  BY <1>8 DEF ReplyRead, ErrorRead, Refused, Crash
<1>9. tables' = tables => session' = session /\ turns' = turns
  BY DEF tables
<1>10. ASSUME NEW w \in Workers, NEW body \in Bodies, StartCreate(w, body) PROVE FALSE
  <2>1. session.id = 0 /\ session'.id = tokens + 1 /\ tokens \in Nat
    BY <1>1, <1>10 DEF StartCreate, NoSession, TypeOK
  <2> QED
    BY <2>1
<1>11. CASE Delete \/ Cleanup
  <2>1. session.id # 0 /\ session'.id = 0
    BY <1>11 DEF Delete, Cleanup, Readable, RemoveRows, NoSession
  <2> QED
    BY <2>1
<1>12. CASE Tick \/ UNCHANGED vars
  <2>1. session' = session /\ turns' = turns
    BY <1>12 DEF Tick, vars, tables
  <2> QED
    BY <2>1, <1>2
<1>13. ASSUME NEW w \in Workers, Receive(w) \/ Proceed(w) \/ Crash(w)
       PROVE  /\ session.confirmed \subseteq session'.confirmed
              /\ turns' = turns \/ \E t \in Turn : turns' = Append(turns, t)
  BY <1>4, <1>5, <1>6, <1>7, <1>8, <1>9, <1>10, <1>13 DEF Proceed
<1> QED
  BY <1>2, <1>3, <1>11, <1>12, <1>13 DEF Next

\* Confirmed evidence and stored turns are never lost while the interview exists,
\* whatever retries, crashes and late replies do.
THEOREM NothingConfirmedIsLostHolds == Spec => NothingConfirmedIsLost
<1>1. RowsInv /\ [Next]_vars =>
        [session'.id = session.id =>
           /\ session.confirmed \subseteq session'.confirmed
           /\ Len(turns) <= Len(turns') /\ SubSeq(turns', 1, Len(turns)) = turns]_vars
  BY NothingLostStep
<1> QED
  BY <1>1, Rows, PTL DEF Spec, NothingConfirmedIsLost
-----------------------------------------------------------------------------
(* Calls that have read *)

\* A task that returns or commits disturbs no other one that has read: either the session
\* stays as it is for those, or it goes on to its next revision, or it is another session.
LEMMA CallsKept ==
  ASSUME OwnershipInv, TypeOK', CallsHold, NEW w \in Workers, OnlyMoves(w),
         clock' >= clock, pc'[w] \notin Reading,
         \/ /\ session'.id = session.id /\ session'.revision = session.revision
            /\ session'.scope = session.scope /\ proposals' = proposals
         \/ session'.id = session.id /\ session'.revision = session.revision + 1
         \/ \A v \in Workers : pc[v] # "idle" => session'.id # snap[v].id
  PROVE  CallsHold'
<1> SUFFICES ASSUME NEW v \in Workers, pc'[v] \in Reading
             PROVE  /\ snap'[v].now <= clock' /\ ~LiveAt(snap'[v].last, snap'[v].now)
                    /\ pc'[v] = "confirm" =>
                         /\ Decided(call'[v].input) # {}
                         /\ call'[v].input.accept \cap call'[v].input.reject = {}
                    /\ pc'[v] = "apply" /\ Attached(v)'
                         /\ session'.revision = call'[v].input.base =>
                         /\ session'.scope # NoScope
                         /\ proposals'[call'[v].request].workflow = session'.scope
  BY DEF CallsHold, Reading, Decided, LiveAt
<1>1. /\ pc'[v] = pc[v] /\ call'[v] = call[v] /\ snap'[v] = snap[v]
      /\ pc[v] # "idle" /\ pc[v] \in Reading
  BY DEF OnlyMoves, Reading
<1>2. /\ snap[v].now \in Int /\ clock \in Int /\ clock' \in Int
      /\ session.revision \in Nat /\ call[v].input.base \in Nat
  BY DEF OwnershipInv, TypeOK, Snapshot, Session, Call, Input
<1>3. /\ snap[v].now <= clock /\ ~LiveAt(snap[v].last, snap[v].now)
      /\ pc[v] = "confirm" =>
           /\ Decided(call[v].input) # {}
           /\ call[v].input.accept \cap call[v].input.reject = {}
      /\ pc[v] = "apply" /\ Attached(v) /\ session.revision = call[v].input.base =>
           /\ session.scope # NoScope
           /\ proposals[call[v].request].workflow = session.scope
  BY <1>1 DEF CallsHold
<1>4. Attached(v) => call[v].input.base <= session.revision
  BY DEF OwnershipInv, RevisionsReached
<1>5. Attached(v)' =>
        \/ /\ Attached(v) /\ session'.revision = session.revision
           /\ session'.scope = session.scope /\ proposals' = proposals
        \/ Attached(v) /\ session'.revision = session.revision + 1
  BY <1>1 DEF Attached
<1> QED
  BY <1>1, <1>2, <1>3, <1>4, <1>5

\* A task that has just read knows the rows as they are.
LEMMA CallsEnter ==
  ASSUME OwnershipInv, CallsHold, NEW w \in Workers, NEW r \in Requests, NEW c \in Call,
         NEW phase \in Reading, Enter(w, phase, c, r), UNCHANGED <<clock, tokens, tables>>,
         ~LiveAt(session.last, clock),
         phase = "confirm" => Decided(c.input) # {} /\ c.input.accept \cap c.input.reject = {},
         phase = "apply" =>
           session.scope # NoScope /\ proposals[c.request].workflow = session.scope
  PROVE  CallsHold'
<1>1. /\ OnlyMoves(w) /\ pc'[w] = phase /\ call'[w] = c /\ snap'[w] = Read(r)
      /\ UNCHANGED <<clock, session, proposals>> /\ clock \in Int
  BY DEF Enter, OnlyMoves, OwnershipInv, TypeOK, tables
<1>2. Read(r).now = clock /\ Read(r).last = session.last
  BY DEF Read
<1> QED
  BY <1>1, <1>2 DEF CallsHold, OnlyMoves, Attached

LEMMA StepCalls == RowsInv /\ CallsHold /\ [Next]_vars => CallsHold'
<1> SUFFICES ASSUME RowsInv, CallsHold, [Next]_vars PROVE CallsHold'
  OBVIOUS
<1>1. OwnershipInv /\ OwnershipInv' /\ TypeOK /\ TypeOK'
  BY StepOwnership DEF RowsInv, OwnershipInv
<1>2. ASSUME NEW w \in Workers, NEW body \in Bodies, StartCreate(w, body) PROVE CallsHold'
  <2>1. /\ OnlyMoves(w) /\ pc'[w] = "model" /\ UNCHANGED clock /\ session'.id = tokens + 1
    BY <1>1, <1>2 DEF StartCreate, OnlyMoves, TypeOK, NoSession
  <2>2. /\ tokens \in Nat /\ clock \in Int
        /\ \A v \in Workers : pc[v] # "idle" => snap[v].id \in 1 .. tokens
    BY <1>1 DEF OwnershipInv, TypeOK, TokensFresh
  <2>3. \A v \in Workers : pc[v] # "idle" => session'.id # snap[v].id
    BY <2>1, <2>2
  <2> QED
    BY <1>1, <2>1, <2>2, <2>3, CallsKept DEF Reading
<1>3. ASSUME NEW w \in Workers, NEW r \in Requests, NEW base \in 0 .. session.revision,
             NEW question \in 0 .. Len(turns), AnswerRead(w, r, base, question)
      PROVE  CallsHold'
  <2> DEFINE c == [request |-> r, kind |-> "answer", token |-> 0,
                   input |-> [NoInput EXCEPT !.base = base, !.payload = question]]
  <2>1. base \in Nat /\ question \in Nat
    BY <1>1 DEF TypeOK, Session
  <2>2. c \in Call
    BY <2>1, EmptyTypes DEF Call, Kinds, Input
  <2>3. /\ Enter(w, "claim", c, r) /\ UNCHANGED <<clock, tokens, tables>>
        /\ ~LiveAt(session.last, clock) /\ "claim" \in Reading
    BY <1>3 DEF AnswerRead, Reading
  <2> HIDE DEF c
  <2> QED
    BY <1>1, <2>2, <2>3, CallsEnter
<1>4. ASSUME NEW w \in Workers, NEW r \in Requests, NEW base \in 0 .. session.revision,
             GenerateRead(w, r, base)
      PROVE  CallsHold'
  <2> DEFINE c == [request |-> r, kind |-> "proposal", token |-> 0,
                   input |-> [NoInput EXCEPT !.base = base]]
  <2>1. base \in Nat
    BY <1>1 DEF TypeOK, Session
  <2>2. c \in Call
    BY <2>1, EmptyTypes DEF Call, Kinds, Input
  <2>3. /\ Enter(w, "claim", c, r) /\ UNCHANGED <<clock, tokens, tables>>
        /\ ~LiveAt(session.last, clock) /\ "claim" \in Reading
    BY <1>4 DEF GenerateRead, Reading
  <2> HIDE DEF c
  <2> QED
    BY <1>1, <2>2, <2>3, CallsEnter
<1>5. ASSUME NEW w \in Workers, NEW r \in Requests, NEW base \in 0 .. session.revision,
             NEW accept \in SUBSET (session.proposed \cup session.confirmed),
             NEW reject \in SUBSET (session.proposed \cup session.confirmed),
             ConfirmRead(w, r, base, accept, reject)
      PROVE  CallsHold'
  <2> DEFINE input == [base |-> base, payload |-> 0, accept |-> accept, reject |-> reject]
             c == [request |-> r, kind |-> "confirmation", token |-> 0, input |-> input]
  <2>1. base \in Nat /\ session.proposed \cup session.confirmed \subseteq Evidence
    BY <1>1 DEF TypeOK, Session
  <2>2. input \in Input /\ input.accept = accept /\ input.reject = reject
    BY <2>1 DEF Input
  <2>3. /\ Enter(w, "confirm", c, r) /\ UNCHANGED <<clock, tokens, tables>>
        /\ ~LiveAt(session.last, clock) /\ "confirm" \in Reading
        /\ accept \cup reject # {} /\ accept \cap reject = {}
    BY <1>5 DEF ConfirmRead, Reading
  <2> HIDE DEF input
  <2>4. c \in Call /\ c.input = input
    BY <2>2 DEF Call, Kinds
  <2> HIDE DEF c
  <2> QED
    BY <1>1, <2>2, <2>3, <2>4, CallsEnter DEF Decided
<1>6. ASSUME NEW w \in Workers, NEW r \in Requests, NEW base \in 0 .. session.revision,
             ApplyRead(w, r, base)
      PROVE  CallsHold'
  <2> DEFINE c == [request |-> r, kind |-> "apply", token |-> 0,
                   input |-> [NoInput EXCEPT !.base = base]]
  <2>1. base \in Nat
    BY <1>1 DEF TypeOK, Session
  <2>2. c \in Call /\ c.request = r
    BY <2>1, EmptyTypes DEF Call, Kinds, Input
  <2>3. /\ Enter(w, "apply", c, r) /\ UNCHANGED <<clock, tokens, tables>>
        /\ ~LiveAt(session.last, clock) /\ "apply" \in Reading
        /\ session.scope # NoScope /\ proposals[r].workflow = session.scope
    BY <1>6 DEF ApplyRead, Reading
  <2> HIDE DEF c
  <2> QED
    BY <1>1, <2>2, <2>3, CallsEnter
<1>7. ASSUME NEW w \in Workers, NEW r \in Requests, NEW base \in 0 .. session.revision,
             NEW payload \in Bodies \cup 0 .. Len(turns),
             RetryRead(w, r, [NoInput EXCEPT !.base = base, !.payload = payload])
      PROVE  CallsHold'
  <2> DEFINE input == [NoInput EXCEPT !.base = base, !.payload = payload]
             c == [request |-> r, kind |-> ops[r].kind, token |-> 0, input |-> input]
  <2>1. base \in Nat /\ payload \in Nat /\ ops[r] \in Op
    BY <1>1 DEF TypeOK, Session
  <2>2. input \in Input
    BY <2>1, EmptyTypes DEF Input
  <2>3. /\ Enter(w, "reclaim", c, r) /\ UNCHANGED <<clock, tokens, tables>>
        /\ ~LiveAt(session.last, clock) /\ "reclaim" \in Reading
    BY <1>7 DEF RetryRead, Reading
  <2> HIDE DEF input
  <2>4. c \in Call
    BY <2>1, <2>2 DEF Call, Op
  <2> HIDE DEF c
  <2> QED
    BY <1>1, <2>3, <2>4, CallsEnter
<1>8. ASSUME NEW w \in Workers, Receive(w) PROVE CallsHold'
  BY <1>2, <1>3, <1>4, <1>5, <1>6, <1>7, <1>8 DEF Receive
<1>9. ASSUME NEW w \in Workers, Refused(w) \/ Crash(w) \/ ReplyRead(w) \/ ErrorRead(w)
      PROVE  CallsHold'
  <2>1. OnlyMoves(w) /\ UNCHANGED <<clock, session, proposals>> /\ pc'[w] \notin Reading
    BY <1>1, <1>9 DEF Refused, Crash, Return, ReplyRead, ErrorRead, OnlyMoves, TypeOK, Reading,
                      tables
  <2>2. clock \in Int
    BY <1>1 DEF TypeOK
  <2> QED
    BY <1>1, <2>1, <2>2, CallsKept
<1>10. ASSUME NEW w \in Workers, ClaimAnswer(w) \/ ClaimGeneration(w) \/ Reclaim(w)
       PROVE  CallsHold'
  <2>1. /\ OnlyMoves(w) /\ pc'[w] = "model" /\ proposals' = proposals
        /\ session'.id = session.id /\ session'.revision = session.revision
    BY <1>1, <1>10, ClaimRows
  <2>2. UNCHANGED clock /\ clock \in Int /\ session'.scope = session.scope
    BY <1>1, <1>10 DEF ClaimAnswer, ClaimGeneration, Reclaim, ClaimedSession, TypeOK, Session
  <2> QED
    BY <1>1, <2>1, <2>2, CallsKept DEF Reading
<1>11. ASSUME NEW w \in Workers, Confirm(w) \/ Apply(w) PROVE CallsHold'
  <2>1. /\ OnlyMoves(w) /\ pc'[w] = "idle"
        /\ session'.id = session.id /\ session'.revision = session.revision + 1
    BY <1>1, <1>11, ConfirmRows, ApplyRows
  <2>2. UNCHANGED clock /\ clock \in Int
    BY <1>1, <1>11 DEF Confirm, Apply, TypeOK
  <2> QED
    BY <1>1, <2>1, <2>2, CallsKept DEF Reading
\* What the end of an owner leaves to the others.
<1>12. ASSUME NEW w \in Workers, Return(w), UNCHANGED clock, session'.id = session.id,
              \/ session'.revision = session.revision + 1
              \/ /\ session'.revision = session.revision /\ session'.scope = session.scope
                 /\ proposals' = proposals
       PROVE  CallsHold'
  <2>1. OnlyMoves(w) /\ pc'[w] = "idle" /\ clock \in Int
    BY <1>1, <1>12 DEF Return, OnlyMoves, TypeOK
  <2> QED
    BY <1>1, <1>12, <2>1, CallsKept DEF Reading
<1>13. ASSUME NEW w \in Workers, NEW slots \in SUBSET Slots, NEW ready \in BOOLEAN,
              NEW scope \in Scopes \cup {NoScope}, FinishReply(w, slots, ready, scope)
       PROVE  CallsHold'
  <2>1. /\ Return(w) /\ session'.id = session.id /\ session'.revision = session.revision + 1
    BY <1>1, <1>13, ReplyRows
  <2>2. UNCHANGED clock
    BY <1>13 DEF FinishReply
  <2> QED
    BY <1>12, <2>1, <2>2
<1>14. ASSUME NEW w \in Workers, NEW workflow \in Scopes, FinishGeneration(w, workflow)
       PROVE  CallsHold'
  <2>1. /\ Return(w) /\ session'.id = session.id /\ session'.revision = session.revision + 1
    BY <1>1, <1>14, GenerationRows
  <2>2. UNCHANGED clock
    BY <1>14 DEF FinishGeneration
  <2> QED
    BY <1>12, <2>1, <2>2
<1>15. ASSUME NEW w \in Workers, RecordFailure(w) PROVE CallsHold'
  <2>1. /\ Return(w) /\ session'.id = session.id /\ session'.revision = session.revision
        /\ proposals' = proposals
    BY <1>1, <1>15, FailureRows
  <2>2. UNCHANGED clock /\ session'.scope = session.scope
    BY <1>1, <1>15 DEF RecordFailure, TypeOK, Session
  <2> QED
    BY <1>12, <2>1, <2>2
<1>16. ASSUME NEW w \in Workers, Proceed(w) PROVE CallsHold'
  BY <1>9, <1>10, <1>11, <1>13, <1>14, <1>15, <1>16 DEF Proceed
<1>17. CASE Delete \/ Cleanup
  <2>1. session'.id = 0 /\ UNCHANGED <<clock, pc, call, snap>>
    BY <1>17 DEF Delete, Cleanup, RemoveRows, NoSession
  <2>2. \A w \in Workers : pc[w] # "idle" => snap[w].id \in 1 .. tokens
    BY <1>1 DEF OwnershipInv, TokensFresh
  <2>3. \A w \in Workers : ~ Attached(w)'
    BY <2>1, <2>2 DEF Attached
  <2> QED
    BY <2>1, <2>3 DEF CallsHold
<1>18. CASE Tick \/ UNCHANGED vars
  <2>1. clock' >= clock /\ UNCHANGED <<session, proposals, pc, call, snap>>
    BY <1>1, <1>18 DEF Tick, vars, tables, TypeOK
  <2>2. clock \in Int /\ clock' \in Int /\ \A w \in Workers : snap[w].now \in Int
    BY <1>1 DEF TypeOK, Snapshot
  <2> QED
    BY <2>1, <2>2 DEF CallsHold, Attached
<1> QED
  BY <1>8, <1>16, <1>9, <1>17, <1>18 DEF Next

\* What a task read of the owner, of its call and of the proposal it is to apply holds until
\* it commits, or its commit fails.
THEOREM Calls == Spec => []CallsHold
<1>1. Init => CallsHold
  BY DEF Init, CallsHold, Reading
<1>2. RowsInv /\ CallsHold /\ [Next]_vars => CallsHold'
  BY StepCalls
<1> QED
  BY <1>1, <1>2, Rows, PTL DEF Spec

-----------------------------------------------------------------------------
(* One request at a time *)

\* What the log tells of a request is told by its row, and of the interview by its session.
LEMMA Logged ==
  /\ \A r \in Requests :
       /\ RequestsLogged[r] = AsLogged(ops[r])
       /\ RequestsLogged[r].kind = ops[r].kind /\ RequestsLogged[r].status = ops[r].status
       /\ RequestsLogged[r].base = ops[r].base
       /\ RequestsLogged[r].decided =
            IF ops[r].kind = "confirmation" THEN Decided(ops[r].digest) ELSE {}
  /\ InterviewLogged.revision = session.revision /\ InterviewLogged.status = session.status
  /\ InterviewLogged.scope = session.scope /\ InterviewLogged.proposed = session.proposed
  /\ InterviewLogged.confirmed = session.confirmed
  BY DEF RequestsLogged, AsLogged, InterviewLogged

\* A row that is written, or gets another status, is logged so.
LEMMA RowLogged ==
  ASSUME TypeOK, NEW r \in Requests, NEW op, ops' = [ops EXCEPT ![r] = op]
  PROVE  RequestsLogged' = [RequestsLogged EXCEPT ![r] = AsLogged(op)]
<1>1. \A s \in Requests : ops'[s] = IF s = r THEN op ELSE ops[s]
  BY DEF TypeOK
<1>2. RequestsLogged' = [s \in Requests |-> AsLogged(ops'[s])]
  BY DEF RequestsLogged, AsLogged, Decided
<1>3. RequestsLogged = [s \in Requests |-> AsLogged(ops[s])]
  BY DEF RequestsLogged
<1>4. \A s \in Requests : AsLogged(ops'[s]) = IF s = r THEN AsLogged(op) ELSE AsLogged(ops[s])
  BY <1>1
<1> QED
  BY <1>2, <1>3, <1>4

LEMMA StatusLogged ==
  ASSUME TypeOK, NEW r \in Requests, NEW status, ops' = [ops EXCEPT ![r].status = status]
  PROVE  RequestsLogged' = [RequestsLogged EXCEPT ![r].status = status]
<1> DEFINE op == [ops[r] EXCEPT !.status = status]
<1>1. ops' = [ops EXCEPT ![r] = op] /\ ops[r] \in Op
  BY DEF TypeOK
<1>2. AsLogged(op) = [AsLogged(ops[r]) EXCEPT !.status = status]
  BY <1>1 DEF AsLogged, Op
<1> HIDE DEF op
<1>3. RequestsLogged' = [RequestsLogged EXCEPT ![r] = AsLogged(op)]
  BY <1>1, RowLogged
<1>4. RequestsLogged[r] = AsLogged(ops[r])
  BY Logged
<1> QED
  BY <1>2, <1>3, <1>4

LEMMA SessionLogged ==
  ASSUME session'.revision = session.revision, session'.status = session.status,
         session'.scope = session.scope, session'.proposed = session.proposed,
         session'.confirmed = session.confirmed
  PROVE  InterviewLogged' = InterviewLogged
  BY DEF InterviewLogged

\* Where a task that has read finds the session as it read it, nobody owns the interview,
\* and what it read of its operation is so.
LEMMA ClaimLogged ==
  ASSUME RowsInv, CallsHold, NEW w \in Workers, pc[w] \in Reading, ClaimHolds(w)
  PROVE  /\ session.id # 0 /\ session.revision = call[w].input.base
         /\ session.last = snap[w].last /\ Attached(w)
         /\ call[w].request \in Requests /\ ops[call[w].request] = snap[w].op
         /\ snap[w].now \in Int /\ snap[w].now <= clock /\ clock \in Int
         /\ ~ Log!Busy
<1>1. /\ call[w] \in Call /\ snap[w] \in Snapshot /\ session \in Session /\ clock \in Int
      /\ OwnershipInv
  BY DEF RowsInv, OwnershipInv, TypeOK
<1>2. /\ session.id = snap[w].id /\ session.revision = call[w].input.base
      /\ session.last = snap[w].last /\ pc[w] # "idle"
  BY DEF ClaimHolds, Reading
<1>3. session.id # 0 /\ Attached(w)
  BY <1>1, <1>2 DEF OwnershipInv, TokensFresh, Attached
<1>4. ops[call[w].request] = snap[w].op
  BY <1>1, <1>2, <1>3 DEF OwnershipInv, ReadsHold
<1>5. call[w].request \in Requests /\ snap[w].now \in Int /\ session.last.request \in Requests
      /\ session.last.lease \in Int
  BY <1>1 DEF Call, Snapshot, Session, LastOperation
<1>6. snap[w].now <= clock /\ ~LiveAt(session.last, snap[w].now)
  BY <1>2 DEF CallsHold
<1>7. ops[session.last.request].status = session.last.status
  BY <1>1, <1>3 DEF OwnershipInv, OwnerAgrees
<1>8. ~ Log!Busy
  BY <1>1, <1>5, <1>6, <1>7, Logged DEF Log!Busy, LiveAt
<1> QED
  BY <1>1, <1>2, <1>3, <1>4, <1>5, <1>6, <1>8

\* What such a task writes to the session makes its request the owner.
LEMMA ClaimOwns ==
  ASSUME RowsInv, NEW w \in Workers, NEW token \in Nat,
         session' = ClaimedSession(w, token)
  PROVE  /\ session'.id = session.id /\ InterviewLogged' = InterviewLogged
         /\ session'.last.request = call[w].request
         /\ session'.last.lease = snap[w].now + Lease
<1>1. session \in Session
  BY DEF RowsInv, OwnershipInv, TypeOK
<1>2. /\ session'.id = session.id /\ session'.revision = session.revision
      /\ session'.status = session.status /\ session'.scope = session.scope
      /\ session'.proposed = session.proposed /\ session'.confirmed = session.confirmed
      /\ session'.last.request = call[w].request
      /\ session'.last.lease = snap[w].now + Lease
  BY <1>1 DEF ClaimedSession, Session
<1> QED
  BY <1>2, SessionLogged

LEMMA NewLogged ==
  ASSUME NEW w \in Workers, NEW token, session.revision = call[w].input.base,
         call[w].kind # "confirmation"
  PROVE  AsLogged(NewOperation(w, token)) = Log!New(call[w].kind)
  BY Logged DEF AsLogged, NewOperation, Log!New

LEMMA AnswerLogged ==
  ASSUME RowsInv, CallsHold, TypeOK', NEW w \in Workers, ClaimAnswer(w)
  PROVE  Log!Next
<1> DEFINE r == call[w].request
           question == call[w].input.payload
<1>1. /\ pc[w] = "claim" /\ call[w].kind = "answer" /\ ClaimHolds(w)
      /\ session' = ClaimedSession(w, tokens + 1)
      /\ ops' = [ops EXCEPT ![r] = NewOperation(w, tokens + 1)]
      /\ turns' = Append(turns, UserTurn(w)) /\ UNCHANGED <<clock, proposals>>
      /\ pc[w] \in Reading
  BY DEF ClaimAnswer, Reading
<1>2. /\ session.id # 0 /\ session.revision = call[w].input.base /\ Attached(w)
      /\ session.last = snap[w].last /\ r \in Requests /\ ops[r] = snap[w].op
      /\ snap[w].now \in Int /\ snap[w].now <= clock /\ clock \in Int /\ ~ Log!Busy
  BY <1>1, ClaimLogged
<1>3. TypeOK /\ tokens + 1 \in Nat
  BY DEF RowsInv, OwnershipInv, TypeOK
<1>4. /\ session'.id = session.id /\ InterviewLogged' = InterviewLogged
      /\ session'.last.request = r /\ session'.last.lease = snap[w].now + Lease
  BY <1>1, <1>3, ClaimOwns
<1>5. Log!Own(r)
  BY <1>2, <1>4 DEF Log!Own
<1>6. RequestsLogged[r].status = "none"
  BY <1>1, <1>2, Logged DEF RowsInv, OwnershipInv, ReadsHold
<1>7. RequestsLogged' = [RequestsLogged EXCEPT ![r] = Log!New("answer")]
  <2> DEFINE op == NewOperation(w, tokens + 1)
  <2>1. AsLogged(op) = Log!New("answer")
    BY <1>1, <1>2, NewLogged
  <2>2. ops' = [ops EXCEPT ![r] = op]
    BY <1>1
  <2> HIDE DEF op, r
  <2>3. RequestsLogged' = [RequestsLogged EXCEPT ![r] = AsLogged(op)]
    BY <1>2, <1>3, <2>2, RowLogged
  <2> QED
    BY <2>1, <2>3
<1>8. snap[w].count = Len(turns) /\ Len(turns) + 2 <= MaxTurns
  BY <1>1, <1>2 DEF RowsInv, OwnershipInv, CountsHold
<1>9. turns' = Append(turns, Log!Turn("user", r, question))
  BY <1>1, <1>8 DEF UserTurn, Log!Turn
<1>10. question \in {0, Log!LatestQuestion(turns)}
  <2>1. question # 0 => question = LatestQuestion(turns)
    BY <1>1, <1>2 DEF RowsInv, ChoicesHold
  <2>2. LatestQuestion(turns) = Log!LatestQuestion(turns)
    BY DEF LatestQuestion, Log!LatestQuestion
  <2> QED
    BY <2>1, <2>2
<1> HIDE DEF question, r
<1>11. Log!Answer(r, question)
  BY <1>1, <1>2, <1>4, <1>5, <1>6, <1>7, <1>8, <1>9 DEF Log!Answer
<1> QED
  BY <1>2, <1>10, <1>11 DEF Log!Next

LEMMA GenerateLogged ==
  ASSUME RowsInv, CallsHold, TypeOK', NEW w \in Workers, ClaimGeneration(w)
  PROVE  Log!Next
<1> DEFINE r == call[w].request
<1>1. /\ pc[w] = "claim" /\ call[w].kind = "proposal" /\ ClaimHolds(w)
      /\ session' = ClaimedSession(w, tokens + 1)
      /\ ops' = [ops EXCEPT ![r] = NewOperation(w, tokens + 1)]
      /\ UNCHANGED <<clock, turns, proposals>>
      /\ pc[w] \in Reading
  BY DEF ClaimGeneration, Reading
<1>2. /\ session.id # 0 /\ session.revision = call[w].input.base
      /\ r \in Requests /\ ops[r] = snap[w].op
      /\ snap[w].now \in Int /\ snap[w].now <= clock /\ clock \in Int /\ ~ Log!Busy
  BY <1>1, ClaimLogged
<1>3. TypeOK /\ tokens + 1 \in Nat
  BY DEF RowsInv, OwnershipInv, TypeOK
<1>4. /\ session'.id = session.id /\ InterviewLogged' = InterviewLogged
      /\ session'.last.request = r /\ session'.last.lease = snap[w].now + Lease
  BY <1>1, <1>3, ClaimOwns
<1>5. Log!Own(r)
  BY <1>2, <1>4 DEF Log!Own
<1>6. RequestsLogged[r].status = "none"
  BY <1>1, <1>2, Logged DEF RowsInv, OwnershipInv, ReadsHold
<1>7. RequestsLogged' = [RequestsLogged EXCEPT ![r] = Log!New("proposal")]
  <2> DEFINE op == NewOperation(w, tokens + 1)
  <2>1. AsLogged(op) = Log!New("proposal")
    BY <1>1, <1>2, NewLogged
  <2>2. ops' = [ops EXCEPT ![r] = op]
    BY <1>1
  <2> HIDE DEF op, r
  <2>3. RequestsLogged' = [RequestsLogged EXCEPT ![r] = AsLogged(op)]
    BY <1>2, <1>3, <2>2, RowLogged
  <2> QED
    BY <2>1, <2>3
<1> HIDE DEF r
<1>8. Log!Generate(r)
  BY <1>1, <1>2, <1>4, <1>5, <1>6, <1>7 DEF Log!Generate
<1> QED
  BY <1>2, <1>8 DEF Log!Next

LEMMA RetryLogged ==
  ASSUME RowsInv, CallsHold, TypeOK', NEW w \in Workers, Reclaim(w)
  PROVE  Log!Next
<1> DEFINE r == call[w].request
<1>1. /\ pc[w] = "reclaim" /\ ClaimHolds(w)
      /\ session' = ClaimedSession(w, tokens + 1)
      /\ ops' = [ops EXCEPT ![r] = ReclaimedOperation(w, tokens + 1)]
      /\ UNCHANGED <<clock, turns, proposals>>
      /\ pc[w] \in Reading
  BY DEF Reclaim, Reading
<1>2. /\ session.id # 0 /\ session.revision = call[w].input.base
      /\ r \in Requests /\ ops[r] = snap[w].op
      /\ snap[w].now \in Int /\ snap[w].now <= clock /\ clock \in Int /\ ~ Log!Busy
  BY <1>1, ClaimLogged
<1>3. TypeOK /\ tokens + 1 \in Nat /\ ops[r] \in Op
  BY <1>2 DEF RowsInv, OwnershipInv, TypeOK
<1>4. /\ session'.id = session.id /\ InterviewLogged' = InterviewLogged
      /\ session'.last.request = r /\ session'.last.lease = snap[w].now + Lease
  BY <1>1, <1>3, ClaimOwns
<1>5. Log!Own(r)
  BY <1>2, <1>4 DEF Log!Own
<1>6. /\ RequestsLogged[r].status \in {"running", "failed"}
      /\ RequestsLogged[r].base = InterviewLogged.revision
  <2>1. /\ ops[r].status # "succeeded" /\ ops[r].kind = call[w].kind
        /\ ops[r].base = call[w].input.base
    BY <1>1, <1>2 DEF RowsInv, OwnershipInv, ReadsHold
  <2>2. call[w].kind \in {"start", "answer", "proposal"}
    BY <1>1 DEF RowsInv, Phases
  <2>3. ops[r].status # "none"
    BY <1>2, <2>1, <2>2 DEF RowsInv, Phases
  <2> QED
    BY <1>2, <1>3, <2>1, <2>3, Logged DEF Op, OpStatus
<1>7. RequestsLogged' = [RequestsLogged EXCEPT ![r].status = "running"]
  <2> DEFINE op == ReclaimedOperation(w, tokens + 1)
             old == ops[r]
  <2>1. /\ op.kind = old.kind /\ op.base = old.base /\ op.digest = old.digest
        /\ op.status = "running"
    BY <1>3 DEF ReclaimedOperation, Op
  <2>2. ops' = [ops EXCEPT ![r] = op]
    BY <1>1
  <2>3. RequestsLogged[r] = AsLogged(old)
    BY <1>2, Logged
  <2> HIDE DEF op, old, r
  <2>4. RequestsLogged' = [RequestsLogged EXCEPT ![r] = AsLogged(op)]
    BY <1>2, <1>3, <2>2, RowLogged
  <2>5. AsLogged(op) = [AsLogged(old) EXCEPT !.status = "running"]
    BY <2>1 DEF AsLogged
  <2> QED
    BY <2>3, <2>4, <2>5
<1> HIDE DEF r
<1>8. Log!Retry(r)
  BY <1>1, <1>2, <1>4, <1>5, <1>6, <1>7 DEF Log!Retry
<1> QED
  BY <1>2, <1>8 DEF Log!Next

LEMMA ConfirmLogged ==
  ASSUME RowsInv, CallsHold, TypeOK', NEW w \in Workers, Confirm(w)
  PROVE  Log!Next
<1> DEFINE r == call[w].request
           accept == call[w].input.accept
           reject == call[w].input.reject
           left == session.proposed \ (accept \cup reject)
           op == [NewOperation(w, tokens + 1) EXCEPT !.status = "succeeded",
                                                     !.lease = snap[w].now]
<1>1. /\ pc[w] = "confirm" /\ ClaimHolds(w) /\ accept \cup reject \subseteq session.proposed
      /\ session' = [ClaimedSession(w, tokens + 1) EXCEPT
           !.confirmed = session.confirmed \cup accept, !.proposed = left,
           !.revision = session.revision + 1,
           !.status = IF left # {} THEN "awaiting-confirmation" ELSE "active",
           !.last.status = "succeeded", !.last.lease = snap[w].now]
      /\ ops' = [ops EXCEPT ![r] = op]
      /\ UNCHANGED <<clock, turns, proposals>>
      /\ pc[w] \in Reading
  BY DEF Confirm, Decidable, ConfirmedAfter, Decided, Reading
<1>2. /\ session.id # 0 /\ session.revision = call[w].input.base
      /\ r \in Requests /\ ops[r] = snap[w].op
      /\ snap[w].now \in Int /\ snap[w].now <= clock /\ clock \in Int /\ ~ Log!Busy
  BY <1>1, ClaimLogged
<1>3. TypeOK /\ tokens + 1 \in Nat /\ session \in Session /\ call[w].kind = "confirmation"
  BY <1>1 DEF RowsInv, OwnershipInv, TypeOK, Phases
<1>4. /\ session'.id = session.id
      /\ session'.revision = session.revision + 1
      /\ session'.status = IF left # {} THEN "awaiting-confirmation" ELSE "active"
      /\ session'.scope = session.scope /\ session'.proposed = left
      /\ session'.confirmed = session.confirmed \cup accept
      /\ session'.last.request = r /\ session'.last.lease = snap[w].now
  <2> DEFINE claimed == ClaimedSession(w, tokens + 1)
  <2>1. /\ claimed \in Session /\ claimed.id = session.id /\ claimed.scope = session.scope
        /\ claimed.last.request = r
    <3>1. call[w] \in Call /\ snap[w] \in Snapshot
      BY <1>3 DEF TypeOK
    <3>2. claimed.id = session.id /\ claimed.scope = session.scope /\ claimed.last.request = r
      BY <1>3 DEF ClaimedSession, Session
    <3>3. claimed \in Session
      BY <1>3, ClaimedTypes DEF Kinds
    <3> QED
      BY <3>2, <3>3
  <2> HIDE DEF claimed
  <2>2. session' = [claimed EXCEPT
          !.confirmed = session.confirmed \cup accept, !.proposed = left,
          !.revision = session.revision + 1,
          !.status = IF left # {} THEN "awaiting-confirmation" ELSE "active",
          !.last.status = "succeeded", !.last.lease = snap[w].now]
    BY <1>1 DEF claimed
  <2> HIDE DEF left, accept, r
  <2> QED
    BY <2>1, <2>2 DEF Session, LastOperation
<1>5. Log!Own(r)
  BY <1>2, <1>4 DEF Log!Own
<1>6. RequestsLogged[r].status = "none"
  BY <1>1, <1>2, Logged DEF RowsInv, OwnershipInv, ReadsHold
<1>7. RequestsLogged' = [RequestsLogged EXCEPT ![r] =
        [Log!New("confirmation") EXCEPT !.status = "succeeded", !.decided = accept \cup reject]]
  <2>1. AsLogged(op) =
          [Log!New("confirmation") EXCEPT !.status = "succeeded", !.decided = accept \cup reject]
    <3>1. /\ op.kind = "confirmation" /\ op.status = "succeeded"
          /\ op.base = session.revision /\ Decided(op.digest) = accept \cup reject
      BY <1>2, <1>3 DEF NewOperation, Decided
    <3> HIDE DEF op, accept, reject
    <3>2. AsLogged(op) = [kind |-> "confirmation", status |-> "succeeded",
                          base |-> session.revision, decided |-> accept \cup reject]
      BY <3>1 DEF AsLogged
    <3> DEFINE new == Log!New("confirmation")
               decided == accept \cup reject
               base == session.revision
               made == [new EXCEPT !.status = "succeeded", !.decided = decided]
               logged == AsLogged(op)
    <3>3. /\ made = [new EXCEPT !.status = "succeeded", !.decided = decided]
          /\ logged = [kind |-> "confirmation", status |-> "succeeded",
                       base |-> base, decided |-> decided]
      BY <3>2
    <3>4. new = [kind |-> "confirmation", status |-> "running", base |-> base, decided |-> {}]
      BY Logged DEF Log!New
    <3> HIDE DEF new, decided, base, made, logged
    <3>5. logged = made
      BY <3>3, <3>4
    <3> QED
      BY <3>5 DEF new, decided, made, logged
  <2> HIDE DEF op
  <2> QED
    BY <1>1, <1>2, <1>3, <2>1, RowLogged
<1>8. accept \cup reject # {} /\ accept \cap reject = {}
  BY <1>1 DEF CallsHold, Decided
<1> HIDE DEF r, accept, reject, op, left
<1>9. InterviewLogged' = [InterviewLogged EXCEPT
        !.revision = InterviewLogged.revision + 1,
        !.status = IF left # {} THEN "awaiting-confirmation" ELSE "active",
        !.proposed = left,
        !.confirmed = InterviewLogged.confirmed \cup accept]
  <2> DEFINE edited == [InterviewLogged EXCEPT
            !.revision = InterviewLogged.revision + 1,
            !.status = IF left # {} THEN "awaiting-confirmation" ELSE "active",
            !.proposed = left,
            !.confirmed = InterviewLogged.confirmed \cup accept]
  <2>1. edited = [InterviewLogged EXCEPT
            !.revision = InterviewLogged.revision + 1,
            !.status = IF left # {} THEN "awaiting-confirmation" ELSE "active",
            !.proposed = left,
            !.confirmed = InterviewLogged.confirmed \cup accept]
    OBVIOUS
  <2> HIDE DEF edited
  <2>2. InterviewLogged =
          [revision |-> session.revision, status |-> session.status, scope |-> session.scope,
           proposed |-> session.proposed, confirmed |-> session.confirmed]
    BY DEF InterviewLogged
  <2>3. InterviewLogged' =
          [revision |-> session.revision + 1,
           status |-> IF left # {} THEN "awaiting-confirmation" ELSE "active",
           scope |-> session.scope, proposed |-> left, confirmed |-> session.confirmed \cup accept]
    BY <1>4 DEF InterviewLogged
  <2>4. InterviewLogged' = edited
    <3>1. /\ InterviewLogged.revision = session.revision
          /\ InterviewLogged.confirmed = session.confirmed
      BY Logged
    <3> QED
      BY <2>1, <2>2, <2>3, <3>1
  <2> QED
    BY <2>4 DEF edited
<1>10. Log!Confirm(r, accept, reject)
  BY <1>1, <1>2, <1>4, <1>5, <1>6, <1>7, <1>8, <1>9, Logged DEF Log!Confirm, left
<1>11. accept \in SUBSET InterviewLogged.proposed /\ reject \in SUBSET InterviewLogged.proposed
  BY <1>1, Logged
<1> QED
  BY <1>2, <1>10, <1>11 DEF Log!Next

\* A task that still holds the session's token answers for the request that owns it.
LEMMA OwnerLogged ==
  ASSUME RowsInv, NEW w \in Workers, pc[w] \in Owning, session.id = snap[w].id,
         session.last.token = call[w].token
  PROVE  /\ session.id # 0 /\ Attached(w) /\ call[w].request \in Requests
         /\ session.last.request = call[w].request
         /\ RequestsLogged[call[w].request].kind = call[w].kind
         /\ RequestsLogged[call[w].request].status = "running"
         /\ RequestsLogged[call[w].request].base = call[w].input.base
<1>1. /\ OwnershipInv /\ call[w] \in Call /\ pc[w] # "idle"
  BY DEF RowsInv, OwnershipInv, TypeOK, Owning
<1>2. session.id # 0 /\ Attached(w) /\ call[w].request \in Requests
  BY <1>1 DEF OwnershipInv, TokensFresh, Attached, Call
<1>3. /\ session.last.status = "running" /\ session.last.request = call[w].request
      /\ session.last.kind = call[w].kind /\ session.last.base = call[w].input.base
  BY <1>1, <1>2 DEF OwnershipInv, OwnersRun
<1>4. /\ ops[call[w].request].status = "running" /\ ops[call[w].request].kind = call[w].kind
      /\ ops[call[w].request].base = call[w].input.base
  BY <1>1, <1>2, <1>3 DEF OwnershipInv, OwnerAgrees
<1> QED
  BY <1>2, <1>3, <1>4, Logged

LEMMA ReplyLogged ==
  ASSUME RowsInv, CallsHold, TypeOK', NEW w \in Workers, NEW slots \in SUBSET Slots,
         NEW ready \in BOOLEAN, NEW scope \in Scopes \cup {NoScope},
         FinishReply(w, slots, ready, scope)
  PROVE  Log!Next
<1> DEFINE r == call[w].request
           items == {call[w].token} \X slots
<1>1. /\ pc[w] = "finish" /\ call[w].kind \in {"start", "answer"}
      /\ session.id = snap[w].id /\ session.revision = call[w].input.base
      /\ session.last.token = call[w].token
      /\ session' = [session EXCEPT
           !.revision = call[w].input.base + 1,
           !.status = IF items # {} THEN "awaiting-confirmation"
                      ELSE IF ready THEN "completed" ELSE "active",
           !.scope = scope, !.proposed = items,
           !.last.status = "succeeded", !.expires = snap[w].now + Retention]
      /\ turns' = Append(turns, AssistantTurn(w))
      /\ ops' = [ops EXCEPT ![r].status = "succeeded"]
      /\ UNCHANGED <<clock, proposals>> /\ pc[w] \in Owning
  BY DEF FinishReply, FinishHolds, Succeed, Owning
<1>2. /\ session.id # 0 /\ Attached(w) /\ r \in Requests /\ session.last.request = r
      /\ RequestsLogged[r].kind = call[w].kind /\ RequestsLogged[r].status = "running"
      /\ RequestsLogged[r].base = call[w].input.base
  BY <1>1, OwnerLogged
<1>3. TypeOK /\ session \in Session
  BY DEF RowsInv, OwnershipInv, TypeOK
<1>4. \A e \in items : e[1] = call[w].token
  OBVIOUS
<1>5. \A s \in Requests : items \cap RequestsLogged[s].decided = {}
  <2> TAKE s \in Requests
  <2>1. ASSUME NEW e \in items, e \in RequestsLogged[s].decided PROVE FALSE
    <3>1. s \in Confirmations(ops) /\ e \in Decided(ops[s].digest)
      BY <2>1, Logged DEF Confirmations
    <3>2. FreshItem(e)
      BY <3>1, FreshForm DEF RowsInv
    <3> QED
      BY <1>1, <1>4, <2>1, <3>2 DEF FreshItem
  <2> QED
    BY <2>1
<1> HIDE DEF items
<1>6. /\ session'.id = session.id /\ session'.revision = session.revision + 1
      /\ session'.status = IF items # {} THEN "awaiting-confirmation"
                           ELSE IF ready THEN "completed" ELSE "active"
      /\ session'.scope = scope /\ session'.proposed = items
      /\ session'.confirmed = session.confirmed
      /\ session'.last.request = session.last.request
      /\ session'.last.lease = session.last.lease
  BY <1>1, <1>3 DEF Session, LastOperation
<1>7. RequestsLogged' = [RequestsLogged EXCEPT ![r].status = "succeeded"]
  BY <1>1, <1>2, <1>3, StatusLogged
<1>8. turns' = Append(turns, Log!Turn("assistant", r, 0))
  <2>1. snap[w].count = Len(turns)
    BY <1>1, <1>2 DEF RowsInv, OwnershipInv, CountsHold
  <2> QED
    BY <1>1, <2>1 DEF AssistantTurn, Log!Turn
<1> HIDE DEF r
<1>9. InterviewLogged' = [InterviewLogged EXCEPT
        !.revision = InterviewLogged.revision + 1,
        !.status = IF items # {} THEN "awaiting-confirmation"
                   ELSE IF ready THEN "completed" ELSE "active",
        !.scope = scope,
        !.proposed = items]
  <2> DEFINE edited == [InterviewLogged EXCEPT
            !.revision = InterviewLogged.revision + 1,
            !.status = IF items # {} THEN "awaiting-confirmation"
                       ELSE IF ready THEN "completed" ELSE "active",
            !.scope = scope,
            !.proposed = items]
  <2>1. edited = [InterviewLogged EXCEPT
            !.revision = InterviewLogged.revision + 1,
            !.status = IF items # {} THEN "awaiting-confirmation"
                       ELSE IF ready THEN "completed" ELSE "active",
            !.scope = scope,
            !.proposed = items]
    OBVIOUS
  <2> HIDE DEF edited
  <2>2. InterviewLogged =
          [revision |-> session.revision, status |-> session.status, scope |-> session.scope,
           proposed |-> session.proposed, confirmed |-> session.confirmed]
    BY DEF InterviewLogged
  <2>3. InterviewLogged' =
          [revision |-> session.revision + 1,
           status |-> IF items # {} THEN "awaiting-confirmation"
                      ELSE IF ready THEN "completed" ELSE "active",
           scope |-> scope, proposed |-> items, confirmed |-> session.confirmed]
    BY <1>6 DEF InterviewLogged
  <2>4. InterviewLogged' = edited
    <3>1. /\ InterviewLogged.revision = session.revision
          /\ InterviewLogged.confirmed = session.confirmed
      BY Logged
    <3> QED
      BY <2>1, <2>2, <2>3, <3>1
  <2> QED
    BY <2>4 DEF edited
<1>10. InterviewLogged'.proposed = items
  BY <1>6 DEF InterviewLogged
<1>11. Log!Awaited({"start", "answer"})
  BY <1>1, <1>2, Logged DEF Log!Awaited
<1>12. UNCHANGED <<clock, session.id # 0, Log!ownership, proposals>>
  BY <1>1, <1>6 DEF Log!ownership
<1>13. Log!Reply(ready, scope)
  BY <1>2, <1>5, <1>7, <1>8, <1>9, <1>10, <1>11, <1>12 DEF Log!Reply
<1> QED
  BY <1>13 DEF Log!Next

LEMMA DraftLogged ==
  ASSUME RowsInv, CallsHold, TypeOK', NEW w \in Workers, NEW workflow \in Scopes,
         FinishGeneration(w, workflow)
  PROVE  Log!Next
<1> DEFINE r == call[w].request
<1>1. /\ pc[w] = "finish" /\ call[w].kind = "proposal"
      /\ session.id = snap[w].id /\ session.revision = call[w].input.base
      /\ session.last.token = call[w].token
      /\ session' = [session EXCEPT
           !.revision = call[w].input.base + 1, !.status = "completed",
           !.last.status = "succeeded", !.expires = snap[w].now + Retention]
      /\ proposals' = [proposals EXCEPT ![r] =
           [status |-> "draft", revision |-> call[w].input.base + 1,
            facts |-> snap[w].confirmed, workflow |-> workflow]]
      /\ ops' = [ops EXCEPT ![r].status = "succeeded"]
      /\ UNCHANGED <<clock, turns>> /\ pc[w] \in Owning
  BY DEF FinishGeneration, FinishHolds, Succeed, Owning
<1>2. /\ session.id # 0 /\ Attached(w) /\ r \in Requests /\ session.last.request = r
      /\ RequestsLogged[r].kind = call[w].kind /\ RequestsLogged[r].status = "running"
      /\ RequestsLogged[r].base = call[w].input.base
  BY <1>1, OwnerLogged
<1>3. TypeOK /\ session \in Session
  BY DEF RowsInv, OwnershipInv, TypeOK
<1>4. snap[w].confirmed = session.confirmed
  BY <1>1, <1>2 DEF RowsInv, DraftsHold
<1>5. /\ session'.id = session.id /\ session'.revision = session.revision + 1
      /\ session'.status = "completed" /\ session'.scope = session.scope
      /\ session'.proposed = session.proposed /\ session'.confirmed = session.confirmed
      /\ session'.last.request = session.last.request
      /\ session'.last.lease = session.last.lease
  BY <1>1, <1>3 DEF Session, LastOperation
<1>6. RequestsLogged' = [RequestsLogged EXCEPT ![r].status = "succeeded"]
  BY <1>1, <1>2, <1>3, StatusLogged
<1> HIDE DEF r
<1>7. InterviewLogged' = [InterviewLogged EXCEPT
        !.revision = InterviewLogged.revision + 1, !.status = "completed"]
  <2> DEFINE edited == [InterviewLogged EXCEPT
            !.revision = InterviewLogged.revision + 1, !.status = "completed"]
  <2>1. edited = [InterviewLogged EXCEPT
            !.revision = InterviewLogged.revision + 1, !.status = "completed"]
    OBVIOUS
  <2> HIDE DEF edited
  <2>2. InterviewLogged =
          [revision |-> session.revision, status |-> session.status, scope |-> session.scope,
           proposed |-> session.proposed, confirmed |-> session.confirmed]
    BY DEF InterviewLogged
  <2>3. InterviewLogged' =
          [revision |-> session.revision + 1, status |-> "completed", scope |-> session.scope,
           proposed |-> session.proposed, confirmed |-> session.confirmed]
    BY <1>5 DEF InterviewLogged
  <2>4. InterviewLogged' = edited
    <3>1. /\ InterviewLogged.revision = session.revision
          /\ InterviewLogged.confirmed = session.confirmed
      BY Logged
    <3> QED
      BY <2>1, <2>2, <2>3, <3>1
  <2> QED
    BY <2>4 DEF edited
<1>8. Log!Awaited({"proposal"})
  BY <1>1, <1>2, Logged DEF Log!Awaited
<1>9. proposals' = [proposals EXCEPT ![r] =
        [status |-> "draft", revision |-> InterviewLogged.revision + 1,
         facts |-> InterviewLogged.confirmed, workflow |-> workflow]]
  BY <1>1, <1>4, Logged
<1>10. UNCHANGED <<clock, session.id # 0, Log!ownership, turns>>
  BY <1>1, <1>5 DEF Log!ownership
<1>11. Log!Draft(workflow)
  BY <1>2, <1>6, <1>7, <1>8, <1>9, <1>10 DEF Log!Draft
<1> QED
  BY <1>11 DEF Log!Next

LEMMA FailLogged ==
  ASSUME RowsInv, CallsHold, TypeOK', NEW w \in Workers, RecordFailure(w)
  PROVE  Log!Next
<1> DEFINE r == call[w].request
<1>1. /\ session.id = snap[w].id /\ session.last.token = call[w].token /\ pc[w] \in Owning
      /\ session' = [session EXCEPT !.last.status = "failed"]
      /\ ops' = [ops EXCEPT ![r].status = "failed"]
      /\ UNCHANGED <<clock, turns, proposals>>
  BY DEF RecordFailure, FailureHolds, Owning
<1>2. /\ session.id # 0 /\ r \in Requests /\ session.last.request = r
      /\ RequestsLogged[r].status = "running"
  BY <1>1, OwnerLogged
<1>3. TypeOK /\ session \in Session
  BY DEF RowsInv, OwnershipInv, TypeOK
<1>4. /\ session'.id = session.id /\ session'.revision = session.revision
      /\ session'.status = session.status /\ session'.scope = session.scope
      /\ session'.proposed = session.proposed /\ session'.confirmed = session.confirmed
      /\ session'.last.request = session.last.request
      /\ session'.last.lease = session.last.lease
  BY <1>1, <1>3 DEF Session, LastOperation
<1>5. RequestsLogged' = [RequestsLogged EXCEPT ![r].status = "failed"]
  BY <1>1, <1>2, <1>3, StatusLogged
<1>6. InterviewLogged' = InterviewLogged
  BY <1>4, SessionLogged
<1> HIDE DEF r
<1>7. Log!Fail
  BY <1>1, <1>2, <1>4, <1>5, <1>6 DEF Log!Fail, Log!ownership
<1> QED
  BY <1>7 DEF Log!Next

LEMMA ApplyLogged ==
  ASSUME RowsInv, CallsHold, TypeOK', NEW w \in Workers, Apply(w)
  PROVE  Log!Next
<1> DEFINE r == call[w].request
<1>1. /\ pc[w] = "apply" /\ ClaimHolds(w) /\ session.status = "completed"
      /\ proposals[r].status = "draft" /\ proposals[r].revision = call[w].input.base
      /\ session' = [session EXCEPT !.revision = session.revision + 1,
                                    !.expires = snap[w].now + Retention]
      /\ proposals' = [proposals EXCEPT ![r].status = "accepted"]
      /\ UNCHANGED <<clock, ops, turns>> /\ pc[w] \in Reading
  BY DEF Apply, AdvanceHolds, Reading
<1>2. /\ session.id # 0 /\ session.revision = call[w].input.base /\ Attached(w)
      /\ r \in Requests /\ ~ Log!Busy
  BY <1>1, ClaimLogged
<1>3. session \in Session
  BY DEF RowsInv, OwnershipInv, TypeOK
<1>4. session.scope # NoScope /\ proposals[r].workflow = session.scope
  BY <1>1, <1>2 DEF CallsHold
<1>5. /\ session'.id = session.id /\ session'.revision = session.revision + 1
      /\ session'.status = session.status /\ session'.scope = session.scope
      /\ session'.proposed = session.proposed /\ session'.confirmed = session.confirmed
      /\ session'.last = session.last
  BY <1>1, <1>3 DEF Session
<1>6. InterviewLogged' = [InterviewLogged EXCEPT !.revision = InterviewLogged.revision + 1]
  BY <1>5 DEF InterviewLogged
<1>7. RequestsLogged' = RequestsLogged
  BY <1>1 DEF RequestsLogged, AsLogged, Decided
<1> HIDE DEF r
<1>8. Log!Apply(r)
  BY <1>1, <1>2, <1>4, <1>5, <1>6, <1>7, Logged DEF Log!Apply, Log!ownership
<1> QED
  BY <1>2, <1>8 DEF Log!Next

\* Rows without an interview are those of an empty log.
LEMMA NoneLogged ==
  /\ NoSession.id = 0 /\ NoSession.last.request = CreationRequest
  /\ NoSession.last.lease = 0
  /\ Log!NoInterview = [revision |-> NoSession.revision, status |-> NoSession.status,
                        scope |-> NoSession.scope, proposed |-> NoSession.proposed,
                        confirmed |-> NoSession.confirmed]
  /\ AsLogged(NoOp) = Log!NoRequest
  /\ NoProposal = Log!NoProposal
<1>1. /\ NoSession.id = 0 /\ NoSession.last.request = CreationRequest
      /\ NoSession.last.lease = 0
  BY DEF NoSession, NoLast
<1>2. Log!NoInterview = [revision |-> NoSession.revision, status |-> NoSession.status,
                        scope |-> NoSession.scope, proposed |-> NoSession.proposed,
                        confirmed |-> NoSession.confirmed]
  BY DEF NoSession, Log!NoInterview
<1>3. AsLogged(NoOp) = Log!NoRequest
  BY DEF AsLogged, NoOp, Log!NoRequest
<1>4. NoProposal = Log!NoProposal
  BY DEF NoProposal, Log!NoProposal
<1> QED
  BY <1>1, <1>2, <1>3, <1>4

LEMMA CreateLogged ==
  ASSUME RowsInv, NEW w \in Workers, NEW body \in Bodies, StartCreate(w, body)
  PROVE  Log!Next
<1> DEFINE token == tokens + 1
           op == [kind |-> "start", status |-> "running", token |-> token, base |-> 0,
                  lease |-> clock + Lease, digest |-> [NoInput EXCEPT !.payload = body]]
<1>1. /\ session.id = 0 /\ ops' = [ops EXCEPT ![CreationRequest] = op]
      /\ session' = [NoSession EXCEPT
           !.id = token, !.status = "active", !.expires = clock + Retention,
           !.last = [request |-> CreationRequest, kind |-> "start", status |-> "running",
                     token |-> token, base |-> 0, lease |-> clock + Lease]]
      /\ UNCHANGED <<clock, turns, proposals>>
  BY DEF StartCreate
<1>2. TypeOK /\ clock \in Int /\ token \in Nat \ {0} /\ session.last.request \in Requests
      /\ DeletedStaysDeleted
  BY DEF RowsInv, OwnershipInv, TypeOK, Session, LastOperation
<1>3. /\ session'.id # 0 /\ session'.last.request = CreationRequest
      /\ session'.last.lease = clock + Lease
      /\ session'.revision = 0 /\ session'.status = "active" /\ session'.scope = NoScope
      /\ session'.proposed = {} /\ session'.confirmed = {}
  BY <1>1, <1>2 DEF NoSession
<1>4. RequestsLogged[session.last.request].status = "none"
  BY <1>1, <1>2, Logged DEF DeletedStaysDeleted, NoOp
<1>5. Log!Own(CreationRequest)
  BY <1>2, <1>3, <1>4 DEF Log!Own, Log!Busy
<1>6. InterviewLogged' = [Log!NoInterview EXCEPT !.status = "active"]
  BY <1>3 DEF InterviewLogged, Log!NoInterview
<1>7. AsLogged(op) = [Log!New("start") EXCEPT !.base = 0]
  BY DEF AsLogged, Log!New
<1> HIDE DEF op
<1>8. RequestsLogged' = [RequestsLogged EXCEPT ![CreationRequest] =
                          [Log!New("start") EXCEPT !.base = 0]]
  BY <1>1, <1>2, <1>7, RowLogged
<1>9. Log!Create
  BY <1>1, <1>3, <1>5, <1>6, <1>8 DEF Log!Create
<1> QED
  BY <1>9 DEF Log!Next

\* A step that leaves the rows alone, but for the time, is none of the log's.
LEMMA QuietLogged ==
  ASSUME UNCHANGED <<session, ops, turns, proposals>>
  PROVE  /\ UNCHANGED <<session.id # 0, Log!contents, Log!ownership>>
         /\ clock' = clock => UNCHANGED Log!vars
<1>1. RequestsLogged' = RequestsLogged /\ InterviewLogged' = InterviewLogged
  BY DEF RequestsLogged, InterviewLogged, AsLogged, Decided
<1> QED
  BY <1>1 DEF Log!contents, Log!ownership, Log!vars

LEMMA StepLogged == RowsInv /\ CallsHold /\ [Next]_vars => [Log!Next]_(Log!vars)
<1> SUFFICES ASSUME RowsInv, CallsHold, [Next]_vars PROVE [Log!Next]_(Log!vars)
  OBVIOUS
<1>1. TypeOK'
  BY StepOwnership DEF RowsInv, OwnershipInv
<1>2. ASSUME NEW w \in Workers, Receive(w) PROVE [Log!Next]_(Log!vars)
  <2>1. CASE \E body \in Bodies : StartCreate(w, body)
    BY <2>1, CreateLogged
  <2>2. CASE ~ \E body \in Bodies : StartCreate(w, body)
    <3>1. CASE UNCHANGED <<clock, tables>>
      BY <3>1, QuietLogged DEF tables
    <3>2. ASSUME NEW r, NEW base, NEW question, AnswerRead(w, r, base, question)
          PROVE  UNCHANGED <<clock, tables>>
      BY <3>2 DEF AnswerRead
    <3>3. ASSUME NEW r, NEW base, GenerateRead(w, r, base) \/ ApplyRead(w, r, base)
          PROVE  UNCHANGED <<clock, tables>>
      BY <3>3 DEF GenerateRead, ApplyRead
    <3>4. ASSUME NEW r, NEW base, NEW accept, NEW reject,
                 ConfirmRead(w, r, base, accept, reject)
          PROVE  UNCHANGED <<clock, tables>>
      BY <3>4 DEF ConfirmRead
    <3>5. ASSUME NEW r, NEW input, RetryRead(w, r, input)
          PROVE  UNCHANGED <<clock, tables>>
      BY <3>5 DEF RetryRead
    <3> QED
      BY <1>2, <2>2, <3>1, <3>2, <3>3, <3>4, <3>5 DEF Receive
  <2> QED
    BY <2>1, <2>2
<1>3. ASSUME NEW w \in Workers, Refused(w) \/ Crash(w) \/ ReplyRead(w) \/ ErrorRead(w)
      PROVE  [Log!Next]_(Log!vars)
  <2>1. UNCHANGED <<clock, tables>>
    BY <1>3 DEF Refused, Crash, ReplyRead, ErrorRead
  <2> QED
    BY <2>1, QuietLogged DEF tables
<1>4. ASSUME NEW w \in Workers, Proceed(w) PROVE [Log!Next]_(Log!vars)
  BY <1>1, <1>3, <1>4, AnswerLogged, GenerateLogged, RetryLogged, ConfirmLogged, ApplyLogged,
     ReplyLogged, DraftLogged, FailLogged DEF Proceed
<1>5. CASE Delete \/ Cleanup
  <2>1. /\ session.id # 0 /\ session' = NoSession /\ turns' = <<>>
        /\ ops' = [r \in Requests |-> NoOp] /\ proposals' = [r \in Requests |-> NoProposal]
        /\ clock' = clock
    BY <1>5 DEF Delete, Cleanup, Readable, RemoveRows
  <2>2. InterviewLogged' = Log!NoInterview
    BY <2>1, NoneLogged DEF InterviewLogged
  <2>3. RequestsLogged' = [r \in Requests |-> Log!NoRequest]
    <3>1. RequestsLogged' = [r \in Requests |-> AsLogged(ops'[r])]
      BY DEF RequestsLogged, AsLogged, Decided
    <3>2. \A r \in Requests : AsLogged(ops'[r]) = Log!NoRequest
      BY <2>1, NoneLogged
    <3> QED
      BY <3>1, <3>2
  <2>4. Log!Empty'
    BY <2>1, <2>2, <2>3, NoneLogged DEF Log!Empty
  <2>5. Log!Delete
    BY <2>1, <2>4 DEF Log!Delete
  <2> QED
    BY <2>5 DEF Log!Next
<1>6. CASE Tick
  <2>1. clock' = clock + 1 /\ UNCHANGED <<session, ops, turns, proposals>>
    BY <1>6 DEF Tick, tables
  <2>2. Log!Tick
    BY <2>1, QuietLogged DEF Log!Tick
  <2> QED
    BY <2>2 DEF Log!Next
<1>7. CASE UNCHANGED vars
  BY <1>7, QuietLogged DEF vars, tables
<1> QED
  BY <1>2, <1>3, <1>4, <1>5, <1>6, <1>7 DEF Next

\* Requests take effect one at a time: whatever a task has read, and however late the model
\* answers it, what it commits is a step of InterviewLog on the rows as they are by then.
THEOREM OneAtATimeHolds == Spec => OneAtATime
<1>1. Init => Log!Init
  <2> SUFFICES ASSUME Init PROVE Log!Init
    OBVIOUS
  <2>1. InterviewLogged = Log!NoInterview
    BY NoneLogged DEF Init, InterviewLogged
  <2>2. RequestsLogged = [r \in Requests |-> Log!NoRequest]
    BY NoneLogged DEF Init, RequestsLogged
  <2> QED
    BY <2>1, <2>2, NoneLogged DEF Init, Log!Init, Log!Empty
<1>2. RowsInv /\ CallsHold /\ [Next]_vars => [Log!Next]_(Log!vars)
  BY StepLogged
<1> QED
  BY <1>1, <1>2, Rows, Calls, PTL DEF Spec, OneAtATime, Log!Spec
=============================================================================
