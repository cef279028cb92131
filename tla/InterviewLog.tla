----------------------------- MODULE InterviewLog -----------------------------
(***************************************************************************)
(* What an interview promises: its requests take effect one at a time.     *)
(* A request owns the interview until it has its reply or fails, or until  *)
(* its lease is over and another takes it; whatever it changes, it changes *)
(* at once, and it is judged by the interview as it then stands.           *)
(* InterviewSession implements this with tasks that read first and commit  *)
(* later, and with calls of the model that may be answered too late.       *)
(***************************************************************************)
EXTENDS Integers, Sequences

CONSTANTS
  Requests, CreationRequest, Scopes, NoScope,
  MaxTurns, Lease

VARIABLES
  clock,
  exists,     \* the interview has been created, and not been deleted since
  interview,  \* its revision, status and scope, the evidence proposed and confirmed
  requests,   \* for each request its kind and status, the revision it is about, and
              \* the evidence it decided
  current,    \* the request that owns the interview, or was the last to
  until,      \* the time until which no other may own it
  turns,
  proposals

contents == <<interview, requests, turns, proposals>>
ownership == <<current, until>>
vars == <<clock, exists, contents, ownership>>

NoInterview == [revision |-> 0, status |-> "none", scope |-> NoScope,
                proposed |-> {}, confirmed |-> {}]
NoRequest == [kind |-> "none", status |-> "none", base |-> 0, decided |-> {}]
NoProposal == [status |-> "none", revision |-> 0, facts |-> {}, workflow |-> NoScope]

New(kind) == [kind |-> kind, status |-> "running", base |-> interview.revision,
              decided |-> {}]
Turn(role, r, question) ==
  [seq |-> Len(turns) + 1, role |-> role, request |-> r, question |-> question]

\* The turn of the latest question, 0 if none was asked.
LatestQuestion(ts) ==
  LET asked == {i \in DOMAIN ts : ts[i].role = "assistant"}
  IN IF asked = {} THEN 0 ELSE CHOOSE i \in asked : \A j \in asked : j <= i

-----------------------------------------------------------------------------
Busy == requests[current].status = "running" /\ until > clock

\* Request r owns the interview from now on, for one lease at most.
Own(r) ==
  /\ ~ Busy
  /\ current' = r
  /\ until' \in Int /\ until' <= clock + Lease

\* The owner waits for a reply, to the interview as it is now.
Awaited(kinds) ==
  /\ exists
  /\ requests[current].kind \in kinds /\ requests[current].status = "running"
  /\ requests[current].base = interview.revision

Create ==
  /\ ~ exists /\ exists' = TRUE
  /\ Own(CreationRequest)
  /\ interview' = [NoInterview EXCEPT !.status = "active"]
  /\ requests' = [requests EXCEPT ![CreationRequest] = [New("start") EXCEPT !.base = 0]]
  /\ UNCHANGED <<clock, turns, proposals>>

Answer(r, question) ==
  /\ exists /\ requests[r].status = "none"
  /\ Own(r)
  /\ Len(turns) + 2 <= MaxTurns
  /\ requests' = [requests EXCEPT ![r] = New("answer")]
  /\ turns' = Append(turns, Turn("user", r, question))
  /\ UNCHANGED <<clock, exists, interview, proposals>>

Generate(r) ==
  /\ exists /\ requests[r].status = "none"
  /\ Own(r)
  /\ requests' = [requests EXCEPT ![r] = New("proposal")]
  /\ UNCHANGED <<clock, exists, interview, turns, proposals>>

\* A request that failed or was given up: nothing has changed since it was made.
Retry(r) ==
  /\ exists /\ requests[r].status \in {"running", "failed"}
  /\ requests[r].base = interview.revision
  /\ Own(r)
  /\ requests' = [requests EXCEPT ![r].status = "running"]
  /\ UNCHANGED <<clock, exists, interview, turns, proposals>>

\* Each item is decided once, and only while it is proposed.
Confirm(r, accept, reject) ==
  LET left == interview.proposed \ (accept \cup reject)
  IN /\ exists /\ requests[r].status = "none"
     /\ accept \cup reject # {} /\ accept \cap reject = {}
     /\ accept \cup reject \subseteq interview.proposed
     /\ Own(r)
     /\ requests' = [requests EXCEPT ![r] =
          [New("confirmation") EXCEPT !.status = "succeeded", !.decided = accept \cup reject]]
     /\ interview' = [interview EXCEPT
          !.revision = interview.revision + 1,
          !.status = IF left # {} THEN "awaiting-confirmation" ELSE "active",
          !.proposed = left,
          !.confirmed = interview.confirmed \cup accept]
     /\ UNCHANGED <<clock, exists, turns, proposals>>

\* The model's reply proposes any items, but none that somebody has decided.
Reply(ready, scope) ==
  LET items == interview'.proposed
  IN /\ Awaited({"start", "answer"})
     /\ interview' = [interview EXCEPT
          !.revision = interview.revision + 1,
          !.status = IF items # {} THEN "awaiting-confirmation"
                     ELSE IF ready THEN "completed" ELSE "active",
          !.scope = scope,
          !.proposed = items]
     /\ \A r \in Requests : items \cap requests[r].decided = {}
     /\ requests' = [requests EXCEPT ![current].status = "succeeded"]
     /\ turns' = Append(turns, Turn("assistant", current, 0))
     /\ UNCHANGED <<clock, exists, ownership, proposals>>

\* A proposal is made from the evidence confirmed at the time.
Draft(workflow) ==
  /\ Awaited({"proposal"})
  /\ interview' = [interview EXCEPT !.revision = interview.revision + 1,
                                    !.status = "completed"]
  /\ requests' = [requests EXCEPT ![current].status = "succeeded"]
  /\ proposals' = [proposals EXCEPT ![current] =
       [status |-> "draft", revision |-> interview.revision + 1,
        facts |-> interview.confirmed, workflow |-> workflow]]
  /\ UNCHANGED <<clock, exists, ownership, turns>>

Fail ==
  /\ exists /\ requests[current].status = "running"
  /\ requests' = [requests EXCEPT ![current].status = "failed"]
  /\ UNCHANGED <<clock, exists, interview, ownership, turns, proposals>>

\* A proposal is applied to the interview it was made from, and while nobody owns that.
Apply(r) ==
  /\ exists /\ ~ Busy
  /\ proposals[r].status = "draft" /\ proposals[r].revision = interview.revision
  /\ interview.status = "completed"
  /\ interview.scope # NoScope /\ proposals[r].workflow = interview.scope
  /\ interview' = [interview EXCEPT !.revision = interview.revision + 1]
  /\ proposals' = [proposals EXCEPT ![r].status = "accepted"]
  /\ UNCHANGED <<clock, exists, requests, ownership, turns>>

Empty ==
  /\ exists = FALSE
  /\ interview = NoInterview /\ turns = <<>>
  /\ requests = [r \in Requests |-> NoRequest]
  /\ proposals = [r \in Requests |-> NoProposal]
  /\ current = CreationRequest /\ until = 0

Delete == exists /\ Empty' /\ UNCHANGED clock

Tick == clock' = clock + 1 /\ UNCHANGED <<exists, contents, ownership>>

Init == clock = 0 /\ Empty

Next ==
  \/ Create \/ Fail \/ Delete \/ Tick
  \/ \E r \in Requests :
       \/ \E question \in {0, LatestQuestion(turns)} : Answer(r, question)
       \/ Generate(r) \/ Retry(r) \/ Apply(r)
       \/ \E accept, reject \in SUBSET interview.proposed : Confirm(r, accept, reject)
  \/ \E ready \in BOOLEAN, scope \in Scopes \cup {NoScope} : Reply(ready, scope)
  \/ \E workflow \in Scopes : Draft(workflow)

Spec == Init /\ [][Next]_vars
=============================================================================
