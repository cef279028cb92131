--------------------------- MODULE DesignLifecycle ---------------------------
(***************************************************************************)
(* One harness design from its first draft to its built artifact: the      *)
(* harness_designs row, its approvals, its build_jobs, the audit rows its  *)
(* reviews leave, and the artifact files (web/api/designs, web/api/builds).*)
(*                                                                         *)
(* Every HTTP request is one READ COMMITTED transaction that reads its     *)
(* rows without a lock and writes them back by primary key when it is      *)
(* flushed.  SQLAlchemy then sends only the columns whose value differs    *)
(* from the one that was read: Written below.  So a transaction is a step  *)
(* that reads and a later one that writes and commits; between the two the *)
(* other tasks and the build workers may commit.                           *)
(*                                                                         *)
(* A worker holds one transaction, and the lock of the job it claimed,     *)
(* from the claim to the outcome: the status "running" it writes is never  *)
(* seen by another transaction, and a crash puts the job back.  The        *)
(* artifact file is written in between and is not undone.                  *)
(***************************************************************************)
EXTENDS Integers, FiniteSets

CONSTANTS
  Tasks,             \* server tasks, each serving one HTTP request at a time
  Workers,           \* build worker processes
  Digests, NoDigest, \* digests of the contents a design may have
  Valid,             \* those whose content passes validation
  MaxRelease,        \* releases of the generator; each produces other bytes
  HardLinks,         \* whether the artifact mount supports hard links
  FilesLost,         \* whether artifact files may disappear
  LegacyCallers,     \* whether clients replace designs without expected_digest
  MaxRevision,       \* bound on the revision of the design
  MaxReviews,        \* bound on the number of reviews begun
  MaxFaults          \* bound on crashes, lost connections and failed builds

ASSUME DigestsAssumption ==
  NoDigest \notin Digests /\ Valid \subseteq Digests /\ IsFiniteSet(Digests)
ASSUME SwitchesAssumption == {HardLinks, FilesLost, LegacyCallers} \subseteq BOOLEAN
ASSUME BoundsAssumption ==
  /\ MaxRelease \in Nat \ {0} /\ MaxRevision \in Nat
  /\ MaxReviews \in Nat /\ MaxFaults \in Nat

VARIABLES
  design,     \* the harness_designs row
  approvals,  \* the approvals rows of the design
  audit,      \* the audit rows "design.reviewed"
  jobs,       \* the build_jobs rows: one for each digest (unique constraint)
  store,      \* the artifact files: the release that generated the bytes, 0: none
  pc,         \* where each task is in its handler
  call,       \* what the task was called with
  seen,       \* what the task's transaction has read
  stage,      \* where each worker is in run_next
  build,      \* what the worker claimed and read
  release,    \* the release of the generator that is deployed
  reviews,    \* number of reviews begun: created_at of the next approval
  faults      \* number of faults so far

tables == <<design, approvals, audit, jobs>>
tasks == <<pc, call, seen>>
workers == <<stage, build>>
env == <<release, reviews, faults>>
vars == <<tables, store, tasks, workers, env>>

-----------------------------------------------------------------------------
(* Rows *)

\* "none": not created yet; "deleted": the row is gone (its uuid never returns).
Statuses == {"none", "draft", "validated", "approved", "build-queued", "built",
             "failed", "deleted"}
Releases == 1 .. MaxRelease
Decisions == {"approved", "rejected"}
Design == [status: Statuses, digest: Digests \cup {NoDigest}, revision: Nat]
Approval == [at: Nat, digest: Digests, decision: Decisions]
Review == [digest: Digests, decision: Decisions, revision: Nat]
Job == [status: {"none", "queued", "succeeded", "failed"}, artifact: Releases \cup {0},
        made: Nat]
Call == [digest: Digests \cup {NoDigest}, decision: Decisions \cup {"none"}]
Seen == [design: Design, job: Job, at: Nat, doomed: SUBSET Approval]
Build == [job: Digests \cup {NoDigest}, design: Design, release: Releases \cup {0},
          link: {"open", "lost"}]

NoDesign == [status |-> "none", digest |-> NoDigest, revision |-> 0]
NoJob == [status |-> "none", artifact |-> 0, made |-> 0]
NoCall == [digest |-> NoDigest, decision |-> "none"]
NothingSeen == [design |-> NoDesign, job |-> NoJob, at |-> 0, doomed |-> {}]
NoBuild == [job |-> NoDigest, design |-> NoDesign, release |-> 0, link |-> "lost"]

Init ==
  /\ design = NoDesign
  /\ approvals = {} /\ audit = {}
  /\ jobs = [d \in Digests |-> NoJob]
  /\ store = [d \in Digests |-> 0]
  /\ pc = [t \in Tasks |-> "idle"]
  /\ call = [t \in Tasks |-> NoCall]
  /\ seen = [t \in Tasks |-> NothingSeen]
  /\ stage = [w \in Workers |-> "idle"]
  /\ build = [w \in Workers |-> NoBuild]
  /\ release = 1 /\ reviews = 0 /\ faults = 0

-----------------------------------------------------------------------------
(* What the handlers share *)

Exists == design.status \notin {"none", "deleted"}

\* The value a column has after an UPDATE by primary key of an object that was
\* read with the value old and assigned the value new.
Written(old, new, current) == IF new = old THEN current ELSE new

\* Mutant of EffectivelyApproved: any approval will do.
ApprovedAtAll(digest) ==
  \E a \in approvals : a.decision = "approved"

\* The latest approval row approves exactly this digest.
EffectivelyApproved(digest) ==
  \E a \in approvals :
    /\ \A b \in approvals : b.at <= a.at
    /\ a.decision = "approved" /\ a.digest = digest

\* Another transaction's UPDATE or DELETE of the job waits while a worker has it.
Holds(w) == stage[w] # "idle" /\ build[w].link = "open"
Locked(d) == \E w \in Workers : Holds(w) /\ build[w].job = d

Begin(t, step, c, s) ==
  /\ pc[t] = "idle" /\ Exists
  /\ pc' = [pc EXCEPT ![t] = step]
  /\ call' = [call EXCEPT ![t] = c]
  /\ seen' = [seen EXCEPT ![t] = s]

Return(t) ==
  /\ pc' = [pc EXCEPT ![t] = "idle"]
  /\ call' = [call EXCEPT ![t] = NoCall]
  /\ seen' = [seen EXCEPT ![t] = NothingSeen]

\* A request that ends in an error response, in a rollback (its row is gone, a
\* foreign key is violated, the process dies) or without anything to write.
Abort(t) ==
  /\ pc[t] # "idle"
  /\ Return(t)
  /\ UNCHANGED <<tables, store, workers, env>>

-----------------------------------------------------------------------------
(* Drafts *)

\* HarnessDesignRepository.create.
Create(d) ==
  /\ design.status = "none"
  /\ design' = [status |-> "draft", digest |-> d, revision |-> 1]
  /\ UNCHANGED <<approvals, audit, jobs, store, tasks, workers, env>>

\* The SET clause of replace_draft's UPDATE ... WHERE digest = expected_digest.
Replaced(d) == [status |-> "draft", digest |-> d, revision |-> design.revision + 1]

\* PUT with expected_digest: one guarded UPDATE.  The approvals are kept.
ReplaceGuarded(expected, d) ==
  /\ Exists /\ design.revision < MaxRevision
  /\ design.digest = expected
  /\ design' = Replaced(d)
  /\ UNCHANGED <<approvals, audit, jobs, store, tasks, workers, env>>

\* An interview's proposal is applied to an existing design: the same guarded
\* UPDATE, after which the approvals are removed in the same transaction.
Apply(expected, d) ==
  /\ Exists /\ design.revision < MaxRevision
  /\ design.digest = expected
  /\ design' = Replaced(d)
  /\ approvals' = {}
  /\ UNCHANGED <<audit, jobs, store, tasks, workers, env>>

\* PUT without expected_digest: the row is read, then written back.
LegacyRead(t, d) ==
  /\ LegacyCallers /\ design.revision < MaxRevision
  /\ Begin(t, "replace", [NoCall EXCEPT !.digest = d],
           [NothingSeen EXCEPT !.design = design])
  /\ UNCHANGED <<tables, store, workers, env>>

LegacyReplace(t) ==
  LET old == seen[t].design
  IN /\ pc[t] = "replace" /\ Exists
     /\ design' = [status |-> Written(old.status, "draft", design.status),
                   digest |-> Written(old.digest, call[t].digest, design.digest),
                   revision |-> old.revision + 1]
     /\ Return(t)
     /\ UNCHANGED <<approvals, audit, jobs, store, workers, env>>

\* DELETE removes the jobs, the approvals it can see, and the design.
DeleteRead(t) ==
  /\ Begin(t, "delete", NoCall,
           [NothingSeen EXCEPT !.design = design, !.doomed = approvals])
  /\ UNCHANGED <<tables, store, workers, env>>

Delete(t) ==
  /\ pc[t] = "delete" /\ Exists
  /\ \A d \in Digests : ~Locked(d)
  /\ design' = [NoDesign EXCEPT !.status = "deleted"]
  /\ approvals' = approvals \ seen[t].doomed
  /\ jobs' = [d \in Digests |-> NoJob]
  /\ Return(t)
  /\ UNCHANGED <<audit, store, workers, env>>

-----------------------------------------------------------------------------
(* Validation and review *)

\* Mutant of Verdict: a status the lifecycle does not have.
VerdictInvalid(digest) == IF digest \in Valid THEN "validated" ELSE "invalid"
Verdict(digest) == IF digest \in Valid THEN "validated" ELSE "draft"

ValidateRead(t) ==
  /\ Begin(t, "validate", NoCall, [NothingSeen EXCEPT !.design = design])
  /\ UNCHANGED <<tables, store, workers, env>>

\* save_validation: the digest it assigns is the one it read, so only the
\* status is written.
Validate(t) ==
  LET old == seen[t].design
  IN /\ pc[t] = "validate" /\ Exists
     /\ design' = [design EXCEPT
          !.status = Written(old.status, Verdict(old.digest), design.status)]
     /\ Return(t)
     /\ UNCHANGED <<approvals, audit, jobs, store, workers, env>>

Reviewable(expected) == design.status = "validated" /\ design.digest = expected

ReviewRead(t, expected, decision) ==
  /\ Reviewable(expected)
  /\ reviews < MaxReviews
  /\ Begin(t, "review", [digest |-> expected, decision |-> decision],
           [NothingSeen EXCEPT !.design = design, !.at = reviews + 1])
  /\ reviews' = reviews + 1
  /\ UNCHANGED <<tables, store, workers, release, faults>>

\* The approval, the design's status and the audit row commit together.
Decide(t) ==
  LET decision == call[t].decision
      old == seen[t].design
  IN /\ pc[t] = "review" /\ Exists
     /\ approvals' = approvals \cup
          {[at |-> seen[t].at, digest |-> old.digest, decision |-> decision]}
     /\ audit' = audit \cup
          {[digest |-> old.digest, decision |-> decision, revision |-> old.revision]}
     /\ design' = [design EXCEPT
          !.status = IF decision = "approved" THEN "approved" ELSE "draft"]
     /\ Return(t)
     /\ UNCHANGED <<jobs, store, workers, env>>

-----------------------------------------------------------------------------
(* Submission of a build *)

SubmitRead(t, expected) ==
  /\ design.digest = expected
  /\ Begin(t, "lookup", [NoCall EXCEPT !.digest = expected],
           [NothingSeen EXCEPT !.design = design])
  /\ UNCHANGED <<tables, store, workers, env>>

\* _is_retryable_submission_state, _is_reusable_submission_state.
Retryable(t) ==
  seen[t].design.status \in {"approved", "failed"} /\ EffectivelyApproved(call[t].digest)
ReusableSuccess(t) ==
  seen[t].design.status \in {"approved", "built"} /\ EffectivelyApproved(call[t].digest)

\* The approval and the job are read; what submit will write is decided here.  A
\* job that is still queued is returned as it is: Abort.
SubmitLookup(t, step) ==
  LET job == jobs[call[t].digest]
  IN /\ pc[t] = "lookup"
     /\ seen[t].design.digest = call[t].digest
     /\ \/ step = "create" /\ job.status = "none" /\ Retryable(t)
        \/ step = "reset" /\ job.status = "failed" /\ Retryable(t)
        \/ /\ step = "reset" /\ job.status = "succeeded" /\ ReusableSuccess(t)
           /\ store[call[t].digest] = 0
        \/ /\ step = "built" /\ job.status = "succeeded" /\ ReusableSuccess(t)
           /\ store[call[t].digest] # 0
     /\ pc' = [pc EXCEPT ![t] = step]
     /\ seen' = [seen EXCEPT ![t].job = job]
     /\ UNCHANGED <<tables, store, call, workers, env>>

\* The first submission of this digest.
SubmitCreate(t) ==
  LET d == call[t].digest
  IN /\ pc[t] = "create" /\ Exists
     /\ jobs[d].status = "none"
     /\ jobs' = [jobs EXCEPT ![d] =
          [status |-> "queued", artifact |-> 0,
           made |-> 1 + Cardinality({e \in Digests : jobs[e].status # "none"})]]
     /\ design' = [design EXCEPT
          !.status = Written(seen[t].design.status, "build-queued", design.status)]
     /\ Return(t)
     /\ UNCHANGED <<approvals, audit, store, workers, env>>

\* Another submission was first: IntegrityError, and everything is read again.
SubmitConflict(t) ==
  /\ pc[t] = "create" /\ Exists
  /\ jobs[call[t].digest].status # "none"
  /\ pc' = [pc EXCEPT ![t] = "lookup"]
  /\ seen' = [seen EXCEPT ![t] = [NothingSeen EXCEPT !.design = design]]
  /\ UNCHANGED <<tables, store, call, workers, env>>

\* Mutant of ResetJob: the job is cleared, its status forgotten.
ResetArtifactOnly(old, current) ==
  [current EXCEPT !.artifact = Written(old.artifact, 0, current.artifact)]

\* reset_for_retry, written by primary key.
ResetJob(old, current) ==
  [current EXCEPT !.status = Written(old.status, "queued", current.status),
                  !.artifact = Written(old.artifact, 0, current.artifact)]

SubmitReset(t) ==
  LET d == call[t].digest
  IN /\ pc[t] = "reset" /\ Exists
     /\ jobs[d].status # "none" /\ ~Locked(d)
     /\ jobs' = [jobs EXCEPT ![d] = ResetJob(seen[t].job, jobs[d])]
     /\ design' = [design EXCEPT
          !.status = Written(seen[t].design.status, "build-queued", design.status)]
     /\ Return(t)
     /\ UNCHANGED <<approvals, audit, store, workers, env>>

\* The digest was built before: mark_design_built.
SubmitBuilt(t) ==
  /\ pc[t] = "built" /\ Exists
  /\ design' = [design EXCEPT
       !.status = Written(seen[t].design.status, "built", design.status)]
  /\ Return(t)
  /\ UNCHANGED <<approvals, audit, jobs, store, workers, env>>

-----------------------------------------------------------------------------
(* The build worker *)

Fault == faults < MaxFaults /\ faults' = faults + 1

Queue == {d \in Digests : jobs[d].status = "queued" /\ ~Locked(d)}

\* claim_next: the oldest queued job nobody has locked; then the design is read.
Claim(w, d) ==
  /\ stage[w] = "idle"
  /\ d \in Queue /\ \A e \in Queue : jobs[d].made <= jobs[e].made
  /\ stage' = [stage EXCEPT ![w] = "claimed"]
  /\ build' = [build EXCEPT ![w] =
       [job |-> d, design |-> design, release |-> release, link |-> "open"]]
  /\ UNCHANGED <<tables, store, tasks, env>>

\* _require_buildable_design, and the contract validation that follows it.
Buildable(w) ==
  LET d == build[w].job
  IN /\ build[w].design.status = "build-queued"
     /\ build[w].design.digest = d
     /\ EffectivelyApproved(d)
     /\ d \in Valid

\* The package is generated, checked and archived in the worker's own directory.
Generate(w) ==
  /\ stage[w] = "claimed" /\ build[w].link = "open"
  /\ stage' = [stage EXCEPT ![w] = IF Buildable(w) THEN "generated" ELSE "refused"]
  /\ UNCHANGED <<tables, store, tasks, build, env>>

\* An OSError, a PackageError or a tar error while building; also one of the removal of the
\* worker's directory, after the file was stored and mark_succeeded was called.
BuildError(w) ==
  /\ stage[w] \in {"claimed", "generated", "replace", "stored"}
  /\ Fault
  /\ stage' = [stage EXCEPT ![w] = "refused"]
  /\ UNCHANGED <<tables, store, tasks, build, release, reviews>>

\* Mutant of FreeToStore: the file is written whatever is there.
StoreAlways(w) == TRUE
FreeToStore(w) == store[build[w].job] = 0

\* put_once where the mount has hard links: os.link creates the file or fails.
Link(w) ==
  /\ stage[w] = "generated" /\ HardLinks
  /\ FreeToStore(w)
  /\ store' = [store EXCEPT ![build[w].job] = build[w].release]
  /\ stage' = [stage EXCEPT ![w] = "stored"]
  /\ UNCHANGED <<tables, tasks, build, env>>

\* _dedup_or_conflict: the same bytes are reused, others are a conflict.
Dedup(w) ==
  /\ stage[w] = "generated"
  /\ ~FreeToStore(w)
  /\ stage' = [stage EXCEPT ![w] =
       IF store[build[w].job] = build[w].release THEN "stored" ELSE "refused"]
  /\ UNCHANGED <<tables, store, tasks, build, env>>

\* Without hard links: destination.exists() is asked, then os.replace is called.
FindFree(w) ==
  /\ stage[w] = "generated" /\ ~HardLinks
  /\ FreeToStore(w)
  /\ stage' = [stage EXCEPT ![w] = "replace"]
  /\ UNCHANGED <<tables, store, tasks, build, env>>

Replace(w) ==
  /\ stage[w] = "replace"
  /\ store' = [store EXCEPT ![build[w].job] = build[w].release]
  /\ stage' = [stage EXCEPT ![w] = "stored"]
  /\ UNCHANGED <<tables, tasks, build, env>>

Release(w) ==
  /\ stage' = [stage EXCEPT ![w] = "idle"]
  /\ build' = [build EXCEPT ![w] = NoBuild]

\* mark_succeeded; the design's status is written without looking at its digest.
Succeed(w) ==
  LET d == build[w].job
  IN /\ stage[w] = "stored" /\ build[w].link = "open"
     /\ jobs' = [jobs EXCEPT ![d].status = "succeeded", ![d].artifact = build[w].release]
     /\ design' = [design EXCEPT
          !.status = Written(build[w].design.status, "built", design.status)]
     /\ Release(w)
     /\ UNCHANGED <<approvals, audit, store, tasks, env>>

\* Mutant of FailedJob: a job that failed is left in the queue.
FailedRequeued(job) == [job EXCEPT !.artifact = 0]
FailedJob(job) == [job EXCEPT !.status = "failed", !.artifact = 0]

\* mark_failed.
Fail(w) ==
  LET d == build[w].job
  IN /\ stage[w] = "refused" /\ build[w].link = "open"
     /\ jobs' = [jobs EXCEPT ![d] = FailedJob(jobs[d])]
     /\ design' = [design EXCEPT
          !.status = Written(build[w].design.status, "failed", design.status)]
     /\ Release(w)
     /\ UNCHANGED <<approvals, audit, store, tasks, env>>

\* The process dies: the transaction is rolled back, the file stays.
Crash(w) ==
  /\ stage[w] # "idle"
  /\ Fault
  /\ Release(w)
  /\ UNCHANGED <<tables, store, tasks, release, reviews>>

\* The database ends the session: the lock is gone, the process works on until
\* its next statement fails (Restart).
Disconnect(w) ==
  /\ stage[w] # "idle" /\ build[w].link = "open"
  /\ Fault
  /\ build' = [build EXCEPT ![w].link = "lost"]
  /\ UNCHANGED <<tables, store, tasks, stage, release, reviews>>

Restart(w) ==
  /\ stage[w] \in {"claimed", "stored", "refused"} /\ build[w].link = "lost"
  /\ Release(w)
  /\ UNCHANGED <<tables, store, tasks, env>>

-----------------------------------------------------------------------------
(* The environment *)

\* A release of the generator is deployed; builds under way use the old one.
Upgrade ==
  /\ release < MaxRelease
  /\ release' = release + 1
  /\ UNCHANGED <<tables, store, tasks, workers, reviews, faults>>

\* The file of a recorded artifact disappears (submit and download handle it).
LoseFile(d) ==
  /\ FilesLost /\ store[d] # 0
  /\ Fault
  /\ store' = [store EXCEPT ![d] = 0]
  /\ UNCHANGED <<tables, tasks, workers, release, reviews>>

-----------------------------------------------------------------------------
(* Specification *)

Request(t) ==
  \/ \E d \in Digests : LegacyRead(t, d) \/ SubmitRead(t, d)
  \/ \E d \in Digests, decision \in Decisions : ReviewRead(t, d, decision)
  \/ ValidateRead(t) \/ DeleteRead(t)

Respond(t) ==
  \/ LegacyReplace(t) \/ Delete(t) \/ Validate(t) \/ Decide(t)
  \/ \E step \in {"create", "reset", "built"} : SubmitLookup(t, step)
  \/ SubmitCreate(t) \/ SubmitConflict(t) \/ SubmitReset(t) \/ SubmitBuilt(t)
  \/ Abort(t)

Edit ==
  \/ \E d \in Digests : Create(d)
  \/ \E e, d \in Digests : ReplaceGuarded(e, d) \/ Apply(e, d)

\* What a worker does when nothing goes wrong around it.
Work(w) ==
  \/ \E d \in Digests : Claim(w, d)
  \/ Generate(w) \/ Link(w) \/ Dedup(w) \/ FindFree(w) \/ Replace(w)
  \/ Succeed(w) \/ Fail(w) \/ Restart(w)

Environment ==
  \/ Upgrade
  \/ \E d \in Digests : LoseFile(d)
  \/ \E w \in Workers : BuildError(w) \/ Crash(w) \/ Disconnect(w)

Next ==
  \/ Edit
  \/ \E t \in Tasks : Request(t) \/ Respond(t)
  \/ \E w \in Workers : Work(w)
  \/ Environment

Spec == Init /\ [][Next]_vars

\* serve loops over run_once: a worker that can go on does.
FairSpec == Spec /\ \A w \in Workers : WF_vars(Work(w))

-----------------------------------------------------------------------------
(* Type invariant *)

\* Every variable holds rows and values of its table; a task that writes has
\* read an existing design, a worker that builds has claimed a job.
TypeOK ==
  /\ design \in Design
  /\ approvals \subseteq Approval /\ audit \subseteq Review
  /\ jobs \in [Digests -> Job]
  /\ store \in [Digests -> Releases \cup {0}]
  /\ pc \in [Tasks -> {"idle", "replace", "delete", "validate", "review", "lookup",
                       "create", "reset", "built"}]
  /\ call \in [Tasks -> Call]
  /\ seen \in [Tasks -> Seen]
  /\ stage \in [Workers -> {"idle", "claimed", "generated", "replace", "stored", "refused"}]
  /\ build \in [Workers -> Build]
  /\ release \in Releases
  /\ reviews \in Nat /\ faults \in Nat
  /\ Exists => design.digest \in Digests
  /\ \A t \in Tasks : pc[t] # "idle" => seen[t].design.digest \in Digests
  /\ \A t \in Tasks : pc[t] = "review" => call[t].decision \in Decisions
  /\ \A t \in Tasks : pc[t] \in {"replace", "lookup", "create", "reset", "built"} =>
       call[t].digest \in Digests
  /\ \A w \in Workers : stage[w] # "idle" =>
       build[w].job \in Digests /\ build[w].release \in Releases

-----------------------------------------------------------------------------
(* Safety *)

\* A reviewer approved this digest: the audit trail, which nothing removes, says so.
Approved(d) == \E r \in audit : r.digest = d /\ r.decision = "approved"

\* No build was ever queued for a digest that no reviewer approved, whatever
\* edits, reviews and submissions overlapped (plan 2026-09-14: "only approved
\* exact design digest can be queued").
QueuedWasApproved == \A d \in Digests : jobs[d].status # "none" => Approved(d)

\* No file is in the artifact store but for a digest that a reviewer approved,
\* even where design.status says what it should not.
StoredWasApproved == \A d \in Digests : store[d] # 0 => Approved(d)

\* No file is in the artifact store for a content that does not pass validation,
\* although a design can be approved on a stale validation result.
StoredIsValid == \A d \in Digests : store[d] # 0 => d \in Valid

\* A succeeded job names its artifact and a failed one none, although two
\* submissions and a worker write overlapping column sets.
JobNamesArtifact ==
  \A d \in Digests :
    /\ jobs[d].status = "succeeded" => jobs[d].artifact # 0
    /\ jobs[d].status = "failed" => jobs[d].artifact = 0

\* The bytes in the store are those a succeeded job recorded the digest of, in
\* spite of crashes, rebuilds and another release of the generator (as long as
\* the mount has hard links and files do not disappear).
ArtifactMatchesRecord ==
  HardLinks /\ ~FilesLost => \A d \in Digests :
    jobs[d].status = "succeeded" => store[d] = jobs[d].artifact

\* A design that waits for its build has a job in the queue: no overlap of
\* submissions, edits and workers strands it.
QueuedDesignHasJob ==
  design.status = "build-queued" => \E d \in Digests : jobs[d].status = "queued"

\* A revision of the design names one content: reviews recorded for the same
\* revision are about the same digest (clients that send expected_digest).
RevisionNamesDigest ==
  ~LegacyCallers => \A r, s \in audit : r.revision = s.revision => r.digest = s.digest

\* No worker goes on building after the database has ended its session.
Connected == \A w \in Workers : stage[w] # "idle" => build[w].link = "open"

\* Stored bytes are never replaced by others: by the hard link where the mount has them, by
\* the lock of the job everywhere else, unless a worker goes on without it.
StoredBytesImmutable ==
  [][\A d \in Digests : store[d] # 0 => store'[d] \in {store[d], 0}]_vars

-----------------------------------------------------------------------------
(* Liveness *)

\* Under FairSpec, a queued job is settled, whatever crashes on the way, unless
\* the design goes away.
QueuedIsSettled ==
  \A d \in Digests : jobs[d].status = "queued" ~> jobs[d].status # "queued"

-----------------------------------------------------------------------------
(* The inductive invariants *)

\* A job belongs to a design that exists; a worker's job is queued for everybody
\* else, and is no other worker's.
LockInv ==
  /\ \A d \in Digests : jobs[d].status # "none" => Exists
  /\ \A w \in Workers : Holds(w) => jobs[build[w].job].status = "queued"
  /\ \A v, w \in Workers :
       Holds(v) /\ Holds(w) /\ build[v].job = build[w].job => v = w

\* Whatever waits for a build, is being built or could be built was approved.
ApprovalInv ==
  /\ \A a \in approvals : a.decision = "approved" => Approved(a.digest)
  /\ \A t \in Tasks : pc[t] \in {"create", "reset", "built"} => Approved(call[t].digest)
  /\ \A w \in Workers : stage[w] # "idle" => Approved(build[w].job)
  /\ QueuedWasApproved
  /\ StoredWasApproved

\* What a worker takes to the store passed the worker's own validation.
ValidInv ==
  /\ \A w \in Workers :
       stage[w] \in {"generated", "replace", "stored"} => build[w].job \in Valid
  /\ StoredIsValid

\* A job that a submission resets was read in a settled state.
JobInv ==
  /\ JobNamesArtifact
  /\ \A t \in Tasks : pc[t] = "reset" => seen[t].job.status \in {"failed", "succeeded"}

\* With hard links, what a worker stored stays what is in the store.
StoreInv ==
  /\ HardLinks => \A w \in Workers : stage[w] # "replace"
  /\ HardLinks /\ ~FilesLost => \A w \in Workers :
       stage[w] = "stored" => store[build[w].job] = build[w].release
  /\ ArtifactMatchesRecord

\* Without hard links, a worker that found no file still finds none when it renames its own.
RenameInv ==
  \A w \in Workers : stage[w] = "replace" => ~ HardLinks /\ store[build[w].job] = 0

\* A worker stores a package only for a design it read as queued; and while the design
\* waits for its build, some queued job is held by no worker that would leave it so.
QueuedInv ==
  /\ \A w \in Workers :
       stage[w] \in {"generated", "replace", "stored"} =>
         build[w].design.status = "build-queued"
  /\ design.status = "build-queued" =>
       \E d \in Digests :
         /\ jobs[d].status = "queued"
         /\ \A w \in Workers :
              Holds(w) /\ build[w].job = d => build[w].design.status # "failed"

\* Two records of the design's content agree on what a revision contains.
Consistent(a, b) == a.revision = b.revision => a.digest = b.digest

\* Without legacy callers every content has a revision of its own.
RevisionInv ==
  ~LegacyCallers =>
    /\ design.status = "none" => audit = {} /\ \A t \in Tasks : pc[t] = "idle"
    /\ \A t \in Tasks : pc[t] # "replace"
    /\ Exists => \A r \in audit : r.revision <= design.revision /\ Consistent(r, design)
    /\ Exists => \A t \in Tasks : pc[t] = "review" =>
         seen[t].design.revision <= design.revision /\ Consistent(seen[t].design, design)
    /\ \A t, u \in Tasks : pc[t] = "review" /\ pc[u] = "review" =>
         Consistent(seen[t].design, seen[u].design)
    /\ \A t \in Tasks, r \in audit : pc[t] = "review" => Consistent(seen[t].design, r)
    /\ RevisionNamesDigest
=============================================================================
