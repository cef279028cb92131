------------------------ MODULE DesignLifecycleProofs ------------------------
(***************************************************************************)
(* Theorems about DesignLifecycle, for any number of tasks, workers,       *)
(* digests, releases and faults.                                           *)
(***************************************************************************)
EXTENDS DesignLifecycle, FiniteSetTheorems, TLAPS

USE DigestsAssumption, SwitchesAssumption, BoundsAssumption

-----------------------------------------------------------------------------
(* Types *)

\* The empty rows have their types.
LEMMA EmptyTypes ==
  /\ NoDesign \in Design /\ NoJob \in Job /\ NoCall \in Call
  /\ NothingSeen \in Seen /\ NoBuild \in Build
  BY DEF NoDesign, Design, Statuses, NoJob, Job, NoCall, Call, NothingSeen, Seen,
         Approval, NoBuild, Build

\* Every variable starts with its type.
LEMMA InitType == Init => TypeOK
<1>1. NoDesign.status = "none"
  BY DEF NoDesign
<1> QED
  BY <1>1, EmptyTypes DEF Init, TypeOK, Exists, Releases

\* An existing design's content is one of the digests.
LEMMA ExistingDesign ==
  ASSUME TypeOK, Exists
  PROVE  design.digest \in Digests /\ design.revision \in Nat
  BY DEF TypeOK, Design

\* A task that begins has read an existing design.
LEMMA BeginType ==
  ASSUME TypeOK, NEW t \in Tasks, NEW c \in Call, NEW s \in Seen,
         NEW step \in {"replace", "delete", "validate", "review", "lookup"},
         Begin(t, step, c, s), s.design.digest \in Digests,
         step = "review" => c.decision \in Decisions,
         step \in {"replace", "lookup"} => c.digest \in Digests,
         UNCHANGED <<tables, store, workers, release, faults>>, reviews' \in Nat
  PROVE  TypeOK'
  BY DEF TypeOK, Begin, tables, workers, Exists

\* A task that has returned is idle.
LEMMA ReturnType ==
  ASSUME TypeOK, NEW t \in Tasks, Return(t),
         design' \in Design, Exists' => design'.digest \in Digests,
         approvals' \subseteq Approval, audit' \subseteq Review,
         jobs' \in [Digests -> Job], UNCHANGED <<store, workers, env>>
  PROVE  TypeOK'
  BY EmptyTypes DEF TypeOK, Return, workers, env

\* Changing the status of the design leaves it a design.
LEMMA StatusType ==
  ASSUME TypeOK, Exists, NEW s \in Statuses, design' = [design EXCEPT !.status = s]
  PROVE  design' \in Design /\ design'.digest \in Digests
  BY DEF TypeOK, Design

\* What an UPDATE leaves in the status column is a status.
LEMMA WrittenStatus ==
  ASSUME TypeOK, NEW old, NEW new \in Statuses
  PROVE  Written(old, new, design.status) \in Statuses
  BY DEF TypeOK, Design, Written

\* The queue position of a new job is a number.
LEMMA MadeType ==
  1 + Cardinality({e \in Digests : jobs[e].status # "none"}) \in Nat
<1> DEFINE S == {e \in Digests : jobs[e].status # "none"}
<1>1. IsFiniteSet(S)
  BY FS_Subset
<1>2. Cardinality(S) \in Nat
  BY <1>1, FS_CardinalityType
<1> QED
  BY <1>2

\* Types are kept by the steps of the server's tasks.
LEMMA TaskTypes ==
  ASSUME TypeOK, NEW t \in Tasks, Request(t) \/ Respond(t)
  PROVE  TypeOK'
<1>1. ASSUME NEW d \in Digests, LegacyRead(t, d)
      PROVE  TypeOK'
  <2> DEFINE c == [NoCall EXCEPT !.digest = d]
             s == [NothingSeen EXCEPT !.design = design]
  <2>1. c \in Call /\ c.digest = d /\ s \in Seen /\ s.design = design
    BY EmptyTypes DEF TypeOK, Call, Seen, NoCall, NothingSeen
  <2>2. Begin(t, "replace", c, s) /\ UNCHANGED <<tables, store, workers, env>>
    BY <1>1 DEF LegacyRead
  <2>3. reviews' \in Nat /\ UNCHANGED <<release, faults>> /\ Exists
    BY <2>2 DEF env, TypeOK, Begin
  <2> HIDE DEF c, s
  <2> QED
    BY <2>1, <2>2, <2>3, BeginType, ExistingDesign
<1>2. ASSUME NEW d \in Digests, SubmitRead(t, d)
      PROVE  TypeOK'
  <2> DEFINE c == [NoCall EXCEPT !.digest = d]
             s == [NothingSeen EXCEPT !.design = design]
  <2>1. c \in Call /\ c.digest = d /\ s \in Seen /\ s.design = design
    BY EmptyTypes DEF TypeOK, Call, Seen, NoCall, NothingSeen
  <2>2. Begin(t, "lookup", c, s) /\ UNCHANGED <<tables, store, workers, env>>
    BY <1>2 DEF SubmitRead
  <2>3. reviews' \in Nat /\ UNCHANGED <<release, faults>> /\ Exists
    BY <2>2 DEF env, TypeOK, Begin
  <2> HIDE DEF c, s
  <2> QED
    BY <2>1, <2>2, <2>3, BeginType, ExistingDesign
<1>3. ASSUME NEW d \in Digests, NEW decision \in Decisions, ReviewRead(t, d, decision)
      PROVE  TypeOK'
  <2> DEFINE c == [digest |-> d, decision |-> decision]
             s == [NothingSeen EXCEPT !.design = design, !.at = reviews + 1]
  <2>1. c \in Call /\ c.decision = decision /\ s \in Seen /\ s.design = design
    <3>1. c \in Call /\ c.decision = decision
      BY DEF Call
    <3>2. reviews + 1 \in Nat /\ design \in Design
      BY DEF TypeOK
    <3>3. s \in Seen /\ s.design = design
      BY <3>2, EmptyTypes DEF Seen, NothingSeen
    <3> QED
      BY <3>1, <3>3
  <2>2. Begin(t, "review", c, s) /\ UNCHANGED <<tables, store, workers, release, faults>>
        /\ reviews' = reviews + 1
    BY <1>3 DEF ReviewRead
  <2>3. reviews' \in Nat /\ Exists
    BY <2>2 DEF TypeOK, Begin
  <2> HIDE DEF c, s
  <2> QED
    BY <2>1, <2>2, <2>3, BeginType, ExistingDesign
<1>4. CASE ValidateRead(t)
  <2> DEFINE s == [NothingSeen EXCEPT !.design = design]
  <2>1. s \in Seen /\ s.design = design
    BY EmptyTypes DEF TypeOK, Seen, NothingSeen
  <2>2. Begin(t, "validate", NoCall, s) /\ UNCHANGED <<tables, store, workers, env>>
    BY <1>4 DEF ValidateRead
  <2>3. reviews' \in Nat /\ UNCHANGED <<release, faults>> /\ Exists
    BY <2>2 DEF env, TypeOK, Begin
  <2> HIDE DEF s
  <2> QED
    BY <2>1, <2>2, <2>3, BeginType, ExistingDesign, EmptyTypes
<1>5. CASE DeleteRead(t)
  <2> DEFINE s == [NothingSeen EXCEPT !.design = design, !.doomed = approvals]
  <2>1. s \in Seen /\ s.design = design
    BY EmptyTypes DEF TypeOK, Seen, NothingSeen
  <2>2. Begin(t, "delete", NoCall, s) /\ UNCHANGED <<tables, store, workers, env>>
    BY <1>5 DEF DeleteRead
  <2>3. reviews' \in Nat /\ UNCHANGED <<release, faults>> /\ Exists
    BY <2>2 DEF env, TypeOK, Begin
  <2> HIDE DEF s
  <2> QED
    BY <2>1, <2>2, <2>3, BeginType, ExistingDesign, EmptyTypes
<1>6. CASE LegacyReplace(t)
  <2>1. seen[t].design \in Design /\ call[t].digest \in Digests
    BY <1>6 DEF LegacyReplace, TypeOK, Seen
  <2>2. design' \in Design /\ design'.digest \in Digests
    BY <1>6, <2>1, ExistingDesign DEF LegacyReplace, TypeOK, Design, Written, Statuses
  <2> QED
    BY <1>6, <2>2, ReturnType DEF LegacyReplace, TypeOK
<1>7. CASE Delete(t)
  <2>1. design' \in Design /\ ~Exists'
    BY <1>7, EmptyTypes DEF Delete, Design, Statuses, Exists, NoDesign
  <2>2. jobs' \in [Digests -> Job]
    BY <1>7, EmptyTypes DEF Delete
  <2> QED
    BY <1>7, <2>1, <2>2, ReturnType DEF Delete, TypeOK
<1>8. CASE Validate(t)
  <2>1. Verdict(seen[t].design.digest) \in Statuses
    BY DEF Verdict, Statuses
  <2>2. design' \in Design /\ design'.digest \in Digests
    BY <1>8, <2>1, WrittenStatus, StatusType DEF Validate
  <2> QED
    BY <1>8, <2>2, ReturnType DEF Validate, TypeOK
<1>9. CASE Decide(t)
  <2>1. seen[t] \in Seen /\ seen[t].design.digest \in Digests /\ call[t].decision \in Decisions
    BY <1>9 DEF Decide, TypeOK
  <2>2. approvals' \subseteq Approval /\ audit' \subseteq Review
    BY <1>9, <2>1 DEF Decide, TypeOK, Approval, Review, Seen, Design
  <2>3. design' \in Design /\ design'.digest \in Digests
    BY <1>9, StatusType DEF Decide, Statuses
  <2> QED
    BY <1>9, <2>2, <2>3, ReturnType DEF Decide, TypeOK
<1>10. ASSUME NEW step \in {"create", "reset", "built"}, SubmitLookup(t, step)
       PROVE  TypeOK'
  <2>1. call[t].digest \in Digests /\ jobs[call[t].digest] \in Job /\ seen[t] \in Seen
        /\ seen[t].design.digest \in Digests
    BY <1>10 DEF SubmitLookup, TypeOK
  <2>2. [seen[t] EXCEPT !.job = jobs[call[t].digest]] \in Seen
        /\ [seen[t] EXCEPT !.job = jobs[call[t].digest]].design = seen[t].design
    BY <2>1 DEF Seen
  <2> QED
    BY <1>10, <2>1, <2>2 DEF SubmitLookup, TypeOK, tables, workers, env, Exists
<1>11. CASE SubmitCreate(t)
  <2>1. jobs' \in [Digests -> Job]
    BY <1>11, MadeType DEF SubmitCreate, TypeOK, Job
  <2>2. design' \in Design /\ design'.digest \in Digests
    BY <1>11, WrittenStatus, StatusType DEF SubmitCreate, Statuses
  <2> QED
    BY <1>11, <2>1, <2>2, ReturnType DEF SubmitCreate, TypeOK
<1>12. CASE SubmitConflict(t)
  <2>1. call[t].digest \in Digests
    BY <1>12 DEF SubmitConflict, TypeOK
  <2>2. [NothingSeen EXCEPT !.design = design] \in Seen
        /\ [NothingSeen EXCEPT !.design = design].design = design
    BY EmptyTypes DEF TypeOK, Seen, NothingSeen
  <2> QED
    BY <1>12, <2>1, <2>2, ExistingDesign
    DEF SubmitConflict, TypeOK, tables, workers, env, Exists
<1>13. CASE SubmitReset(t)
  <2>1. call[t].digest \in Digests /\ jobs[call[t].digest] \in Job
    BY <1>13 DEF SubmitReset, TypeOK
  <2>2. ResetJob(seen[t].job, jobs[call[t].digest]) \in Job
    BY <2>1 DEF ResetJob, Written, Job
  <2>3. jobs' \in [Digests -> Job]
    BY <1>13, <2>2 DEF SubmitReset, TypeOK
  <2>4. design' \in Design /\ design'.digest \in Digests
    BY <1>13, WrittenStatus, StatusType DEF SubmitReset, Statuses
  <2> QED
    BY <1>13, <2>3, <2>4, ReturnType DEF SubmitReset, TypeOK
<1>14. CASE SubmitBuilt(t)
  <2>1. design' \in Design /\ design'.digest \in Digests
    BY <1>14, WrittenStatus, StatusType DEF SubmitBuilt, Statuses
  <2> QED
    BY <1>14, <2>1, ReturnType DEF SubmitBuilt, TypeOK
<1>15. CASE Abort(t)
  BY <1>15, ReturnType DEF Abort, TypeOK, tables, Exists
<1> QED
  BY <1>1, <1>2, <1>3, <1>4, <1>5, <1>6, <1>7, <1>8, <1>9, <1>10, <1>11, <1>12,
     <1>13, <1>14, <1>15 DEF Request, Respond

\* Types are kept by the steps of the workers, as far as they leave the rows alone.
LEMMA StageTypes ==
  ASSUME TypeOK, NEW w \in Workers, UNCHANGED <<tables, tasks, build, release, reviews>>,
         stage[w] # "idle", faults' \in Nat,
         store' = store \/ store' = [store EXCEPT ![build[w].job] = build[w].release],
         NEW s \in {"generated", "replace", "stored", "refused"},
         stage' = [stage EXCEPT ![w] = s]
  PROVE  TypeOK'
  BY DEF TypeOK, tables, tasks, Exists

\* A worker that lets go of its job writes rows of the right type.
LEMMA ReleaseType ==
  ASSUME TypeOK, NEW w \in Workers, Release(w),
         design' \in Design, Exists' => design'.digest \in Digests,
         jobs' \in [Digests -> Job], faults' \in Nat,
         UNCHANGED <<approvals, audit, store, tasks, release, reviews>>
  PROVE  TypeOK'
  BY EmptyTypes DEF TypeOK, Release, tasks

\* Types are kept by the steps of the workers.
LEMMA WorkerTypes ==
  ASSUME TypeOK, LockInv, NEW w \in Workers,
         Work(w) \/ BuildError(w) \/ Crash(w) \/ Disconnect(w)
  PROVE  TypeOK'
<1>1. ASSUME NEW d \in Digests, Claim(w, d)
      PROVE  TypeOK'
  <2>1. [job |-> d, design |-> design, release |-> release, link |-> "open"] \in Build
    BY DEF TypeOK, Build
  <2> QED
    BY <1>1, <2>1 DEF Claim, TypeOK, tables, tasks, env, Exists
<1>2. CASE Generate(w)
  BY <1>2, StageTypes DEF Generate, TypeOK, env
<1>3. CASE Link(w)
  BY <1>3, StageTypes DEF Link, TypeOK, env
<1>4. CASE Dedup(w)
  BY <1>4, StageTypes DEF Dedup, TypeOK, env
<1>5. CASE FindFree(w)
  BY <1>5, StageTypes DEF FindFree, TypeOK, env
<1>6. CASE Replace(w)
  BY <1>6, StageTypes DEF Replace, TypeOK, env
<1>7. ASSUME Succeed(w) \/ Fail(w)
      PROVE  TypeOK'
  <2>1. Holds(w) /\ build[w].job \in Digests /\ build[w].release \in Releases
        /\ jobs[build[w].job] \in Job
    BY <1>7 DEF Succeed, Fail, Holds, TypeOK
  <2>2. Exists
    BY <2>1 DEF LockInv
  <2>3. jobs' \in [Digests -> Job]
    <3>1. [jobs[build[w].job] EXCEPT !.status = "succeeded", !.artifact = build[w].release]
             \in Job
      BY <2>1 DEF Job
    <3>2. FailedJob(jobs[build[w].job]) \in Job
      BY <2>1 DEF FailedJob, Job
    <3>3. CASE Succeed(w)
      BY <3>1, <3>3 DEF Succeed, TypeOK
    <3>4. CASE Fail(w)
      BY <3>2, <3>4 DEF Fail, TypeOK
    <3> QED
      BY <1>7, <3>3, <3>4
  <2>4. design' \in Design /\ design'.digest \in Digests
    BY <1>7, <2>2, WrittenStatus, StatusType DEF Succeed, Fail, Statuses
  <2> QED
    BY <1>7, <2>3, <2>4, ReleaseType DEF Succeed, Fail, TypeOK, env
<1>8. ASSUME Restart(w) \/ Crash(w)
      PROVE  TypeOK'
  <2>1. Release(w) /\ UNCHANGED <<tables, store, tasks, release, reviews>>
    BY <1>8 DEF Restart, Crash, env
  <2>2. faults' \in Nat
    BY <1>8 DEF Restart, Crash, Fault, env, TypeOK
  <2>3. design' \in Design /\ jobs' \in [Digests -> Job]
        /\ (Exists' => design'.digest \in Digests)
    BY <2>1 DEF tables, TypeOK, Exists
  <2> QED
    BY <2>1, <2>2, <2>3, ReleaseType DEF tables
<1>9. CASE BuildError(w)
  <2>1. faults' \in Nat
    BY <1>9 DEF BuildError, Fault, TypeOK
  <2>2. /\ UNCHANGED <<tables, store, tasks, build, release, reviews>>
        /\ stage[w] # "idle" /\ stage' = [stage EXCEPT ![w] = "refused"]
    BY <1>9 DEF BuildError
  <2> QED
    BY <2>1, <2>2, StageTypes
<1>10. CASE Disconnect(w)
  <2>1. build'[w] \in Build /\ build'[w].job = build[w].job /\ build'[w].release = build[w].release
    BY <1>10 DEF Disconnect, TypeOK, Build
  <2> QED
    <3>1. faults' \in Nat
      BY <1>10 DEF Disconnect, Fault, TypeOK
    <3>2. build' = [build EXCEPT ![w] = build'[w]]
          /\ UNCHANGED <<tables, store, tasks, stage, release, reviews>>
      BY <1>10 DEF Disconnect, TypeOK
    <3> QED
      BY <3>1, <3>2, <2>1 DEF TypeOK, tables, tasks, Exists
<1> QED
  BY <1>1, <1>2, <1>3, <1>4, <1>5, <1>6, <1>7, <1>8, <1>9, <1>10 DEF Work

\* Types are kept by every step.
LEMMA StepType ==
  ASSUME TypeOK, LockInv, [Next]_vars
  PROVE  TypeOK'
<1>1. ASSUME NEW d \in Digests, Create(d)
      PROVE  TypeOK'
  <2>1. design' \in Design /\ design'.digest \in Digests
    BY <1>1 DEF Create, Design, Statuses
  <2> QED
    BY <1>1, <2>1 DEF Create, TypeOK, tasks, workers, env
<1>2. ASSUME NEW e \in Digests, NEW d \in Digests, ReplaceGuarded(e, d) \/ Apply(e, d)
      PROVE  TypeOK'
  <2>1. design' \in Design /\ design'.digest \in Digests
    BY <1>2, ExistingDesign DEF ReplaceGuarded, Apply, Replaced, Design, Statuses
  <2> QED
    BY <1>2, <2>1 DEF ReplaceGuarded, Apply, TypeOK, tasks, workers, env
<1>3. CASE Upgrade
  <2>1. release + 1 \in Releases
    BY <1>3 DEF Upgrade, TypeOK, Releases
  <2> QED
    BY <1>3, <2>1 DEF Upgrade, TypeOK, tables, tasks, workers, Exists
<1>4. ASSUME NEW d \in Digests, LoseFile(d)
      PROVE  TypeOK'
  BY <1>4 DEF LoseFile, Fault, TypeOK, tables, tasks, workers, Exists
<1>5. CASE UNCHANGED vars
  BY <1>5 DEF vars, tables, tasks, workers, env, TypeOK, Exists
<1> QED
  BY <1>1, <1>2, <1>3, <1>4, <1>5, TaskTypes, WorkerTypes DEF Next, Edit, Environment

-----------------------------------------------------------------------------
(* Locks *)

\* A step that moves no worker and keeps the status of every job a worker holds.
LEMMA LocksKept ==
  ASSUME LockInv, UNCHANGED workers,
         \A d \in Digests : jobs'[d].status # "none" => Exists',
         TypeOK, \A d \in Digests : Locked(d) => jobs'[d].status = jobs[d].status
  PROVE  LockInv'
  BY DEF LockInv, workers, Holds, Locked, TypeOK

\* Locks are kept by the steps of the server's tasks.
LEMMA TaskLocks ==
  ASSUME TypeOK, LockInv, NEW t \in Tasks, Request(t) \/ Respond(t)
  PROVE  LockInv'
<1>1. ASSUME UNCHANGED <<tables, workers>>
      PROVE  LockInv'
  BY <1>1, LocksKept DEF tables, LockInv, Exists
<1>2. ASSUME UNCHANGED <<jobs, workers>>, Exists'
      PROVE  LockInv'
  BY <1>2, LocksKept
<1>3. CASE LegacyReplace(t)
  <2>1. Exists'
    BY <1>3 DEF LegacyReplace, Exists, Written
  <2> QED
    BY <1>2, <1>3, <2>1 DEF LegacyReplace
<1>4. CASE Delete(t)
  <2>1. \A d \in Digests : jobs'[d].status = "none" /\ ~Locked(d)
    BY <1>4 DEF Delete, NoJob
  <2> QED
    BY <1>4, <2>1, LocksKept DEF Delete
<1>5. CASE Validate(t)
  <2>1. Exists'
    BY <1>5 DEF Validate, Exists, Written, Verdict, TypeOK, Design
  <2> QED
    BY <1>2, <1>5, <2>1 DEF Validate
<1>6. CASE Decide(t)
  <2>1. Exists'
    BY <1>6 DEF Decide, Exists, TypeOK, Design
  <2> QED
    BY <1>2, <1>6, <2>1 DEF Decide
<1>7. CASE SubmitCreate(t)
  <2>1. Exists'
    BY <1>7 DEF SubmitCreate, Exists, Written, TypeOK, Design
  <2>2. \A d \in Digests : Locked(d) => jobs[d].status = "queued"
    BY DEF LockInv, Locked
  <2>3. \A d \in Digests : Locked(d) => jobs'[d].status = jobs[d].status
    BY <1>7, <2>2 DEF SubmitCreate, TypeOK
  <2> QED
    BY <1>7, <2>1, <2>3, LocksKept DEF SubmitCreate
<1>8. CASE SubmitReset(t)
  <2>1. Exists'
    BY <1>8 DEF SubmitReset, Exists, Written, TypeOK, Design
  <2>2. \A d \in Digests : Locked(d) => jobs'[d].status = jobs[d].status
    BY <1>8 DEF SubmitReset, TypeOK
  <2> QED
    BY <1>8, <2>1, <2>2, LocksKept DEF SubmitReset
<1>9. CASE SubmitBuilt(t)
  <2>1. Exists'
    BY <1>9 DEF SubmitBuilt, Exists, Written, TypeOK, Design
  <2> QED
    BY <1>2, <1>9, <2>1 DEF SubmitBuilt
<1> QED
  BY <1>1, <1>3, <1>4, <1>5, <1>6, <1>7, <1>8, <1>9
  DEF Request, Respond, LegacyRead, SubmitRead, ReviewRead, ValidateRead, DeleteRead,
      SubmitLookup, SubmitConflict, Abort

\* A worker that holds its job goes on, or lets it go and the job is settled.
LEMMA WorkerLocks ==
  ASSUME TypeOK, LockInv, NEW w \in Workers,
         Work(w) \/ BuildError(w) \/ Crash(w) \/ Disconnect(w)
  PROVE  LockInv'
<1>1. ASSUME NEW d \in Digests, Claim(w, d)
      PROVE  LockInv'
  <2>1. ~Locked(d) /\ jobs[d].status = "queued"
    BY <1>1 DEF Claim, Queue
  <2>2. \A v \in Workers \ {w} : stage'[v] = stage[v] /\ build'[v] = build[v]
    BY <1>1 DEF Claim, TypeOK
  <2>3. Holds(w)' /\ build'[w].job = d
    BY <1>1 DEF Claim, TypeOK, Holds
  <2> QED
    BY <1>1, <2>1, <2>2, <2>3 DEF Claim, LockInv, Holds, Locked, tables, Exists
<1>2. ASSUME UNCHANGED <<tables, build>>, stage[w] # "idle",
             NEW s, stage' = [stage EXCEPT ![w] = s]
      PROVE  LockInv'
  BY <1>2 DEF LockInv, Holds, tables, Exists, TypeOK
<1>3. ASSUME Release(w), Exists',
             \A d \in Digests : d # build[w].job \/ ~Holds(w) => jobs'[d] = jobs[d]
      PROVE  LockInv'
  <2>1. ~Holds(w)'
    BY <1>3 DEF Release, Holds, TypeOK
  <2>2. \A v \in Workers \ {w} : Holds(v)' = Holds(v) /\ build'[v] = build[v]
    BY <1>3 DEF Release, Holds, TypeOK
  <2>3. \A v \in Workers \ {w} : Holds(v) => build[v].job \in Digests
    BY DEF Holds, TypeOK
  <2> QED
    BY <1>3, <2>1, <2>2, <2>3 DEF LockInv
<1>4. ASSUME Release(w), UNCHANGED tables
      PROVE  LockInv'
  <2>1. ~Holds(w)'
    BY <1>4 DEF Release, Holds, TypeOK
  <2>2. \A v \in Workers \ {w} : Holds(v)' = Holds(v) /\ build'[v] = build[v]
    BY <1>4 DEF Release, Holds, TypeOK
  <2> QED
    BY <1>4, <2>1, <2>2 DEF LockInv, tables, Exists
<1>5. ASSUME Succeed(w) \/ Fail(w)
      PROVE  LockInv'
  <2>1. Holds(w) /\ build[w].job \in Digests /\ Release(w)
    BY <1>5 DEF Succeed, Fail, Holds, TypeOK
  <2>2. Exists
    BY <2>1 DEF LockInv
  <2>3. Exists'
    BY <1>5, <2>2 DEF Succeed, Fail, Exists, Written, TypeOK, Design
  <2>4. \A d \in Digests : d # build[w].job => jobs'[d] = jobs[d]
    BY <1>5 DEF Succeed, Fail, TypeOK
  <2> QED
    BY <1>3, <2>1, <2>3, <2>4
<1>6. CASE Disconnect(w)
  <2>1. ~Holds(w)'
    BY <1>6 DEF Disconnect, Holds, TypeOK, Build
  <2>2. \A v \in Workers \ {w} : Holds(v)' = Holds(v) /\ build'[v] = build[v]
    BY <1>6 DEF Disconnect, Holds, TypeOK
  <2> QED
    BY <1>6, <2>1, <2>2 DEF Disconnect, LockInv, tables, Exists
<1> QED
  BY <1>1, <1>2, <1>4, <1>5, <1>6
  DEF Work, Generate, Link, Dedup, FindFree, Replace, Restart, BuildError, Crash, tables

\* Locks are kept by every step.
LEMMA StepLocks ==
  ASSUME TypeOK, LockInv, [Next]_vars
  PROVE  LockInv'
<1>1. ASSUME NEW d \in Digests, Create(d)
      PROVE  LockInv'
  <2>1. Exists'
    BY <1>1 DEF Create, Exists
  <2> QED
    BY <1>1, <2>1, LocksKept DEF Create
<1>2. ASSUME NEW e \in Digests, NEW d \in Digests, ReplaceGuarded(e, d) \/ Apply(e, d)
      PROVE  LockInv'
  <2>1. Exists'
    BY <1>2 DEF ReplaceGuarded, Apply, Replaced, Exists
  <2> QED
    BY <1>2, <2>1, LocksKept DEF ReplaceGuarded, Apply
<1>3. ASSUME UNCHANGED <<tables, workers>>
      PROVE  LockInv'
  BY <1>3, LocksKept DEF tables, LockInv, Exists
<1> QED
  BY <1>1, <1>2, <1>3, TaskLocks, WorkerLocks
  DEF Next, Edit, Environment, Upgrade, LoseFile, vars

\* Every behaviour keeps the types of its tables and tasks; no two live workers
\* build the same job, and no job outlives its design.
THEOREM TypeCorrect == Spec => [](TypeOK /\ LockInv)
<1>1. Init => TypeOK /\ LockInv
  <2>1. ASSUME Init PROVE LockInv
    BY <2>1 DEF Init, LockInv, Holds, NoJob
  <2> QED
    BY <2>1, InitType
<1>2. TypeOK /\ LockInv /\ [Next]_vars => (TypeOK /\ LockInv)'
  BY StepType, StepLocks
<1> QED
  BY <1>1, <1>2, PTL DEF Spec

-----------------------------------------------------------------------------
(* Approval *)

\* What is effectively approved has an approval in the audit trail.
LEMMA EffectiveIsAudited ==
  ASSUME ApprovalInv, NEW d, EffectivelyApproved(d)
  PROVE  Approved(d)
  BY DEF ApprovalInv, EffectivelyApproved

\* The audit trail only grows.
LEMMA AuditGrows ==
  ASSUME [Next]_vars
  PROVE  \A d : Approved(d) => Approved(d)'
<1>1. ASSUME NEW t \in Tasks, Request(t) PROVE audit' = audit
  BY <1>1 DEF Request, LegacyRead, SubmitRead, ReviewRead, ValidateRead, DeleteRead, tables
<1>2. ASSUME NEW t \in Tasks, Respond(t) PROVE audit \subseteq audit'
  BY <1>2 DEF Respond, LegacyReplace, Delete, Validate, Decide, SubmitLookup, SubmitCreate,
              SubmitConflict, SubmitReset, SubmitBuilt, Abort, tables
<1>3. ASSUME NEW w \in Workers, Work(w) PROVE audit' = audit
  <2>1. ASSUME NEW d, Claim(w, d) PROVE audit' = audit
    BY <2>1 DEF Claim, tables
  <2>2. Generate(w) \/ Link(w) \/ Dedup(w) => audit' = audit
    BY DEF Generate, Link, Dedup, tables
  <2>3. FindFree(w) \/ Replace(w) \/ Restart(w) => audit' = audit
    BY DEF FindFree, Replace, Restart, tables
  <2>4. Succeed(w) \/ Fail(w) => audit' = audit
    BY DEF Succeed, Fail
  <2> QED
    BY <1>3, <2>1, <2>2, <2>3, <2>4 DEF Work
<1>4. ASSUME Edit \/ Environment \/ UNCHANGED vars PROVE audit' = audit
  <2>1. Edit => audit' = audit
    BY DEF Edit, Create, ReplaceGuarded, Apply
  <2>2. Environment => tables' = tables
    BY DEF Environment, Upgrade, LoseFile, BuildError, Crash, Disconnect
  <2> QED
    BY <1>4, <2>1, <2>2 DEF vars, tables
<1>5. audit \subseteq audit'
  BY <1>1, <1>2, <1>3, <1>4 DEF Next
<1> QED
  BY <1>5 DEF Approved

\* Approval is kept by the steps of the server's tasks.
LEMMA TaskApproval ==
  ASSUME TypeOK, ApprovalInv, NEW t \in Tasks, Request(t) \/ Respond(t),
         \A d : Approved(d) => Approved(d)'
  PROVE  ApprovalInv'
<1> USE DEF ApprovalInv, QueuedWasApproved, StoredWasApproved
<1>1. ASSUME NEW s, NEW c, NEW v, NEW step \in {"replace", "delete", "validate", "review", "lookup"},
             Begin(t, step, c, v), UNCHANGED <<tables, store, workers>>
      PROVE  ApprovalInv'
  BY <1>1 DEF Begin, tables, workers, TypeOK
<1>2. ASSUME Return(t), UNCHANGED <<store, workers>>,
             \A a \in approvals' : a.decision = "approved" => Approved(a.digest)',
             \A d \in Digests : jobs'[d].status # "none" => Approved(d)'
      PROVE  ApprovalInv'
  BY <1>2 DEF Return, workers, TypeOK
<1>3. CASE LegacyReplace(t) \/ Validate(t) \/ SubmitBuilt(t) \/ Abort(t)
  BY <1>2, <1>3 DEF LegacyReplace, Validate, SubmitBuilt, Abort, tables
<1>4. CASE Delete(t)
  <2>1. \A d \in Digests : jobs'[d].status = "none"
    BY <1>4 DEF Delete, NoJob
  <2> QED
    BY <1>2, <1>4, <2>1 DEF Delete
<1>5. CASE Decide(t)
  <2> DEFINE d == seen[t].design.digest
             row == [digest |-> d, decision |-> call[t].decision,
                     revision |-> seen[t].design.revision]
             a == [at |-> seen[t].at, digest |-> d, decision |-> call[t].decision]
  <2>1. approvals' = approvals \cup {a} /\ audit' = audit \cup {row}
    BY <1>5 DEF Decide
  <2>2. \A x : x = a /\ x.decision = "approved" => Approved(x.digest)'
    <3> SUFFICES ASSUME NEW x, x = a, x.decision = "approved"
                 PROVE  Approved(x.digest)'
      OBVIOUS
    <3>1. row \in audit' /\ row.digest = x.digest /\ row.decision = "approved"
      BY <2>1
    <3> QED
      BY <3>1 DEF Approved
  <2>3. \A x \in approvals' : x.decision = "approved" => Approved(x.digest)'
    BY <2>1, <2>2
  <2>4. Return(t) /\ UNCHANGED <<store, workers, jobs>>
    BY <1>5 DEF Decide
  <2> QED
    BY <1>2, <2>3, <2>4
<1>6. ASSUME NEW step \in {"create", "reset", "built"}, SubmitLookup(t, step)
      PROVE  ApprovalInv'
  <2>1. Approved(call[t].digest)
    BY <1>6, EffectiveIsAudited DEF SubmitLookup, Retryable, ReusableSuccess
  <2> QED
    BY <1>6, <2>1 DEF SubmitLookup, tables, workers, TypeOK
<1>7. CASE SubmitCreate(t)
  <2>1. \A d \in Digests : jobs'[d].status # "none" => Approved(d)'
    BY <1>7 DEF SubmitCreate, TypeOK
  <2> QED
    BY <1>2, <1>7, <2>1 DEF SubmitCreate
<1>8. CASE SubmitConflict(t)
  BY <1>8 DEF SubmitConflict, tables, workers, TypeOK
<1>9. CASE SubmitReset(t)
  <2>1. \A d \in Digests : jobs'[d].status # "none" => Approved(d)'
    BY <1>9 DEF SubmitReset, TypeOK
  <2> QED
    BY <1>2, <1>9, <2>1 DEF SubmitReset
<1> QED
  BY <1>1, <1>3, <1>4, <1>5, <1>6, <1>7, <1>8, <1>9
  DEF Request, Respond, LegacyRead, SubmitRead, ReviewRead, ValidateRead, DeleteRead, env

\* Approval is kept by every step: a worker builds what was queued, and stores
\* what it builds.
LEMMA StepApproval ==
  ASSUME TypeOK, ApprovalInv, [Next]_vars
  PROVE  ApprovalInv'
<1> USE DEF ApprovalInv, QueuedWasApproved, StoredWasApproved
<1>1. \A d : Approved(d) => Approved(d)'
  BY AuditGrows
<1>2. ASSUME approvals' \subseteq approvals, UNCHANGED <<jobs, store, tasks, workers>>
      PROVE  ApprovalInv'
  BY <1>1, <1>2 DEF tasks, workers
<1>3. ASSUME NEW w \in Workers, NEW d \in Digests, Claim(w, d)
      PROVE  ApprovalInv'
  <2>1. Approved(d)
    BY <1>3 DEF Claim, Queue
  <2> QED
    BY <1>1, <1>3, <2>1 DEF Claim, tables, tasks, TypeOK
<1>4. ASSUME NEW w \in Workers, stage[w] # "idle",
             \E s : stage' = [stage EXCEPT ![w] = s],
             \/ store' = store
             \/ store' = [store EXCEPT ![build[w].job] = build[w].release],
             UNCHANGED <<tables, tasks, build>>
      PROVE  ApprovalInv'
  BY <1>1, <1>4 DEF tables, tasks, TypeOK
<1>5. ASSUME NEW w \in Workers, Release(w), UNCHANGED <<approvals, store, tasks>>,
             \A d \in Digests : jobs'[d].status # "none" => Approved(d)
      PROVE  ApprovalInv'
  BY <1>1, <1>5 DEF Release, tasks, TypeOK
<1>6. ASSUME NEW w \in Workers, Succeed(w) \/ Fail(w)
      PROVE  ApprovalInv'
  <2>1. Approved(build[w].job)
    BY <1>6 DEF Succeed, Fail
  <2>2. \A d \in Digests : jobs'[d].status # "none" => Approved(d)
    BY <1>6, <2>1 DEF Succeed, Fail, TypeOK
  <2> QED
    BY <1>5, <1>6, <2>2 DEF Succeed, Fail
<1>7. ASSUME NEW w \in Workers, Restart(w) \/ Crash(w)
      PROVE  ApprovalInv'
  BY <1>5, <1>7 DEF Restart, Crash, tables
<1>8. ASSUME NEW w \in Workers, Disconnect(w)
      PROVE  ApprovalInv'
  <2>1. \A v \in Workers : build'[v].job = build[v].job
    BY <1>8 DEF Disconnect, TypeOK, Build
  <2> QED
    BY <1>1, <1>8, <2>1 DEF Disconnect, tables, tasks
<1>9. ASSUME NEW d \in Digests, LoseFile(d)
      PROVE  ApprovalInv'
  BY <1>1, <1>9 DEF LoseFile, tables, tasks, workers, TypeOK
<1>10. ASSUME NEW w \in Workers,
              Generate(w) \/ Link(w) \/ Dedup(w) \/ FindFree(w) \/ Replace(w) \/ BuildError(w)
       PROVE  ApprovalInv'
  BY <1>4, <1>10 DEF Generate, Link, Dedup, FindFree, Replace, BuildError
<1>11. CASE Edit
  BY <1>2, <1>11 DEF Edit, Create, ReplaceGuarded, Apply
<1>12. CASE Upgrade \/ UNCHANGED vars
  BY <1>2, <1>12 DEF Upgrade, vars, tables
<1>13. ASSUME NEW t \in Tasks, Request(t) \/ Respond(t)
       PROVE  ApprovalInv'
  BY <1>1, <1>13, TaskApproval
<1> QED
  BY <1>3, <1>6, <1>7, <1>8, <1>9, <1>10, <1>11, <1>12, <1>13 DEF Next, Work, Environment

\* No build is queued for a digest that no reviewer approved.
THEOREM QueuedWasApprovedHolds == Spec => []QueuedWasApproved
<1>1. Init => ApprovalInv
  BY DEF Init, ApprovalInv, QueuedWasApproved, StoredWasApproved, NoJob
<1>2. TypeOK /\ LockInv /\ ApprovalInv /\ [Next]_vars => ApprovalInv'
  BY StepApproval
<1>3. ApprovalInv => QueuedWasApproved
  BY DEF ApprovalInv
<1> QED
  BY <1>1, <1>2, <1>3, TypeCorrect, PTL DEF Spec

\* No artifact is stored for a digest that no reviewer approved.
THEOREM StoredWasApprovedHolds == Spec => []StoredWasApproved
<1>1. Init => ApprovalInv
  BY DEF Init, ApprovalInv, QueuedWasApproved, StoredWasApproved, NoJob
<1>2. TypeOK /\ LockInv /\ ApprovalInv /\ [Next]_vars => ApprovalInv'
  BY StepApproval
<1>3. ApprovalInv => StoredWasApproved
  BY DEF ApprovalInv
<1> QED
  BY <1>1, <1>2, <1>3, TypeCorrect, PTL DEF Spec

-----------------------------------------------------------------------------
(* Validation by the worker *)

\* What is taken to the store has passed the worker's validation, at every step.
LEMMA StepValid ==
  ASSUME TypeOK, ValidInv, [Next]_vars
  PROVE  ValidInv'
<1> USE DEF ValidInv, StoredIsValid
<1>1. ASSUME UNCHANGED <<store, workers>>
      PROVE  ValidInv'
  BY <1>1 DEF workers
<1>2. ASSUME NEW w \in Workers, NEW d \in Digests, Claim(w, d)
      PROVE  ValidInv'
  BY <1>2 DEF Claim, TypeOK
<1>3. ASSUME NEW w \in Workers, Generate(w)
      PROVE  ValidInv'
  BY <1>3 DEF Generate, Buildable, TypeOK
<1>4. ASSUME NEW w \in Workers, stage[w] \in {"generated", "replace"},
             \E s : stage' = [stage EXCEPT ![w] = s],
             \/ store' = store
             \/ store' = [store EXCEPT ![build[w].job] = build[w].release],
             UNCHANGED build
      PROVE  ValidInv'
  BY <1>4 DEF TypeOK
<1>5. ASSUME NEW w \in Workers, Release(w), UNCHANGED store
      PROVE  ValidInv'
  BY <1>5 DEF Release, TypeOK
<1>6. ASSUME NEW w \in Workers, BuildError(w)
      PROVE  ValidInv'
  BY <1>6 DEF BuildError, TypeOK
<1>7. ASSUME NEW w \in Workers, Disconnect(w)
      PROVE  ValidInv'
  <2>1. \A v \in Workers : build'[v].job = build[v].job
    BY <1>7 DEF Disconnect, TypeOK, Build
  <2> QED
    BY <1>7, <2>1 DEF Disconnect
<1>8. ASSUME NEW d \in Digests, LoseFile(d)
      PROVE  ValidInv'
  BY <1>8 DEF LoseFile, workers, TypeOK
<1>9. ASSUME NEW w \in Workers, Link(w) \/ Dedup(w) \/ FindFree(w) \/ Replace(w)
      PROVE  ValidInv'
  BY <1>4, <1>9 DEF Link, Dedup, FindFree, Replace
<1>10. ASSUME NEW w \in Workers, Succeed(w) \/ Fail(w) \/ Restart(w) \/ Crash(w)
       PROVE  ValidInv'
  BY <1>5, <1>10 DEF Succeed, Fail, Restart, Crash
<1>11. ASSUME NEW t \in Tasks, Request(t) \/ Respond(t)
       PROVE  ValidInv'
  BY <1>1, <1>11
  DEF Request, LegacyRead, SubmitRead, ReviewRead, ValidateRead, DeleteRead, Respond,
      LegacyReplace, Delete, Validate, Decide, SubmitLookup, SubmitCreate,
      SubmitConflict, SubmitReset, SubmitBuilt, Abort
<1>12. CASE Edit \/ Upgrade \/ UNCHANGED vars
  BY <1>1, <1>12 DEF Edit, Create, ReplaceGuarded, Apply, Upgrade, vars
<1> QED
  BY <1>2, <1>3, <1>6, <1>7, <1>8, <1>9, <1>10, <1>11, <1>12 DEF Next, Work, Environment

\* No artifact is stored for a content that does not pass validation.
THEOREM StoredIsValidHolds == Spec => []StoredIsValid
<1>1. Init => ValidInv
  BY DEF Init, ValidInv, StoredIsValid
<1>2. TypeOK /\ LockInv /\ ValidInv /\ [Next]_vars => ValidInv'
  BY StepValid
<1>3. ValidInv => StoredIsValid
  BY DEF ValidInv
<1> QED
  BY <1>1, <1>2, <1>3, TypeCorrect, PTL DEF Spec

-----------------------------------------------------------------------------
(* Jobs and what they record *)

\* The values a release, an artifact column and a job's status can have.
LEMMA ReleasePositive == \A r \in Releases : r # 0
  BY DEF Releases

\* A job that is reset is queued.
LEMMA ResetQueues ==
  ASSUME NEW old, old.status \in {"failed", "succeeded"}, NEW current \in Job
  PROVE  ResetJob(old, current).status = "queued"
  BY DEF ResetJob, Written, Job

\* What jobs record is kept by every step.
LEMMA StepJob ==
  ASSUME TypeOK, JobInv, [Next]_vars
  PROVE  JobInv'
<1> USE DEF JobInv, JobNamesArtifact
<1>1. ASSUME UNCHANGED <<jobs, tasks>>
      PROVE  JobInv'
  BY <1>1 DEF tasks
<1>2. ASSUME NEW t \in Tasks, Return(t), UNCHANGED jobs
      PROVE  JobInv'
  BY <1>2 DEF Return, TypeOK
<1>3. ASSUME NEW t \in Tasks, NEW c, NEW s,
             NEW step \in {"replace", "delete", "validate", "review", "lookup"},
             Begin(t, step, c, s), UNCHANGED jobs
      PROVE  JobInv'
  BY <1>3 DEF Begin, TypeOK
<1>4. ASSUME NEW t \in Tasks, NEW step, SubmitLookup(t, step)
      PROVE  JobInv'
  <2>1. /\ jobs' = jobs /\ pc' = [pc EXCEPT ![t] = step]
        /\ seen' = [seen EXCEPT ![t].job = jobs[call[t].digest]]
        /\ step = "reset" => jobs[call[t].digest].status \in {"failed", "succeeded"}
    BY <1>4 DEF SubmitLookup, tables
  <2>2. seen'[t].job = jobs[call[t].digest]
    BY <2>1 DEF TypeOK, Seen
  <2> QED
    BY <2>1, <2>2 DEF TypeOK
<1>5. ASSUME NEW t \in Tasks, SubmitConflict(t)
      PROVE  JobInv'
  BY <1>5 DEF SubmitConflict, tables, TypeOK
<1>6. ASSUME NEW t \in Tasks, Delete(t)
      PROVE  JobInv'
  BY <1>6 DEF Delete, NoJob, Return, TypeOK
<1>7. ASSUME NEW t \in Tasks, SubmitCreate(t)
      PROVE  JobInv'
  BY <1>7 DEF SubmitCreate, Return, TypeOK
<1>8. ASSUME NEW t \in Tasks, SubmitReset(t)
      PROVE  JobInv'
  <2>1. call[t].digest \in Digests /\ jobs[call[t].digest] \in Job
    BY <1>8 DEF SubmitReset, TypeOK
  <2>2. ResetJob(seen[t].job, jobs[call[t].digest]).status = "queued"
    BY <1>8, <2>1, ResetQueues DEF SubmitReset
  <2>3. jobs' = [jobs EXCEPT ![call[t].digest] = ResetJob(seen[t].job, jobs[call[t].digest])]
        /\ Return(t)
    BY <1>8 DEF SubmitReset
  <2> QED
    BY <2>1, <2>2, <2>3 DEF Return, TypeOK
<1>9. ASSUME NEW w \in Workers, Succeed(w)
      PROVE  JobInv'
  <2>1. build[w].job \in Digests /\ build[w].release # 0 /\ UNCHANGED tasks
    BY <1>9, ReleasePositive DEF Succeed, TypeOK
  <2>2. jobs'[build[w].job].artifact # 0 /\ jobs'[build[w].job].status = "succeeded"
    BY <1>9, <2>1 DEF Succeed, TypeOK, Job
  <2>3. \A d \in Digests \ {build[w].job} : jobs'[d] = jobs[d]
    BY <1>9 DEF Succeed, TypeOK
  <2> QED
    BY <2>1, <2>2, <2>3 DEF tasks
<1>10. ASSUME NEW w \in Workers, Fail(w)
       PROVE  JobInv'
  <2>1. build[w].job \in Digests /\ UNCHANGED tasks
    BY <1>10 DEF Fail, TypeOK
  <2>2. jobs'[build[w].job].artifact = 0 /\ jobs'[build[w].job].status = "failed"
    BY <1>10, <2>1 DEF Fail, FailedJob, TypeOK, Job
  <2>3. \A d \in Digests \ {build[w].job} : jobs'[d] = jobs[d]
    BY <1>10 DEF Fail, TypeOK
  <2> QED
    BY <2>1, <2>2, <2>3 DEF tasks
<1>11. ASSUME NEW w \in Workers, Work(w) \/ BuildError(w) \/ Crash(w) \/ Disconnect(w)
       PROVE  JobInv'
  BY <1>1, <1>9, <1>10, <1>11
  DEF Work, Claim, Generate, Link, Dedup, FindFree, Replace, Restart, BuildError, Crash,
      Disconnect, tables
<1>12. ASSUME NEW t \in Tasks, Request(t) \/ Respond(t)
       PROVE  JobInv'
  BY <1>2, <1>3, <1>4, <1>5, <1>6, <1>7, <1>8, <1>12
  DEF Request, LegacyRead, SubmitRead, ReviewRead, ValidateRead, DeleteRead, Respond,
      LegacyReplace, Validate, Decide, SubmitBuilt, Abort, tables
<1>13. CASE Edit \/ Upgrade \/ (\E d \in Digests : LoseFile(d)) \/ UNCHANGED vars
  BY <1>1, <1>13 DEF Edit, Create, ReplaceGuarded, Apply, Upgrade, LoseFile, vars, tables
<1> QED
  BY <1>11, <1>12, <1>13 DEF Next, Environment

\* A succeeded job names its artifact and a failed one none.
THEOREM JobNamesArtifactHolds == Spec => []JobNamesArtifact
<1>1. Init => JobInv
  BY DEF Init, JobInv, JobNamesArtifact, NoJob
<1>2. TypeOK /\ LockInv /\ JobInv /\ [Next]_vars => JobInv'
  BY StepJob
<1>3. JobInv => JobNamesArtifact
  BY DEF JobInv
<1> QED
  BY <1>1, <1>2, <1>3, TypeCorrect, PTL DEF Spec

-----------------------------------------------------------------------------
(* Queued designs *)

\* A job in the queue that no worker would fail without a word to its design.
Waiting(d) ==
  /\ jobs[d].status = "queued"
  /\ \A w \in Workers : Holds(w) /\ build[w].job = d => build[w].design.status # "failed"

\* While no worker moves, a queued job waits as long as it is queued.
LEMMA WaitingKept ==
  ASSUME NEW d \in Digests, Waiting(d), jobs'[d].status = "queued", UNCHANGED workers
  PROVE  Waiting(d)'
  BY DEF Waiting, Holds, workers

\* A step of worker w that ends its hold or leaves what it claimed and read alone keeps
\* every job that waits, and every package that is on its way to the store.
LEMMA WorkerWaiting ==
  ASSUME TypeOK, QueuedInv, NEW w \in Workers, UNCHANGED <<design, jobs>>,
         \A v \in Workers \ {w} : stage'[v] = stage[v] /\ build'[v] = build[v],
         \/ stage'[w] = "idle"
         \/ /\ stage[w] # "idle"
            /\ build'[w].job = build[w].job /\ build'[w].design = build[w].design
            /\ build'[w].link \in {build[w].link, "lost"},
         stage'[w] \in {"generated", "replace", "stored"} => build[w].design.status = "build-queued"
  PROVE  QueuedInv'
<1>1. \A v \in Workers :
        stage'[v] \in {"generated", "replace", "stored"} =>
          build'[v].design.status = "build-queued"
  BY DEF QueuedInv
<1>2. \A v \in Workers :
        Holds(v)' => Holds(v) /\ build'[v].job = build[v].job
                              /\ build'[v].design = build[v].design
  BY DEF Holds
<1>3. \A d \in Digests : Waiting(d) => Waiting(d)'
  BY <1>2 DEF Waiting
<1> QED
  BY <1>1, <1>3 DEF QueuedInv, Waiting

\* A design that is queued keeps a job that waits, at every step.
LEMMA StepQueued ==
  ASSUME TypeOK, LockInv, JobInv, QueuedInv, [Next]_vars
  PROVE  QueuedInv'
<1>1. ASSUME UNCHANGED workers,
             \/ design'.status # "build-queued"
             \/ /\ design.status = "build-queued"
                /\ \A d \in Digests : jobs[d].status = "queued" => jobs'[d].status = "queued"
      PROVE  QueuedInv'
  <2>1. \A v \in Workers : stage'[v] = stage[v] /\ build'[v] = build[v]
    BY <1>1 DEF workers
  <2>2. ASSUME design'.status = "build-queued" PROVE \E d \in Digests : Waiting(d)'
    <3>1. PICK d \in Digests : Waiting(d)
      BY <1>1, <2>2 DEF QueuedInv, Waiting
    <3>2. jobs'[d].status = "queued"
      BY <1>1, <2>2, <3>1 DEF Waiting
    <3> QED
      BY <1>1, <3>1, <3>2, WaitingKept
  <2> QED
    BY <2>1, <2>2 DEF QueuedInv, Waiting
<1>2. ASSUME UNCHANGED workers, NEW d \in Digests, jobs'[d].status = "queued", ~Locked(d)
      PROVE  QueuedInv'
  <2>1. \A v \in Workers : stage'[v] = stage[v] /\ build'[v] = build[v]
    BY <1>2 DEF workers
  <2>2. \A v \in Workers : ~(Holds(v)' /\ build'[v].job = d)
    BY <1>2, <2>1 DEF Locked, Holds
  <2> QED
    BY <1>2, <2>1, <2>2 DEF QueuedInv
<1>3. ASSUME NEW t \in Tasks, SubmitCreate(t)
      PROVE  QueuedInv'
  <2> DEFINE d == call[t].digest
  <2>1. /\ d \in Digests /\ jobs[d].status = "none" /\ UNCHANGED workers
        /\ jobs'[d].status = "queued"
    BY <1>3 DEF SubmitCreate, TypeOK
  <2>2. ~Locked(d)
    BY <2>1 DEF Locked, LockInv
  <2> QED
    BY <1>2, <2>1, <2>2
<1>4. ASSUME NEW t \in Tasks, SubmitReset(t)
      PROVE  QueuedInv'
  <2> DEFINE d == call[t].digest
  <2>1. /\ d \in Digests /\ jobs[d] \in Job /\ UNCHANGED workers /\ ~Locked(d)
        /\ jobs'[d] = ResetJob(seen[t].job, jobs[d])
    BY <1>4 DEF SubmitReset, TypeOK
  <2>2. jobs'[d].status = "queued"
    BY <1>4, <2>1, ResetQueues DEF SubmitReset, JobInv
  <2> QED
    BY <1>2, <2>1, <2>2
<1>5. ASSUME NEW t \in Tasks, Request(t) \/ Respond(t)
      PROVE  QueuedInv'
  <2>1. CASE \/ \E d \in Digests : LegacyRead(t, d) \/ SubmitRead(t, d)
             \/ \E d \in Digests, decision \in Decisions : ReviewRead(t, d, decision)
             \/ ValidateRead(t) \/ DeleteRead(t)
             \/ \E step \in {"create", "reset", "built"} : SubmitLookup(t, step)
             \/ SubmitConflict(t) \/ Abort(t)
    <3>1. UNCHANGED <<design, jobs, workers>>
      BY <2>1 DEF LegacyRead, SubmitRead, ReviewRead, ValidateRead, DeleteRead,
                  SubmitLookup, SubmitConflict, Abort, tables
    <3> QED
      BY <1>1, <3>1
  <2>2. CASE LegacyReplace(t) \/ Validate(t) \/ Decide(t) \/ SubmitBuilt(t)
    <3>1. UNCHANGED <<jobs, workers>>
      BY <2>2 DEF LegacyReplace, Validate, Decide, SubmitBuilt
    <3>2. design'.status = "build-queued" => design.status = "build-queued"
      BY <2>2 DEF LegacyReplace, Validate, Decide, SubmitBuilt, Written, Verdict, TypeOK, Design
    <3> QED
      BY <1>1, <3>1, <3>2
  <2>3. CASE Delete(t)
    BY <1>1, <2>3 DEF Delete, NoDesign
  <2> QED
    BY <1>3, <1>4, <1>5, <2>1, <2>2, <2>3 DEF Request, Respond
<1>6. CASE Edit \/ Upgrade \/ (\E d \in Digests : LoseFile(d)) \/ UNCHANGED vars
  <2>1. CASE Edit
    <3>1. UNCHANGED workers /\ design'.status # "build-queued"
      BY <2>1 DEF Edit, Create, ReplaceGuarded, Apply, Replaced
    <3> QED
      BY <1>1, <3>1
  <2>2. CASE Upgrade \/ (\E d \in Digests : LoseFile(d)) \/ UNCHANGED vars
    <3>1. UNCHANGED <<design, jobs, workers>>
      BY <2>2 DEF Upgrade, LoseFile, vars, tables
    <3> QED
      BY <1>1, <3>1
  <2> QED
    BY <1>6, <2>1, <2>2
<1>7. ASSUME NEW w \in Workers, NEW d \in Digests, Claim(w, d)
      PROVE  QueuedInv'
  <2>1. /\ UNCHANGED <<design, jobs>> /\ stage'[w] = "claimed"
        /\ build'[w].job = d /\ build'[w].design = design
        /\ \A v \in Workers \ {w} : stage'[v] = stage[v] /\ build'[v] = build[v]
    BY <1>7 DEF Claim, tables, TypeOK
  <2>2. ASSUME NEW e \in Digests, Waiting(e), design.status = "build-queued"
        PROVE  Waiting(e)'
    BY <2>1, <2>2 DEF Waiting, Holds
  <2>3. design.status = "build-queued" => \E e \in Digests : Waiting(e)
    BY DEF QueuedInv, Waiting
  <2>4. design'.status = "build-queued" => \E e \in Digests : Waiting(e)'
    BY <2>1, <2>2, <2>3
  <2>5. \A v \in Workers :
          stage'[v] \in {"generated", "replace", "stored"} =>
            build'[v].design.status = "build-queued"
    BY <2>1 DEF QueuedInv
  <2> QED
    BY <2>4, <2>5 DEF QueuedInv, Waiting
<1>8. ASSUME NEW w \in Workers,
             \/ Generate(w) \/ Link(w) \/ Dedup(w) \/ FindFree(w) \/ Replace(w) \/ Restart(w)
             \/ BuildError(w) \/ Crash(w) \/ Disconnect(w)
      PROVE  QueuedInv'
  <2>1. CASE Generate(w) \/ Link(w) \/ Dedup(w) \/ FindFree(w) \/ Replace(w) \/ BuildError(w)
    <3>1. /\ UNCHANGED <<design, jobs, build>> /\ stage[w] # "idle"
          /\ \A v \in Workers \ {w} : stage'[v] = stage[v]
      BY <2>1 DEF Generate, Link, Dedup, FindFree, Replace, BuildError, tables, TypeOK
    <3>2. stage'[w] \in {"generated", "replace", "stored"} =>
            build[w].design.status = "build-queued"
      BY <2>1 DEF Generate, Buildable, Link, Dedup, FindFree, Replace, BuildError, QueuedInv,
                  TypeOK
    <3> QED
      BY <3>1, <3>2, WorkerWaiting
  <2>2. CASE Restart(w) \/ Crash(w)
    <3>1. /\ UNCHANGED <<design, jobs>> /\ stage'[w] = "idle"
          /\ \A v \in Workers \ {w} : stage'[v] = stage[v] /\ build'[v] = build[v]
      BY <2>2 DEF Restart, Crash, Release, tables, TypeOK
    <3> QED
      BY <3>1, WorkerWaiting
  <2>3. CASE Disconnect(w)
    <3>1. /\ UNCHANGED <<design, jobs, stage>> /\ stage[w] # "idle"
          /\ build' = [build EXCEPT ![w].link = "lost"]
      BY <2>3 DEF Disconnect, tables
    <3>2. /\ build'[w].job = build[w].job /\ build'[w].design = build[w].design
          /\ build'[w].link = "lost"
          /\ \A v \in Workers \ {w} : build'[v] = build[v]
      BY <3>1 DEF TypeOK, Build
    <3>3. stage'[w] \in {"generated", "replace", "stored"} =>
            build[w].design.status = "build-queued"
      BY <3>1 DEF QueuedInv
    <3> QED
      BY <3>1, <3>2, <3>3, WorkerWaiting
  <2> QED
    BY <1>8, <2>1, <2>2, <2>3
<1>9. ASSUME NEW w \in Workers, Succeed(w) \/ Fail(w)
      PROVE  QueuedInv'
  <2>1. /\ stage'[w] = "idle"
        /\ \A v \in Workers \ {w} : stage'[v] = stage[v] /\ build'[v] = build[v]
        /\ \A d \in Digests : d # build[w].job => jobs'[d] = jobs[d]
    BY <1>9 DEF Succeed, Fail, Release, TypeOK
  <2>2. \A v \in Workers :
          stage'[v] \in {"generated", "replace", "stored"} =>
            build'[v].design.status = "build-queued"
    BY <2>1 DEF QueuedInv
  <2>3. CASE build[w].design.status # "failed"
    <3>1. design'.status # "build-queued"
      BY <1>9, <2>3 DEF Succeed, Fail, Written, QueuedInv, TypeOK, Design
    <3> QED
      BY <2>2, <3>1 DEF QueuedInv
  <2>4. CASE build[w].design.status = "failed"
    <3>1. Fail(w) /\ Holds(w) /\ design'.status = design.status
      BY <1>9, <2>4 DEF Succeed, Fail, Holds, Written, QueuedInv, TypeOK, Design
    <3>2. ASSUME NEW d \in Digests, Waiting(d) PROVE Waiting(d)'
      <4>1. d # build[w].job
        BY <2>4, <3>1, <3>2 DEF Waiting
      <4> QED
        BY <2>1, <3>2, <4>1 DEF Waiting, Holds
    <3>3. design.status = "build-queued" => \E d \in Digests : Waiting(d)
      BY DEF QueuedInv, Waiting
    <3>4. design'.status = "build-queued" => \E d \in Digests : Waiting(d)'
      BY <3>1, <3>2, <3>3
    <3> QED
      BY <2>2, <3>4 DEF QueuedInv, Waiting
  <2> QED
    BY <2>3, <2>4
<1> QED
  BY <1>5, <1>6, <1>7, <1>8, <1>9 DEF Next, Environment, Work

\* A design that waits for its build has a job in the queue, for any number of tasks,
\* workers and contents.
THEOREM QueuedDesignHasJobHolds == Spec => []QueuedDesignHasJob
<1>1. Init => JobInv /\ QueuedInv
  BY DEF Init, JobInv, JobNamesArtifact, QueuedInv, NoJob, NoDesign
<1>2. TypeOK /\ LockInv /\ JobInv /\ QueuedInv /\ [Next]_vars => JobInv' /\ QueuedInv'
  BY StepJob, StepQueued
<1>3. QueuedInv => QueuedDesignHasJob
  BY DEF QueuedInv, QueuedDesignHasJob
<1> QED
  BY <1>1, <1>2, <1>3, TypeCorrect, PTL DEF Spec

-----------------------------------------------------------------------------
(* The artifact store *)

\* What is stored and what is recorded agree at every step.
LEMMA StepStore ==
  ASSUME TypeOK, JobInv, StoreInv, HardLinks, ~FilesLost, [Next]_vars
  PROVE  StoreInv'
<1> USE DEF StoreInv, ArtifactMatchesRecord
<1>1. ASSUME UNCHANGED <<jobs, store, workers>>
      PROVE  StoreInv'
  BY <1>1 DEF workers
<1>2. ASSUME UNCHANGED <<store, workers>>,
             \A d \in Digests : jobs'[d].status = "succeeded" => jobs'[d] = jobs[d]
      PROVE  StoreInv'
  BY <1>2 DEF workers
<1>3. ASSUME NEW w \in Workers, UNCHANGED <<jobs, store, build>>,
             NEW s \in {"generated", "stored", "refused"},
             s = "stored" => store[build[w].job] = build[w].release,
             stage' = [stage EXCEPT ![w] = s]
      PROVE  StoreInv'
  BY <1>3 DEF TypeOK
<1>4. ASSUME NEW w \in Workers, NEW d \in Digests, Claim(w, d)
      PROVE  StoreInv'
  BY <1>4 DEF Claim, tables, TypeOK
<1>5. ASSUME NEW w \in Workers, Generate(w) \/ Dedup(w) \/ BuildError(w)
      PROVE  StoreInv'
  BY <1>3, <1>5 DEF Generate, Dedup, BuildError, tables
<1>6. ASSUME NEW w \in Workers, Link(w)
      PROVE  StoreInv'
  <2> DEFINE d == build[w].job
  <2>1. d \in Digests /\ store[d] = 0 /\ UNCHANGED <<jobs, build>>
        /\ store' = [store EXCEPT ![d] = build[w].release]
        /\ stage' = [stage EXCEPT ![w] = "stored"]
    BY <1>6 DEF Link, FreeToStore, tables, TypeOK
  <2>2. \A v \in Workers : stage[v] = "stored" => build[v].job \in Digests /\ build[v].job # d
    BY <2>1, ReleasePositive DEF TypeOK
  <2>3. jobs[d].status # "succeeded"
    BY <2>1 DEF JobInv, JobNamesArtifact
  <2> QED
    BY <2>1, <2>2, <2>3 DEF TypeOK
<1>7. ASSUME NEW w \in Workers, FindFree(w) \/ Replace(w)
      PROVE  StoreInv'
  BY <1>7 DEF FindFree, Replace
<1>8. ASSUME NEW w \in Workers, Release(w), UNCHANGED store,
             \A d \in Digests : jobs'[d].status = "succeeded" => store[d] = jobs'[d].artifact
      PROVE  StoreInv'
  BY <1>8 DEF Release, TypeOK
<1>9. ASSUME NEW w \in Workers, Succeed(w)
      PROVE  StoreInv'
  <2>1. build[w].job \in Digests /\ store[build[w].job] = build[w].release
    BY <1>9 DEF Succeed, TypeOK
  <2>2. jobs'[build[w].job].artifact = build[w].release
        /\ \A d \in Digests \ {build[w].job} : jobs'[d] = jobs[d]
    BY <1>9, <2>1 DEF Succeed, TypeOK, Job
  <2>3. \A d \in Digests : jobs'[d].status = "succeeded" => store[d] = jobs'[d].artifact
    BY <2>1, <2>2
  <2> QED
    BY <1>8, <1>9, <2>3 DEF Succeed
<1>10. ASSUME NEW w \in Workers, Fail(w)
       PROVE  StoreInv'
  <2>1. build[w].job \in Digests /\ jobs'[build[w].job].status = "failed"
        /\ \A d \in Digests \ {build[w].job} : jobs'[d] = jobs[d]
    BY <1>10 DEF Fail, FailedJob, TypeOK, Job
  <2>2. \A d \in Digests : jobs'[d].status = "succeeded" => store[d] = jobs'[d].artifact
    BY <2>1
  <2> QED
    BY <1>8, <1>10, <2>2 DEF Fail
<1>11. ASSUME NEW w \in Workers, Restart(w) \/ Crash(w)
       PROVE  StoreInv'
  BY <1>8, <1>11 DEF Restart, Crash, tables
<1>12. ASSUME NEW w \in Workers, Disconnect(w)
       PROVE  StoreInv'
  <2>1. \A v \in Workers : build'[v].job = build[v].job /\ build'[v].release = build[v].release
    BY <1>12 DEF Disconnect, TypeOK, Build
  <2> QED
    BY <1>12, <2>1 DEF Disconnect, tables
<1>13. ASSUME NEW t \in Tasks, Delete(t)
       PROVE  StoreInv'
  BY <1>2, <1>13 DEF Delete, NoJob
<1>14. ASSUME NEW t \in Tasks, SubmitCreate(t)
       PROVE  StoreInv'
  BY <1>2, <1>14 DEF SubmitCreate, TypeOK
<1>15. ASSUME NEW t \in Tasks, SubmitReset(t)
       PROVE  StoreInv'
  <2>1. call[t].digest \in Digests /\ jobs[call[t].digest] \in Job
    BY <1>15 DEF SubmitReset, TypeOK
  <2>2. ResetJob(seen[t].job, jobs[call[t].digest]).status = "queued"
    BY <1>15, <2>1, ResetQueues DEF SubmitReset, JobInv
  <2> QED
    BY <1>2, <1>15, <2>1, <2>2 DEF SubmitReset, TypeOK
<1>16. ASSUME NEW t \in Tasks, Request(t) \/ Respond(t)
       PROVE  StoreInv'
  BY <1>1, <1>13, <1>14, <1>15, <1>16
  DEF Request, LegacyRead, SubmitRead, ReviewRead, ValidateRead, DeleteRead, Respond,
      LegacyReplace, Validate, Decide, SubmitLookup, SubmitConflict, SubmitBuilt, Abort,
      tables
<1>17. CASE Edit \/ Upgrade \/ UNCHANGED vars
  BY <1>1, <1>17 DEF Edit, Create, ReplaceGuarded, Apply, Upgrade, vars, tables
<1>18. ASSUME NEW d \in Digests, LoseFile(d)
       PROVE  FALSE
  BY <1>18 DEF LoseFile
<1> QED
  BY <1>4, <1>5, <1>6, <1>7, <1>9, <1>10, <1>11, <1>12, <1>16, <1>17, <1>18
  DEF Next, Work, Environment

\* With hard links and as long as files do not disappear, the stored bytes are
\* those whose digest the succeeded job recorded.
THEOREM ArtifactMatchesRecordHolds == Spec => []ArtifactMatchesRecord
<1> DEFINE Inv == HardLinks /\ ~FilesLost => JobInv /\ StoreInv
<1>1. Init => Inv
  BY DEF Init, JobInv, JobNamesArtifact, StoreInv, ArtifactMatchesRecord, NoJob
<1>2. TypeOK /\ LockInv /\ Inv /\ [Next]_vars => Inv'
  BY StepJob, StepStore
<1>3. Inv => ArtifactMatchesRecord
  BY DEF StoreInv, ArtifactMatchesRecord
<1> HIDE DEF Inv
<1> QED
  BY <1>1, <1>2, <1>3, TypeCorrect, PTL DEF Spec

\* Tasks and edits leave the store and the workers alone.
LEMMA StoreKept ==
  ASSUME Edit \/ Upgrade \/ (\E t \in Tasks : Request(t) \/ Respond(t)) \/ UNCHANGED vars
  PROVE  UNCHANGED <<store, stage, build>>
<1>1. ASSUME NEW t \in Tasks, Request(t) \/ Respond(t)
      PROVE  UNCHANGED <<store, stage, build>>
  BY <1>1
  DEF Request, LegacyRead, SubmitRead, ReviewRead, ValidateRead, DeleteRead, Respond,
      LegacyReplace, Delete, Validate, Decide, SubmitLookup, SubmitCreate,
      SubmitConflict, SubmitReset, SubmitBuilt, Abort, workers
<1>2. ASSUME Edit \/ Upgrade \/ UNCHANGED vars
      PROVE  UNCHANGED <<store, stage, build>>
  BY <1>2 DEF Edit, Create, ReplaceGuarded, Apply, Upgrade, vars, workers
<1> QED
  BY <1>1, <1>2

\* As long as every worker that builds has the lock of its job, or files are linked, no two
\* workers are about to rename a file to the same place.
LEMMA StepRename ==
  ASSUME TypeOK, LockInv, RenameInv, HardLinks \/ Connected, [Next]_vars
  PROVE  /\ RenameInv'
         /\ \A d \in Digests : store[d] # 0 => store'[d] \in {store[d], 0}
<1> DEFINE Kept == \A d \in Digests : store[d] # 0 => store'[d] \in {store[d], 0}
<1>1. ASSUME UNCHANGED store, NEW w \in Workers,
             \A v \in Workers \ {w} : stage'[v] = stage[v] /\ build'[v] = build[v],
             stage'[w] # "replace" \/ (stage'[w] = stage[w] /\ build'[w].job = build[w].job)
      PROVE  RenameInv' /\ Kept
  BY <1>1 DEF RenameInv
<1>2. ASSUME NEW w \in Workers, FindFree(w)
      PROVE  RenameInv' /\ Kept
  <2>1. /\ ~ HardLinks /\ store[build[w].job] = 0 /\ UNCHANGED <<store, build>>
        /\ \A v \in Workers \ {w} : stage'[v] = stage[v]
    BY <1>2 DEF FindFree, FreeToStore, TypeOK
  <2> QED
    BY <2>1 DEF RenameInv
<1>3. ASSUME NEW w \in Workers, Link(w)
      PROVE  RenameInv' /\ Kept
  <2>1. /\ HardLinks /\ build[w].job \in Digests /\ store[build[w].job] = 0
        /\ store' = [store EXCEPT ![build[w].job] = build[w].release]
        /\ stage' = [stage EXCEPT ![w] = "stored"]
    BY <1>3 DEF Link, FreeToStore, TypeOK
  <2>2. \A v \in Workers : stage'[v] # "replace"
    BY <2>1 DEF RenameInv, TypeOK
  <2>3. Kept
    BY <2>1 DEF TypeOK
  <2> QED
    BY <2>2, <2>3 DEF RenameInv
<1>4. ASSUME NEW w \in Workers, Replace(w)
      PROVE  RenameInv' /\ Kept
  <2>1. /\ stage[w] = "replace" /\ build[w].job \in Digests /\ UNCHANGED build
        /\ store' = [store EXCEPT ![build[w].job] = build[w].release]
        /\ stage' = [stage EXCEPT ![w] = "stored"]
    BY <1>4 DEF Replace, TypeOK
  <2>2. ~ HardLinks /\ store[build[w].job] = 0 /\ Connected
    BY <2>1 DEF RenameInv
  <2>3. \A v \in Workers \ {w} : stage[v] = "replace" => build[v].job # build[w].job
    BY <2>1, <2>2 DEF LockInv, Holds, Connected
  <2>4. \A v \in Workers : stage'[v] = "replace" => v # w /\ stage[v] = "replace"
    BY <2>1 DEF TypeOK
  <2>5. \A v \in Workers : stage'[v] = "replace" => store'[build'[v].job] = 0
    BY <2>1, <2>3, <2>4 DEF RenameInv, TypeOK
  <2>6. Kept
    BY <2>1, <2>2 DEF TypeOK
  <2> QED
    BY <2>2, <2>5, <2>6 DEF RenameInv
<1>5. ASSUME NEW w \in Workers, NEW d \in Digests, Claim(w, d)
      PROVE  RenameInv' /\ Kept
  BY <1>1, <1>5 DEF Claim, TypeOK
<1>6. ASSUME NEW w \in Workers, Generate(w) \/ Dedup(w) \/ BuildError(w)
      PROVE  RenameInv' /\ Kept
  BY <1>1, <1>6 DEF Generate, Dedup, BuildError, TypeOK
<1>7. ASSUME NEW w \in Workers, Succeed(w) \/ Fail(w) \/ Restart(w) \/ Crash(w)
      PROVE  RenameInv' /\ Kept
  BY <1>1, <1>7 DEF Succeed, Fail, Restart, Crash, Release, TypeOK
<1>8. ASSUME NEW w \in Workers, Disconnect(w)
      PROVE  RenameInv' /\ Kept
  <2>1. build'[w].job = build[w].job
    BY <1>8 DEF Disconnect, TypeOK, Build
  <2> QED
    BY <1>1, <1>8, <2>1 DEF Disconnect, TypeOK
<1>9. ASSUME NEW d \in Digests, LoseFile(d)
      PROVE  RenameInv' /\ Kept
  <2>1. store' = [store EXCEPT ![d] = 0] /\ UNCHANGED <<stage, build>>
    BY <1>9 DEF LoseFile, workers
  <2> QED
    BY <2>1 DEF RenameInv, TypeOK
<1>10. CASE Edit \/ Upgrade \/ (\E t \in Tasks : Request(t) \/ Respond(t)) \/ UNCHANGED vars
  BY <1>10, StoreKept DEF RenameInv
<1> QED
  BY <1>2, <1>3, <1>4, <1>5, <1>6, <1>7, <1>8, <1>9, <1>10 DEF Next, Work, Environment

\* Stored bytes are never replaced by others, on either kind of mount, as long as workers
\* build under the lock of their job: whatever crashes, fails, is submitted again, or is of
\* another release.  Without hard links, a worker whose session has ended may replace them.
THEOREM StoredBytesImmutableHolds ==
  Spec /\ [](HardLinks \/ Connected) => StoredBytesImmutable
<1>1. Init => RenameInv
  BY DEF Init, RenameInv
<1>2. TypeOK /\ LockInv /\ RenameInv /\ (HardLinks \/ Connected) /\ [Next]_vars => RenameInv'
  BY StepRename
<1>3. TypeOK /\ LockInv /\ RenameInv /\ (HardLinks \/ Connected) /\ [Next]_vars =>
        [\A d \in Digests : store[d] # 0 => store'[d] \in {store[d], 0}]_vars
  BY StepRename
<1> QED
  BY <1>1, <1>2, <1>3, TypeCorrect, PTL DEF Spec, StoredBytesImmutable

-----------------------------------------------------------------------------
(* Revisions *)

\* Revision numbers of what is read and of what is recorded are numbers.
LEMMA RevisionTypes ==
  ASSUME TypeOK
  PROVE  /\ design.revision \in Nat
         /\ \A t \in Tasks : seen[t].design.revision \in Nat
         /\ \A r \in audit : r.revision \in Nat
  BY DEF TypeOK, Design, Seen, Review

\* A step that keeps the content, the reviews in progress and the audit trail.
LEMMA ContentKept ==
  ASSUME TypeOK, RevisionInv, ~LegacyCallers, audit' = audit,
         design'.revision = design.revision, design'.digest = design.digest,
         Exists' => Exists, design'.status = "none" => design.status = "none",
         \A t \in Tasks : pc'[t] = "review" => pc[t] = "review" /\ seen'[t] = seen[t],
         design.status = "none" => pc' = pc,
         \A t \in Tasks : pc'[t] # "replace"
  PROVE  RevisionInv'
  BY DEF RevisionInv, Consistent, RevisionNamesDigest

\* An edit gives its content a revision above all those recorded so far.
LEMMA ContentReplaced ==
  ASSUME TypeOK, RevisionInv, ~LegacyCallers, Exists, Exists', UNCHANGED <<audit, tasks>>,
         design'.revision = design.revision + 1
  PROVE  RevisionInv'
<1>1. \A r \in audit : r.revision < design'.revision
  BY RevisionTypes DEF RevisionInv
<1>2. \A t \in Tasks : pc[t] = "review" => seen[t].design.revision < design'.revision
  BY RevisionTypes DEF RevisionInv
<1>3. design'.revision \in Nat
  BY RevisionTypes
<1>4. \A r \in audit : r.revision <= design'.revision /\ Consistent(r, design')
  BY <1>1, <1>3, RevisionTypes DEF Consistent
<1>5. \A t \in Tasks : pc[t] = "review" =>
        seen[t].design.revision <= design'.revision /\ Consistent(seen[t].design, design')
  BY <1>2, <1>3, RevisionTypes DEF Consistent
<1> QED
  BY <1>4, <1>5 DEF RevisionInv, tasks, Exists, Consistent, RevisionNamesDigest

\* Revisions are kept by the steps of the server's tasks.
LEMMA TaskRevision ==
  ASSUME TypeOK, RevisionInv, ~LegacyCallers, NEW t \in Tasks, Request(t) \/ Respond(t)
  PROVE  RevisionInv'
<1>1. pc[t] # "idle" => design.status # "none"
  BY DEF RevisionInv
<1>2. ASSUME NEW step \in {"delete", "validate", "lookup"}, NEW c, NEW s,
             Begin(t, step, c, s), UNCHANGED tables
      PROVE  RevisionInv'
  <2>1. Exists /\ design.status # "none"
    BY <1>2 DEF Begin, Exists
  <2>2. \A u \in Tasks : pc'[u] = "review" => pc[u] = "review" /\ seen'[u] = seen[u]
    BY <1>2 DEF Begin, TypeOK
  <2>3. \A u \in Tasks : pc'[u] # "replace"
    BY <1>2 DEF Begin, TypeOK, RevisionInv
  <2> QED
    BY <1>2, <2>1, <2>2, <2>3, ContentKept DEF tables, Exists
<1>3. ASSUME NEW d \in Digests, NEW decision \in Decisions, ReviewRead(t, d, decision)
      PROVE  RevisionInv'
  <2>1. /\ UNCHANGED tables /\ Exists
        /\ pc' = [pc EXCEPT ![t] = "review"]
        /\ seen' = [seen EXCEPT ![t] = [NothingSeen EXCEPT !.design = design,
                                                           !.at = reviews + 1]]
    BY <1>3 DEF ReviewRead, Begin
  <2>2. seen'[t].design = design
    BY <2>1 DEF TypeOK, NothingSeen
  <2>3. \A u \in Tasks \ {t} : pc'[u] = pc[u] /\ seen'[u] = seen[u]
    BY <2>1 DEF TypeOK
  <2>4. pc'[t] = "review" /\ Exists' /\ design.status # "none"
    BY <2>1 DEF TypeOK, tables, Exists
  <2> QED
    BY <2>1, <2>2, <2>3, <2>4, RevisionTypes
    DEF RevisionInv, Consistent, RevisionNamesDigest, tables
<1>4. ASSUME pc[t] # "idle", Return(t), audit' = audit,
             design'.revision = design.revision, design'.digest = design.digest,
             Exists, design'.status # "none"
      PROVE  RevisionInv'
  <2>1. \A u \in Tasks : pc'[u] = "review" => pc[u] = "review" /\ seen'[u] = seen[u]
    BY <1>4 DEF Return, TypeOK
  <2>2. \A u \in Tasks : pc'[u] # "replace"
    BY <1>4 DEF Return, TypeOK, RevisionInv
  <2> QED
    BY <1>1, <1>4, <2>1, <2>2, ContentKept
<1>5. CASE Delete(t)
  <2>1. ~Exists' /\ design'.status # "none" /\ audit' = audit /\ Return(t)
    BY <1>5, EmptyTypes DEF Delete, Exists, NoDesign
  <2>2. \A u \in Tasks : pc'[u] = "review" => pc[u] = "review" /\ seen'[u] = seen[u]
    BY <2>1 DEF Return, TypeOK
  <2>3. \A u \in Tasks : pc'[u] # "replace"
    BY <2>1 DEF Return, TypeOK, RevisionInv
  <2> QED
    BY <2>1, <2>2, <2>3 DEF RevisionInv, Consistent, RevisionNamesDigest
<1>6. ASSUME NEW s \in Statuses, s # "none", design' = [design EXCEPT !.status = s]
      PROVE  /\ design'.revision = design.revision /\ design'.digest = design.digest
             /\ design'.status # "none"
  BY <1>6 DEF TypeOK, Design
<1>7. CASE Validate(t) \/ SubmitCreate(t) \/ SubmitReset(t) \/ SubmitBuilt(t)
  <2> DEFINE new == IF pc[t] = "validate" THEN Verdict(seen[t].design.digest)
                    ELSE IF pc[t] = "built" THEN "built" ELSE "build-queued"
             s == Written(seen[t].design.status, new, design.status)
  <2>1. /\ pc[t] # "idle" /\ Return(t) /\ audit' = audit /\ Exists
        /\ design' = [design EXCEPT !.status = s]
    BY <1>7 DEF Validate, SubmitCreate, SubmitReset, SubmitBuilt
  <2>2. s \in Statuses /\ s # "none"
    BY <2>1, WrittenStatus DEF Written, Verdict, Statuses, Exists
  <2> HIDE DEF s
  <2> QED
    BY <1>4, <1>6, <2>1, <2>2
<1>8. CASE Decide(t)
  <2> DEFINE old == seen[t].design
             row == [digest |-> old.digest, decision |-> call[t].decision,
                     revision |-> old.revision]
  <2>1. /\ pc[t] = "review" /\ Return(t) /\ audit' = audit \cup {row} /\ Exists
        /\ design'.revision = design.revision /\ design'.digest = design.digest
        /\ design'.status # "none"
    BY <1>8, <1>6 DEF Decide, Statuses
  <2>2. row.revision = old.revision /\ row.digest = old.digest
    OBVIOUS
  <2>3. old.revision <= design.revision /\ Consistent(old, design)
        /\ (\A r \in audit : Consistent(old, r))
        /\ (\A u \in Tasks : pc[u] = "review" => Consistent(old, seen[u].design))
    BY <2>1 DEF RevisionInv
  <2>4. \A u \in Tasks : pc'[u] = "review" => pc[u] = "review" /\ seen'[u] = seen[u]
    BY <2>1 DEF Return, TypeOK
  <2>5. \A u \in Tasks : pc'[u] # "replace"
    BY <2>1 DEF Return, TypeOK, RevisionInv
  <2> HIDE DEF row, old
  <2> QED
    BY <2>1, <2>2, <2>3, <2>4, <2>5 DEF RevisionInv, Consistent, RevisionNamesDigest
<1>9. ASSUME NEW step \in {"create", "reset", "built"}, SubmitLookup(t, step)
      PROVE  RevisionInv'
  <2>1. /\ pc[t] # "idle" /\ UNCHANGED tables
        /\ pc' = [pc EXCEPT ![t] = step]
        /\ \A u \in Tasks \ {t} : seen'[u] = seen[u]
    BY <1>9 DEF SubmitLookup, TypeOK
  <2>2. \A u \in Tasks : pc'[u] = "review" => pc[u] = "review" /\ seen'[u] = seen[u]
    BY <2>1 DEF TypeOK
  <2>3. \A u \in Tasks : pc'[u] # "replace"
    BY <2>1 DEF TypeOK, RevisionInv
  <2> QED
    BY <1>1, <2>1, <2>2, <2>3, ContentKept DEF tables, Exists
<1>10. CASE SubmitConflict(t)
  <2>1. /\ pc[t] # "idle" /\ UNCHANGED tables
        /\ pc' = [pc EXCEPT ![t] = "lookup"]
        /\ \A u \in Tasks \ {t} : seen'[u] = seen[u]
    BY <1>10 DEF SubmitConflict, TypeOK
  <2>2. \A u \in Tasks : pc'[u] = "review" => pc[u] = "review" /\ seen'[u] = seen[u]
    BY <2>1 DEF TypeOK
  <2>3. \A u \in Tasks : pc'[u] # "replace"
    BY <2>1 DEF TypeOK, RevisionInv
  <2> QED
    BY <1>1, <2>1, <2>2, <2>3, ContentKept DEF tables, Exists
<1>11. CASE Abort(t)
  <2>1. pc[t] # "idle" /\ Return(t) /\ UNCHANGED tables
    BY <1>11 DEF Abort
  <2>2. \A u \in Tasks : pc'[u] = "review" => pc[u] = "review" /\ seen'[u] = seen[u]
    BY <2>1 DEF Return, TypeOK
  <2>3. \A u \in Tasks : pc'[u] # "replace"
    BY <2>1 DEF Return, TypeOK, RevisionInv
  <2> QED
    BY <1>1, <2>1, <2>2, <2>3, ContentKept DEF tables, Exists
<1>12. ~LegacyReplace(t) /\ \A d \in Digests : ~LegacyRead(t, d)
  BY DEF LegacyReplace, LegacyRead, RevisionInv
<1> QED
  BY <1>2, <1>3, <1>5, <1>7, <1>8, <1>9, <1>10, <1>11, <1>12
  DEF Request, Respond, SubmitRead, ValidateRead, DeleteRead

\* Revisions are kept by every step.
LEMMA StepRevision ==
  ASSUME TypeOK, LockInv, RevisionInv, ~LegacyCallers, [Next]_vars
  PROVE  RevisionInv'
<1>1. ASSUME NEW d \in Digests, Create(d)
      PROVE  RevisionInv'
  BY <1>1 DEF Create, tasks, RevisionInv, RevisionNamesDigest
<1>2. ASSUME NEW e \in Digests, NEW d \in Digests, ReplaceGuarded(e, d) \/ Apply(e, d)
      PROVE  RevisionInv'
  BY <1>2, ContentReplaced DEF ReplaceGuarded, Apply, Replaced, Exists
<1>3. ASSUME UNCHANGED <<design, audit, tasks>>
      PROVE  RevisionInv'
  BY <1>3, ContentKept DEF tasks, Exists, RevisionInv
<1>4. ASSUME NEW w \in Workers, Succeed(w) \/ Fail(w)
      PROVE  RevisionInv'
  <2> DEFINE new == IF stage[w] = "stored" THEN "built" ELSE "failed"
             s == Written(build[w].design.status, new, design.status)
  <2>1. Holds(w) /\ UNCHANGED <<audit, tasks>> /\ design' = [design EXCEPT !.status = s]
    BY <1>4 DEF Succeed, Fail, Holds
  <2>2. Exists /\ s # "none"
    BY <2>1 DEF LockInv, Written, Exists, TypeOK, Holds
  <2>3. design'.revision = design.revision /\ design'.digest = design.digest
        /\ design'.status = s
    BY <2>1 DEF TypeOK, Design
  <2> HIDE DEF s
  <2> QED
    BY <2>1, <2>2, <2>3, ContentKept DEF tasks, RevisionInv
<1>5. ASSUME NEW w \in Workers,
             Work(w) \/ BuildError(w) \/ Crash(w) \/ Disconnect(w)
      PROVE  RevisionInv'
  BY <1>3, <1>4, <1>5
  DEF Work, Claim, Generate, Link, Dedup, FindFree, Replace, Restart, BuildError, Crash,
      Disconnect, tables
<1>6. CASE Upgrade \/ (\E d \in Digests : LoseFile(d)) \/ UNCHANGED vars
  BY <1>3, <1>6 DEF Upgrade, LoseFile, vars, tables
<1> QED
  BY <1>1, <1>2, <1>5, <1>6, TaskRevision DEF Next, Edit, Environment

\* Two reviews of the same revision are about the same content.
THEOREM RevisionNamesDigestHolds == Spec => []RevisionNamesDigest
<1>1. Init => RevisionInv
  BY DEF Init, RevisionInv, RevisionNamesDigest, Exists, NoDesign
<1>2. TypeOK /\ LockInv /\ RevisionInv /\ [Next]_vars => RevisionInv'
  <2>1. CASE LegacyCallers
    BY <2>1 DEF RevisionInv
  <2>2. CASE ~LegacyCallers
    BY <2>2, StepRevision
  <2> QED
    BY <2>1, <2>2
<1>3. RevisionInv => RevisionNamesDigest
  BY DEF RevisionInv, RevisionNamesDigest
<1> QED
  BY <1>1, <1>2, <1>3, TypeCorrect, PTL DEF Spec
=============================================================================
