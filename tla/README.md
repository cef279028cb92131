# Verification of Harness Factory

TLA+ models of the Harness Factory web service, the TLC runs that check them on
small instances, and TLAPS proofs of what holds for all of them. The models are
translated from the source; paths below are relative to the repository.

## The system

Harness Factory turns an interview about a team's way of working into a *design*
(profile, workflow, scenarios), has it validated, reviewed and built into an
archive, publishes the archive as a version of a registry asset, and delivers it to
a command line that installs it.

```
 portal ──HTTP──> API tasks ──SQL──> PostgreSQL <──SQL── build workers
                     │                                       │
                     └─> language model    artifact files <──┘
                     └─────── reads ──────────────^
 hf_cli ──HTTP──> (distribution) ──> cache ──> workspace
```

All server state is rows and files. Nothing is shared in memory: tasks meet in
READ COMMITTED transactions, which read without locks, and write by primary key or
with a guarded UPDATE; the workers lock the job they build.

### Inventory

| part | state | operations | what is hard |
|---|---|---|---|
| interviews (`web/api/interviews`) | session, operation, turn and proposal rows of one interview | start, answer, confirm, generate a proposal, apply it, retry, delete, retention | a model call of seconds between two transactions; leases, crashes, late replies, client retries, deletion meanwhile |
| designs (`web/api/designs`) | design row, approvals, audit rows | create, replace (guarded or not), validate, review, delete | transactions that write what they read some time ago |
| builds (`web/api/builds`) | build jobs, one for each design and digest | submit, resubmit, claim, succeed, fail | workers that crash or lose the database session; resubmissions that overlap workers |
| artifact store (`builds/storage.py`) | one file for each design and digest | put_once, open | no-overwrite with and without hard links; a file that outlives a rolled-back transaction |
| registry (`web/api/registry`) | asset and version rows, approvals, audit rows | create, review, publish (which deprecates), revoke | overlapping publications, reviews and revocations |
| distribution (`web/api/distribution`) | none | deliver metadata or archive | revocation or loss of the file during a delivery |
| bootstrap, samples (`web/api/organizations`, `web/api/registry/samples.py`) | organization, membership, sample designs and versions; their artifact files, which are outside the transaction | seed when a server starts | bootstraps of two releases at once; requests that revoke, deprecate or create what is seeded; locks taken in two orders |
| identity, audit | memberships, audit rows | authenticate, append | token cache |
| records (`harness_factory/records.py`) | one file of states and events for each run, lock directory | record a transition, replay | a stale lock after a crash; a log that must replay; rules that span runs |
| install, package (`harness_factory`) | files of a workspace, its manifest last | plan, apply, check | a crash between two files; installations that overlap; files edited after the plan |
| evaluation (`harness_factory/evaluation.py`) | files of a package, its manifest, the receipt | evaluate, delivery-check | two files that are replaced one after the other; a rollback; files that change between two reads; a crash |
| contracts, tracker (`harness_factory`) | none | validate documents, print a guide | the cycle test of dependencies |
| hf_cli: cache (`hf_cli/cache.py`, `hf_cli/install.py`) | cache entries | install | one entry promoted by two processes; a revocation between preview and apply |
| hf_cli: sessions (`hf_cli/auth.py`, `hf_cli/config.py`, `hf_cli/main.py`) | configuration file and its scratch file, sessions in the keyring | login, logout, search, info, install | two stores that are written one after the other, without a lock; refreshed tokens that are stored again |
| portal (`web/portal`) | request envelopes in the session storage | pages | repeats of requests whose answer was lost |
| infra, alembic, scripts, catalog, examples, acceptance | - | - | no run-time behaviour of their own |

For each part, what makes it correct:

- *Interviews.* Only the task that owns an operation commits its reply; two calls of
  the model for one interview do not overlap; a retried request has its effect once;
  turns are numbered without gaps up to the limit; confirmed facts are not lost and a
  proposal is applied only against the facts it was made from; a deleted interview
  stays deleted; no interview stays busy.
- *Designs and builds.* Only what a reviewer approved is queued, built or stored, and
  only if it is valid; a recorded review names one content; a queued job is settled
  and a design that waits has one; a job's artifact column agrees with its status and
  with the stored bytes, which never change.
- *Registry and distribution.* A channel that was published to goes on offering one
  version; clients only receive approved versions and always the same bytes for a version;
  the audit rows account for every status; a revoked version is not published again.
- *Records.* What is accepted can be read again and replays to the same state; no step
  runs without its approval and dependencies; an unknown outcome blocks every run.
- *Installation, cache.* A workspace that mixes two packages is never left without a
  warning; edits a preview did not show are not overwritten; a cache entry is whole or absent.
- *Evaluation.* A package that passes with a receipt was evaluated as it is; an evaluate
  that nobody disturbs takes effect as a whole or not at all; delivery-check says
  "passed" only of what was evaluated.
- *Seeding.* The rows and files of the samples agree and are of one release; what is
  reported as created was created once; designs users edited are kept; every bootstrap
  and every request ends.
- *Sessions of the command line.* The configuration is whole and names a registry that
  answered; a session that was ended does not come back; a login that succeeded is in force.

## Modules

| module | models |
|---|---|
| `InterviewLog` | abstract: one interview whose requests take effect one at a time |
| `InterviewSession` | one interview, the server tasks that work on it, the clock; implements `InterviewLog` |
| `DesignLifecycle` | one design, its approvals and jobs, the artifact files, server tasks and build workers |
| `AssetRegistry` | the versions of one asset, their reviews, publication and delivery; the build of the design as its environment |
| `StepRules` | what may be recorded about the steps of a workflow: pure rules, no state |
| `RunLog` | abstract: the records as one log that changes at once |
| `RunRecords` | processes that call `record()`, the lock directory, the files; implements `RunLog` |
| `PackageInstall` | calls of the command line that install versions of a package from the cache into one workspace; the users' edits |
| `EvaluationSeal` | evaluations and delivery checks of one package, the evaluators and users around them |
| `SampleSeed` | bootstraps that seed one database and one artifact directory, the requests that meet them |
| `CommandSession` | the commands of one user: the configuration file and the keyring |
| `MC*` | symmetry of the small instances, the workflows of `RunRecords`, the packages of `PackageInstall`, the contents of `EvaluationSeal`, the releases of `SampleSeed` |
| `InterviewSessionProofs`, `DesignLifecycleProofs`, `AssetRegistryProofs`, `RunRecordsProofs`, `PackageInstallProofs`, `EvaluationSealProofs`, `SampleSeedProofs`, `CommandSessionProofs` | theorems and proofs |

The definitions named "Mutant of X" are plausible errors of the code. They take part
in no specification; `PROJECT.json` says which property catches each of them.

### InterviewSession

A handler is two or more short transactions around a call of the model
(`service.py: _claim_answer`, `_run_model_operation`, `_finish_operation`,
`_record_failure`). Each transaction is a step that reads (`AnswerRead`,
`GenerateRead`, `RetryRead`, `ConfirmRead`, `ApplyRead`, `ReplyRead`, `ErrorRead`) and
one that commits (`ClaimAnswer`, `ClaimGeneration`, `Reclaim`, `Confirm`, `Apply`,
`FinishReply`, `FinishGeneration`, `RecordFailure`), or finds that its guarded UPDATE
matches no row any more (`Refused`). `pc`, `call` and `snap` are the local variables
of the handler. `Crash` ends a task anywhere; `Delete` and `Cleanup` remove the rows.

- The reads of one transaction are one step. They are statements of their own in the
  code, but the commit compares the revision and the five `last_operation_*` columns
  with what was read, and tokens (uuid4) never return, so a commit that succeeds has
  read a state that still holds.
- `session.last` stands for the `last_operation_*` columns, `ops` for the operation
  rows. The claim's guard, including the expired lease, is `ClaimHolds`.
- Error responses write nothing and are left out, but where a task goes on afterwards.
- `confirm` claims and finishes in one transaction: no operation of its kind is ever
  running, so its reclaim branch is not reachable.
- Evidence is a set of pairs of the revision it was proposed at and a position;
  texts, sources, stages and the privacy filter are left out. The interview's design
  is in `DesignLifecycle`.
- `Endpoints` says which calls a run makes; it bounds the run, nothing else.

`InterviewLog` is the promise: no tasks, tokens or readings. A request owns the interview until
it has its reply, fails, or its lease is over and another takes it. Everything a request changes
it changes in one step, judged by the interview as it is then: an answer is to the latest question
and there is room for it, what is decided is proposed, a proposal is made from what is confirmed
and applied to the revision it was made for. `OneAtATime` maps the log's requests to the operation
rows (the evidence a confirmation decided to its stored input), its owner and lease to the
`last_operation_*` columns, its interview to the other columns of the session; turns,
proposals and the clock are the same. A claim is the step that makes a request, so reading,
`Refused` and `Crash` are stutters; a task that commits late commits for the owner of
that moment or not at all.

### DesignLifecycle

Requests of server tasks are a step that reads and a step that writes and commits.
`Written(old, new, current)` is what SQLAlchemy makes of an assignment: a column is
sent only if it differs from the value that was read, so a column of a row that
another transaction changed meanwhile keeps that value or is overwritten. The
guarded replacement (`ReplaceGuarded`, `Apply`) is one UPDATE and one step.

A worker (`stage`, `build`) holds one transaction from `Claim` to `Succeed` or
`Fail`. "running" is written in that transaction and is never seen by others, so the
status is not in the model; the row lock is `Locked`. `Crash` rolls back,
`Disconnect` loses the lock while the process goes on to its next statement, and the
artifact file stays in both cases. An artifact is represented by the release of the
generator that produced its bytes: the generator is deterministic, but not the same
in the next release.

The digest stands for the content. Two unguarded replacements that overlap may store columns of
both under the digest of one; `validate` computes the digest anew before anything can be
approved, and that step is not in the model. `BuildError` is any error of the worker's
directory, also of its removal after the file was stored.

Left out: attempts, findings, error codes, names; the audit row of a deletion; the
insertion of seeds (`SampleSeed`); the foreign keys of interviews that can refuse a
deletion; SQLite. The approvals' `created_at` is taken when the review reads, as the code does
at flush time, so approvals may commit in another order.

### AssetRegistry

One asset of one built design. Reviews, publications and revocations are again a
reading step and a writing step; `PublishLookup` is the second read of a publication
(latest approval, versions to deprecate). `FreeChannel` is the partial unique index,
which refuses a publication that did not see another one. The audit rows of a publication name
the channel of the request, also where the UPDATE leaves the column out because the object
that was read had it already. A version's manifest and
its digest are written once, so the comparisons with the digest a client sends
always succeed and are left out. `Build` and `Damage` are what `DesignLifecycle`
allows to happen to the artifact: a rebuild by another release after the file was
lost, and a file replaced on a mount without hard links.

Left out: creation of assets, search, limits on archives (a refusal, `Abort`). The
versions of samples are in `SampleSeed`.

### RunRecords

`StepRules` translates `_transition` (`Permitted`, `Result`), the replay of one event in
`_read_record` (`Replays`), the rule across runs in `record` (`Reconciles`), and what
`contracts.py` demands of the steps of a workflow (`Validated`). `Permitted` keeps the
code's order of tests only as a conjunction: they have no effects.

`RunRecords` adds the processes. `Lock` is everything up to `lock.mkdir()`, including the
tests of the arguments (`Acceptable`); `ReadAll` reads and replays every file; `Write` is
the judgement and `atomic_write`; `Unlock` is `rmdir`, which may fail after the file was
written; `Refuse` is any exception in between. `Crash` leaves the lock behind. The judgement is
made on what `ReadAll` read (`copy`), not on the files as they are when it writes: that the
two agree is what the lock is for, and `AtomicCalls` says so. The list of events is not
kept; `readable` says whether its replay is accepted and ends in the stored states, and is
updated with each event that is appended.

`RunLog` is the promise: every accepted call changes one step of one run at once, judged
against all runs as they then are. `AtomicCalls` is its specification with `log` replaced by
the states in the files.

Assumed: the workflow does not change under its records (a file that is bound to another
hash is refused, by every call); nobody edits files; a stale lock is removed only when
no writer is alive, as the message asks.

### PackageInstall

A call of `hf install` is a process of its own: `Resolve` (`_resolve_delivery`), `Download`
and `Promote` or the cached entry (`materialize_package`), `Validate` (`_validate_cached`),
then `ShowPreview` (`plan_install`) or `PlanApply`, `PlanAgain`, and the loop over the files
(`apply_install`). The loop reads each file, compares it with the second plan (`Hash`,
`Skip`) and replaces it (`Replace`, `atomic_write`), as two steps; the manifest is the last
file. The final `check_package` reads the manifest (`CheckReceipt`) and then the files one by
one (`CheckFile`): the manifest it reads may be another installation's. `Abandon` is every
error after the first write and the death of the process, which both leave the workspace as it
is; `warned` is what the user then knows.

- The digest of a preview is what it is taken of: the package and the content of the managed
  files. Previews stay usable, also by later calls.
- `_plan` reads many files and is one step: `Hash` compares each of them again before it is
  replaced, and a file that changes while it is planned is a plan that is refused.
- The packages own the same directories, as versions of one workflow do. A file a package does
  not have must not exist (`Collides`).
- `Damage` is any change of a cached package that its inventory shows; `Remove` is the user who
  follows the message.
- Staging directories are private (uuid4). Two promotions of one entry: the second fails, as the
  entry is a directory that is not empty.
- `Revoke` and `Republish` are the registry: a revoked version can be published again
  (`RegistryRevoked`), so a call finds at `Resolve` whatever the registry says then.
- The cached manifest, which is read once more after the second plan, is taken to be the one that
  was planned with: one that is damaged in between is not in the model (it would be installed, and
  the final check would compare it with the files).
- Left out: scratch files (`.hf-write-*`) that a killed process leaves in an owned directory, which
  make later previews refuse; symbolic links and directories in the way.

`EditsAreShown` is about edits up to the comparison of a file: one between that and `os.replace`
is lost, and no code could prevent it. Two installations that overlap may both report success although
only one package is in place at the end: the manifest names that one, and `MixtureIsKnown` holds.

### EvaluationSeal

`payload` is the content of each file the manifest lists, `RuleFiles` are those that the receipt
hashes once more (workflow, scenarios, skills). A digest is represented by what it is taken of.
A call of `evaluate` or `delivery-check` begins with `check_package`, which is modelled read by
read, as anything may change between two of them: the manifest (`ReadManifest`), the files one
after the other in an order `os.walk` can produce (`HashFile`; the top directory first, and the
names of a directory before its files: `ListNames`, `HashReceipt`), the receipt once more for its
content (`ReadReceipt`), and each rule file against it (`CompareRule`, `Validate`).

`evaluate` then reads everything again: the manifest (`Load`), the scenarios, by which the
results are judged (`Judge`), the rule files for their digests (`HashRule`, `MakeReceipt`). It
validates the receipt it made (`CompareRule`), stages two files in the package (`Stage`) and
replaces the receipt and the manifest (`ReplaceReceipt`, `ReplaceManifest`), with `RollBack` in
between if the manifest cannot be replaced. `Fail` is every other error, `Crash` the end of the
process, which leaves the staged files (`litter`): the package then fails its check until
somebody generates it again. `delivery-check` ends in `FindStale`, or in `Answer`, which looks for
the name of the receipt once more.

`Evaluate` is the evaluator, outside the code: it observes the scenarios of a package that passes
its check and records what they ended in, right or wrong; a scenario without a result is one in
an unexpected state. `Edit`, `Relist` and `Generate` are users, who change any file at any time.

Three variables are ghosts. `before` is the package as a call found it, while nobody
disturbs it; `held` is what each file has been since a delivery check began; `overtaken` are results
whose scenarios were edited after `evaluate` had judged them and before it had hashed the
scenarios. Such results are the one exception of `PassedWasEvaluated` and `VerdictWasEvaluated`,
and the code has it: nothing ties the scenarios that were judged by to those that were
hashed. `VerdictWasEvaluated` cannot say that the package was ever as it was evaluated: its files
are read one by one, so it says that each file was, during the check, as it was evaluated. It
speaks of a receipt that the check has read: one that appears between the check and `Answer` makes
the answer "passed" unread.

Left out: the shape of documents (a test that passes or not), the environment part of
delivery-check (it reads the machine only), symbolic links, a scratch file that cannot be
removed. That of a restored receipt is removed with the rename that uses it.

### SampleSeed

A bootstrap runs before a server starts, and is one transaction: `FindOrganization` and
`InsertOrganization` (a savepoint, repeated if the row is there by then), `Enroll`, then for
each language `SeedDesigns` and for each of its samples `WriteArtifact`, `ReadRow` and
`InsertRow` or `UpdateRow`, and `Commit`. `UpdateRow` changes the object in memory; the UPDATE, and
the lock it takes, come with the next query or the commit (`Dirty`, `Flush`), after the next
sample's file has been replaced. `trans` is what the transaction has changed; others
read the committed rows (READ COMMITTED). `holder` is the lock of the organization's row: FOR
UPDATE takes it, and an insertion below the organization (the audit event of a request) needs it
free because of its foreign key. `rowlock` are the locks of the versions' rows, so a bootstrap
and a request may wait for each other; `Detect` is the database, which aborts one of them.
Artifact files are written at once and no rollback undoes them.

- A package is the release that made it; a row's status and release are the columns that
  `_resync_existing` assigns. Those whose value is not the one that was read are sent (`Resynced`)
  and change the row as it is by then (`Updated`).
- All releases have the same samples. A later release with more of them would leave these as
  they are when an earlier one is started again, so `OneRelease` is about the samples that the
  releases share.
- A request writes one row and then its audit event. What requests do to the samples is in
  `AssetRegistry` in detail; here it is revoking, deprecating by a newer version, publishing and
  revoking that newer version, and creating an asset with a sample's slug. `newer` says in which
  samples' channel another version is published: the partial unique index looks at it
  (`ChannelTaken`, `Refused`).
- Initially the database is empty, has the organization of somebody else, or was seeded by an
  earlier release and worked with since.
- Left out: roles and the contents of fixtures (an error is `Abort`), SQLite.

### CommandSession

One user's processes share `config.json`, the scratch file it is written through, and one keyring
entry for each registry. A login asks for a token in the device flow, stores the session
(`Persist`), asks the registry who it is (`Headers`, `Respond`) and saves the configuration
(`Open`, `Write`, `Replace`); every other command loads the configuration once, a logout then
deletes the session of that registry (`Look`, `Delete`), the rest read it, and store it again when
a token was refreshed (`Headers`). A session is represented by the login that made it. Nothing is
locked, and every process may fail or be killed between any two steps (`Fail`).

- A registry is the registry with the tenant, client and scope as they were given. `Stripped` is
  what `_validate_config` makes of it: the key of a login's session is made before that, the
  configuration and the keys of all later commands after it. So the session of a login that was
  given blanks is one nobody looks for (`Sought`), while its registry is configured.
- The scratch file has one name for all processes. `handle` is the file an open writer has: when
  another login renames the scratch file meanwhile, the text goes to `config.json`. A text that is
  written over another one may leave the end of it (`Overwritten`).
- Development registries have their identity in the configuration and no session.
- The variables `answered`, `safe`, `ended`, `alone` and `overlapped` record what the
  properties speak of; no step depends on them.
- Left out: the extraction of archives and the rest of `install` (`PackageInstall`), formats of
  the configuration, what a registry answers apart from success or failure.

## Runs

All runs bound the number of tasks, requests, rows and faults; every bound is a
constant and stands in a guard. Deadlock is not checked, but in `RunRecords`: with the
budget of claims, reviews, revisions or events used up, or every process at its end, and
nobody calling, the other systems stop.

| run | instance | shows |
|---|---|---|
| `InterviewTurns` | 2 tasks, 4 request keys, 5 turns, lease 1 of 3 instants | operations are taken over whole; one turn for each request; choices answer the latest question |
| `InterviewRequests` | 2 tasks, 4 keys, 3 claims, 2 evidence items, answers, proposals and confirmations | refinement of `InterviewLog`, with it who commits; decisions on evidence survive replies that replace it; proposals are current when applied |
| `InterviewLease` | 2 tasks, lease 3, transaction and deadline 1, 7 instants; weak fairness | one call of the model at a time; no interview stays busy |
| `DesignLegacy` | 2 tasks, 1 worker, 2 contents, unguarded replacements, lost files, no hard links, 1 fault | only approved digests are stored; a design that waits has its job |
| `DesignArtifacts` | 1 task, 2 workers, an invalid content, 2 releases, 2 revisions, 2 reviews, 1 fault; weak fairness | stored bytes are the recorded ones; queued jobs are settled |
| `RegistryVersions` | 2 tasks, 2 versions, 2 channels, 2 releases, damaged files | channels stay served; deliveries were approved; the audit accounts for every status and channel |
| `RunRecords` | 2 processes, 2 runs, 2 steps, 2 workflows | gates, replay, uncertain outcomes, refinement of `RunLog` |
| `PackageInstall` | 2 processes, 2 packages, 2 files and the manifest, 5 calls, 2 events | mixtures are known, cache entries are whole |
| `EvaluationSeal` | 2 processes, 2 files of 2 versions, one of them the scenarios, 2 files of results, 3 events | passed means evaluated; evaluate is atomic; what delivery-check says rests on evaluated files |
| `SampleSeed` | bootstraps of 2 releases, 1 request, 2 samples in 2 languages, a database that is fresh, foreign or seeded; weak fairness | files and rows agree; one release; reports; edits kept; everybody ends |
| `CommandSession` | 3 logins, 1 logout, 1 command, a registry given with and without a blank and a development registry | the configuration is whole; ended sessions stay ended; a login is in force |
| `RegistryRevoked` | 2 tasks, 1 version, 1 channel, 1 release | a disagreement, see below |

Why the bounds are enough: the races of this code are between one transaction and
one or two others that commit between its reads and its commit; two tasks (with a
worker, for the builds) and one more request than there are tasks produce them all.
Five turns are reached by the first answer's failure and two that succeed, which is
where an odd number of turns meets the limit. A lease of one instant expires at the
next one; two instants are enough to have an operation reclaimed and its first
owner answer late. In `InterviewLease` the three durations matter and the lease (3)
is the least that exceeds transaction and deadline. In `RunRecords` no counter is
needed, the states of two steps in two runs are finite: one workflow has an external
write after a step approved afterwards, the other a hand-over to a person; three or more
steps add no rule, since a step looks at itself and at the steps it needs. Two digests are the content
under review and the edited one; two releases are the bytes stored and others. One
fault in `DesignArtifacts` is a build that ends badly and the one that follows it; what more
faults, and two tasks with guarded replacements, could do to its invariants is covered by the
theorems, so that only `QueuedIsSettled` depends on the bound. In `PackageInstall` five calls are two
previews and two applies, which overlap, and one more; the first package has both files, the
second changes one and lacks the other, so that it is installed over the first only after the
file is removed (an event). More calls and files are in the theorems.
In `EvaluationSeal` one file is hashed by the receipt too and has an expectation in each version, the
other is not; three events are two evaluations and an edit between them, or an evaluation and
two edits between the reads of one call, and two processes repeat their calls without a bound. In `SampleSeed` two
samples of two languages are two turns of both loops; two releases are the earlier one, which a
server that was slow may still start, and the next; one request next to two bootstraps forms the
deadlock, and what it revokes, deprecates or takes is any sample in any of the initial databases.
The theorems have any number of them. In `CommandSession` three logins are two that overlap and
the one whose effect is looked at, or the session that should stay ended; one registry is given
with and without a blank, which are two keys and one configuration; the third stores no sessions.

### Fairness

`InterviewSession!FairSpec`: `WF(Tick)`, time passes; `WF(Proceed(w))`, the server
runs the tasks it accepted (the event loop and the deadline in `azure.py` see to it).
Clients are not fair, nor is the cleanup command. `BusyEnds` then says that a running
operation ends or its lease does.

`DesignLifecycle!FairSpec`: `WF(Work(w))`, since `serve` polls in a loop and the
supervisor restarts the process. Tasks of the server are not fair: a request may be
abandoned anywhere. Faults are bounded by `MaxFaults`: with a fault in every build
nothing is ever settled. `QueuedIsSettled` depends also on the finite number of
resubmissions: the queue is ordered by creation, and an old job that is resubmitted
for ever would be first for ever.

`SampleSeed!FairSpec`: `WF(Step(b))` and `WF(Serve(u))`, a process that was started runs on, and
`WF(Detect(b, u))`, PostgreSQL looks for deadlocks. Starts, calls, errors and edits are not fair.
Weak fairness is enough, because a bootstrap that waits for the organization's row waits for
one that ends and, having ended, does not begin again. `AllEnd` fails without `Detect`, and
without the release of locks in `Rollback`.

## Proofs

The theorems hold for every value of the constants that satisfies the assumptions of
the modules; those are about types and names. Three theorems have a premise of their own:
`OneInferenceHolds` needs `LeaseCovers`; `ArtifactMatchesRecordHolds` holds on a mount with hard
links whose files are not lost; and `StoredBytesImmutableHolds` needs either hard links or that no worker goes on
building after the database has ended its session (`Connected`), which is all the deployed mount
(Azure Files, no hard links) has.

*Interviews.* `TypeOK` is inductive. `OwnershipInv` carries the rest: tokens in use
were handed out (`TokensFresh`), what a task read is not newer than the row
(`RevisionsReached`), a task whose reading still matches the row may rely on all of
it (`ReadsHold`), a task past its claim either holds the running operation's token or
the token is gone for good (`OwnersRun`), and the number of turns a claim counted is
still the number if the claim holds (`CountsHold`). The properties alone are not
inductive: they say nothing of what a task that has read will do with it.
`OneInferenceHolds` adds `LeaseInv`: the lease of a task that waits for the model
began at its claim, so it has not expired. `RowsInv` adds to `OwnershipInv` what the stored
rows say of one another. A task that may still store an answer was given the latest question
(`ChoicesHold`), although it compared the question in an earlier read than the one its claim is
guarded by; evidence is never proposed under a token that can still bring a reply
(`EvidenceFresh`), so what was decided cannot be proposed again; a task that may still store a
draft has read the evidence confirmed now (`DraftsHold`). `Phases` says which handler a kind of
call can be in. `OneTurnEach`, `ChoiceIsCurrent`, `EvidenceDecidedOnce` and `ProposalIsCurrent` are
conjuncts of it, and `NothingConfirmedIsLost` follows for every step that starts in it. The refinement
of `InterviewLog` (`OneAtATimeHolds`) takes one lemma for each step that commits, and adds
`CallsHold`: a task that has read saw nobody own the interview by a time that is not later than
now, so that whoever owned it then does not now if its claim still matches the row; what it is asked
to decide is in order; and a proposal it is to apply names the scope the interview has, as long as
the revision it read is the last.

*Designs.* `TypeOK /\ LockInv` first: a job belongs to an existing design, a locked job
is queued for everybody else, and by one worker only. Then, each with its own
strengthening: `ApprovalInv` (what tasks and workers carry towards the queue and the
store was approved), `ValidInv` (what a worker takes to the store passed its own
validation), `JobInv` (what a reset read), `StoreInv` (what a worker stored stays),
`RenameInv` (a worker that found no file and holds the job's lock still finds none when it renames
its own, since the lock keeps all other workers of that digest out: the reason why stored bytes
stay on a mount without hard links),
`RevisionInv` (every reading of the design agrees with the row on what a revision
contains), `QueuedInv` (a worker that read the design as failed writes nothing to it when its own build
fails too, and could leave it waiting: so among the queued jobs of a design that waits there is one
that no such worker holds).

*Registry.* `ArtifactInv`: the artifact a
delivery has read is still the version's, as no step writes it again. `AuditInv`: a
task that read "approved" or "published" can rely on the audit row, as the rows are
only added, although the status it read may be gone; and a version that has a channel was recorded
as published in it, so that a row which names the request's channel names the committed one
unless the object in memory was stale (`ChannelInv`). `ChannelStaysServed` is not
inductive: a publication may deprecate what it saw published long ago, be overtaken in its own
version by another publication, or by a review. `ServedInv` adds that a version that has a channel and is
not published any more either came to that by a publication in its place or was reviewed once more, and
`ReviewsInv` that no two reviews have the same time, so that a second review can be told from the
first for ever. A review that had read a draft can so take a published version back without a
word, and the same version, published elsewhere, empties its channel: `Withdrawn` names these
ways, and the theorem says that there are no others.

*Records.* `LockInv` (one process is inside, and what it read is still what the files hold)
gives `AtomicCalls`. `RecordInv` couples what is stored with what its replay accepts: the
states are coherent (a decision is one the workflow allows for the step, what a gate
demands was there), and `ResultReplays` shows that an event written for a permitted call
is itself permitted and reproduces the state; `GatesKept` that a permitted call keeps the
gates, for which the absence of dependency cycles is not needed, only that a completed step
never changes. The lemmas about `StepRules` are independent of the processes.

*Installation.* Both invariants of the run are proved, and another one. `AccountedFor` is the reason for
`MixtureIsKnown`, file by file: a file that is not as the manifest says and that no user
edited is still to be read by the final check of some installation (`Notices`: it writes, or its
check read the present manifest and has not come to the file), or its user was warned. It
needs no assumption on how many installations overlap. `EditsAreShown` is inductive given the
types. That a revoked version is not installed is no theorem: the registry may publish it again
while a call runs (`Republish`).

*Evaluation.* `ReceiptInv`: wherever a receipt is (in the package, made by a call, kept for a
rollback), its results were recorded for the files it hashes, as `Judge` compares the whole
manifest, and meet the expectations of its rules unless they were overtaken (`Genuine`). That
gives `PassedWasEvaluated` whatever overlaps, as `Whole` compares the receipt with the files.
`AtomicInv` says how far the package of an undisturbed call is from the one it began with
(`Undisturbed`). For `VerdictWasEvaluated`, `HeldInv` says of a delivery check that every file it has
hashed, and every rule it has compared, was so since it began (`Grounded`); the receipt is the one
the manifest it read names, so its base is what was hashed.

*Seeding.* `SeedInv`: a bootstrap past `FindOrganization` holds the organization's row until it
ends, so no other one changes files or releases meanwhile, and at its commit it has brought
either no sample or all of them to its release (`Work`). `FilesAgree` and `OneRelease` follow; the
files of one that did not commit stay in `torn`. `CreatedInv` adds that what a bootstrap is going to
report as created is not committed while it holds the row, and stays once it is (`Report`, `Committed`).
`AddsInv` gives `EditsKept`: the designs a bootstrap is about to add were missing when it looked,
and still are, as nobody who needs the organization's row has come between.

*Commands.* `TypeInv` adds to `TypeOK` where each kind of process can be and that it keeps the
registry it has chosen. On it rest three invariants that do not need one another. `FilesInv`: what
the configuration or the scratch file holds was written for a login that was answered, and as long
as no two logins have written at once the one that writes has the scratch file to itself.
`SafeInv`: a session that only the keyring has held since a process began belongs to a login that
is over, so that the keyring is its only way back, and a login that has stored its own has closed
it. `AloneInv`: while a login is alone nothing else runs; after it only commands do, and each of
those uses its registry, stripped, and its session if that can be found (`Sought`), so that
storing a refreshed session again changes nothing.

Proved but in no run, since what could break them is what breaks a property of a run, or since they
serve the proofs: `OwnershipInv`, `OnlyOwnerCommits` (a part of `OneAtATime`), `CallsHold`, `TurnLimit`, `TurnSequence`, `OwnerAgrees`, `DeletedStaysDeleted`,
`LeaseInv`, `LockInv`, `QueuedWasApproved`, `StoredIsValid`, `JobNamesArtifact`,
`StoredBytesImmutable`, `RevisionNamesDigest`, `OneArtifactEach`, `EditsAreShown`.

Model-checked only: liveness (`BusyEnds`, `QueuedIsSettled`, `AllEnd`), which needs fairness and
ENABLED. Every safety property of a run that passes is also proved.

## Disagreements

One run ends in a counterexample: the code does something else than a document says.

- `RegistryRevoked`: a publication that read a version "approved" commits after that
  version was published by another request and revoked: it is published again.

Seen in the code but not kept as runs.

*Designs and builds.* `save_validation` writes the verdict on the content it read over a row that
was edited meanwhile; the edited content can be approved without having been validated (the worker
validates again, so nothing invalid is stored: `StoredIsValidHolds`). `submit` marks a design
build-queued that was edited after it was read (the worker refuses the build, so nothing
unapproved is stored: `StoredWasApprovedHolds`), and the edited design ends failed without a
review. `put_once` asks and replaces in two steps on a mount without hard links
(`infra/resources.bicep` mounts Azure Files), and a worker that lost its database session may
still write; deliveries compare the bytes with the recorded digest (`OneArtifactEachHolds`), so
a client gets an error and not other bytes. A rejected design can be validated and approved
again without a change (plan 2026-09-14, line 733, asks for one). A queued job that is submitted
again after an edit was undone and approved leaves the design without the status build-queued,
so the worker fails it once. An approval that commits while its design is deleted stays as an
orphan.

*Registry.* A deprecated version cannot be revoked (platform design, line 240, has that
transition); two publications of one version to two channels leave the first channel empty; a
review that had read a draft or an approved version takes it back after it was published, and
neither a publication nor a revocation is recorded (`Reconsidered`).

*Evaluation.* `evaluate` reads the scenarios it judges by and hashes them later: results may be
sealed with scenarios that expect something else (`overtaken`). `delivery-check` looks for the
receipt once more after its check, and says "passed" of one it has not read
(`evaluation.py:472`).

*Samples.* A bootstrap publishes a sample again that was revoked. If a newer version deprecated the
sample, publishing it again violates the index of the channel, which nothing catches, so the bootstrap
and with it the API container (`docker-compose.yml:43`) does not start; nor does it if a user
created an asset with a sample's slug. The artifact of a sample is replaced under its key by the next
release, although `docs/operations.md:135` calls artifact keys immutable. A revocation that read the row
before a bootstrap committed revokes the next release's package.

*Command line.* A login stores its session before it knows whether the registry accepts it, so a
failed login replaces the session that was in use, and one to another registry leaves a session
that no logout reaches, as the configuration does not name it; switching registries leaves the
old session in the same way. A command that read the session before a logout stores it again if
its token is refreshed afterwards (`SessionsStayEnded` says which sessions do not come back). A
configuration that is not valid makes logout refuse. `login` takes tenant, client and scope as they
were given and `save_config` strips them, so a session that was acquired with blanks around one of them
is stored under a key that no later command uses (`LoginInForce` holds of such a login's
configuration only). The interview-CLI design, lines 330-344, has
expired cache entries cleaned, which no code does.

Assumptions the models make visible: `config.py` accepts any lease from one second,
while `OneInference` needs one that exceeds the claim's transaction and the deadline
together (the defaults, 75 and 60 seconds, leave 15 for the transaction).

## Plan

In order of importance; the first eight are done.

1. `InterviewSession`: the protocol of claims, leases and replies. Done.
2. `DesignLifecycle`: approval, build and storage. Done.
3. `AssetRegistry`: publication and delivery. Done.
4. `RunRecords` (`harness_factory/records.py`): the lock directory and its loss by a
   crash, transitions, and that a log replays; the abstract `RunLog`. Done.
5. `PackageInstall` (`hf_cli/install.py`, `hf_cli/cache.py`, `harness_factory/install.py`):
   preview and apply, the manifest written last, crashes between files, two processes on one
   cache and one workspace. Done.
6. `SampleSeed` (`organizations/bootstrap.py`, `designs/samples.py`, `registry/samples.py`): servers of two
   releases that seed one database. Done.
7. `EvaluationSeal` (`harness_factory/evaluation.py`): receipt and manifest. Done.
8. `CommandSession` (`hf_cli/main.py`, `auth.py`, `config.py`): configuration and keyring. Done.
9. Abstract specifications: an interview as a log of requests that take effect one at a
   time (`InterviewLog`, done), a store of approved artifacts that only grows
   (`DesignLifecycle` without lost files implements it), a shelf of published versions.
10. Composition of `DesignLifecycle` and `AssetRegistry` through the store, so that
   `Build` and `Damage` are not assumed but implemented.
11. The retry of `azure.py` inside its deadline.
12. The cycle test of `contracts.py` against the definition of a cycle, for all graphs of
   four nodes.
13. Proofs: the safety properties of all runs, the refinements of `RunLog` and `InterviewLog`. Done.
   The refinements left in 9.

## Not modelled

The portal, the infrastructure, migrations, prompts and schemas (no state, or no behaviour
beyond what the server's models already contain); Entra's token validation (external); the
generation of packages and the tracker (they compute and print); the drivers of the acceptance
tests.

Hazards without a property, each with its reason in `PROJECT.json`: a lease that is too short
(`config.py:29`); a worker without hard links that lost its session
(`storage.py:120`); the starvation of the build queue by resubmissions
(`builds/repository.py:215`), as every run bounds them; a delivery that read its version before the
revocation (`distribution/service.py:58`); two promotions of one cache entry (`cache.py:131`), which are
atomic renames; a session that was held when it was ended (`auth.py:218`), which does come back.
