------------------------------ MODULE SampleSeed ------------------------------
(***************************************************************************)
(* The bootstrap of the development tenant: it creates the organization    *)
(* and its membership, inserts the sample designs that are missing and     *)
(* brings the sample versions of the registry, with their artifact files,  *)
(* to the release that runs (web/api/organizations/bootstrap.py,           *)
(* web/api/designs/samples.py, web/api/registry/samples.py).               *)
(*                                                                         *)
(* A bootstrap is one transaction (READ COMMITTED) that locks the          *)
(* organization's row; the files are outside of it and are not rolled      *)
(* back.  Bootstraps of several releases and the requests of users         *)
(* overlap.  A request that writes a row, and then its audit event, needs  *)
(* the organization's row for the foreign key, which waits for a bootstrap *)
(* that holds it; the database detects a deadlock and aborts one of the    *)
(* two.  The package of a sample is seen as the release that built it.     *)
(***************************************************************************)
EXTENDS Naturals

CONSTANTS
  Bootstraps,   \* runs of the bootstrap command, one each
  Requests,     \* requests to the API, one each
  NoTask,       \* nobody holds a lock
  Count,        \* number of samples, in the order they are seeded
  PerLanguage,  \* templates in each language
  Releases,     \* releases of the program; each builds other packages
  ReleaseOf,    \* the release each bootstrap runs
  Earlier       \* the releases that may have seeded the database before

ASSUME CountsAssumption ==
  Count \in Nat \ {0} /\ PerLanguage \in Nat \ {0}
ASSUME ReleasesAssumption == 0 \notin Releases /\ ReleaseOf \in [Bootstraps -> Releases]
                            /\ Earlier \subseteq Releases
ASSUME TasksAssumption == NoTask \notin Bootstraps \cup Requests /\ Bootstraps \cap Requests = {}

VARIABLES
  organization,  \* the tenant marker of the organization's row
  member,        \* whether the subject's membership is there
  designs,       \* the sample designs
  versions,      \* the version 1.0.0 of each sample asset
  newer,         \* sample assets with another version published in that channel
  files,         \* the release whose package is in each artifact file, 0: none
  torn,          \* files overwritten by bootstraps that have not committed
  holder,        \* the bootstrap that holds the organization's row
  rowlock,       \* the transaction that has written each asset's versions
  pc,            \* where each bootstrap and request is
  at,            \* the sample a bootstrap is at
  seen,          \* the row of that sample, as read
  trans,         \* what a bootstrap has written and not committed
  ask            \* what each request is for

tables == <<organization, member, designs, versions, newer>>
vars == <<tables, files, torn, holder, rowlock, pc, at, seen, trans, ask>>

-----------------------------------------------------------------------------
Samples == 1 .. Count
Language(s) == {x \in Samples : (x - 1) \div PerLanguage = (s - 1) \div PerLanguage}

\* "taken": the slug is that of an asset a user created.
Version == [status: {"none", "published", "deprecated", "revoked", "taken", "unwritten"},
            release: Releases \cup {0}]
NoVersion == [status |-> "none", release |-> 0]
Unwritten == [status |-> "unwritten", release |-> 0]
Thing == {<<"organization", 0>>, <<"membership", 0>>} \cup ({"version"} \X Samples)
Transaction == [designs: SUBSET Samples, rows: [Samples -> Version], created: SUBSET Thing,
                seeded: SUBSET Samples]
Nothing == [designs |-> {}, rows |-> [s \in Samples |-> Unwritten], created |-> {},
            seeded |-> {}]
Ask == [kind: {"none", "revoke", "deprecate", "supersede", "withdraw", "take"}, sample: Samples]
NoAsk == [kind |-> "none", sample |-> 1]

Seeding == {"designs", "artifact", "row", "write"}
Locked == {"member", "commit"} \cup Seeding
Starting == {"find", "insert"}
Asking == {"update", "audit"}
Ended == {"done", "failed"}

\* The variables range over their types, and nobody is where only others can be.
TypeOK ==
  /\ organization \in {"none", "development", "other"} /\ member \in BOOLEAN
  /\ designs \in [Samples -> {"none", "seeded", "edited"}]
  /\ versions \in [Samples -> Version] /\ newer \in SUBSET Samples
  /\ files \in [Samples -> Releases \cup {0}] /\ torn \in SUBSET Samples
  /\ holder \in Bootstraps \cup {NoTask}
  /\ rowlock \in [Samples -> Bootstraps \cup Requests \cup {NoTask}]
  /\ pc \in [Bootstraps \cup Requests -> {"idle"} \cup Starting \cup Locked \cup Asking \cup Ended]
  /\ at \in [Bootstraps -> Samples] /\ seen \in [Bootstraps -> Version]
  /\ trans \in [Bootstraps -> Transaction]
  /\ ask \in [Requests -> Ask]
  /\ \A b \in Bootstraps : pc[b] \notin Asking
  /\ \A u \in Requests : /\ pc[u] \in {"idle"} \cup Asking \cup Ended
                         /\ pc[u] \in Asking => ask[u].kind # "none"

Goto(p, label) == pc' = [pc EXCEPT ![p] = label]

-----------------------------------------------------------------------------
(* The bootstrap *)

\* Mutant of MayLock: the row is read without FOR UPDATE.
MayRead(b) == TRUE

\* Whether SELECT ... FOR UPDATE of the organization's row returns.
MayLock(b) == holder \in {NoTask, b}

Start(b) ==
  /\ pc[b] = "idle"
  /\ Goto(b, "find")
  /\ UNCHANGED <<tables, files, torn, holder, rowlock, at, seen, trans, ask>>

\* The organization's row is not there, or is there and locked; its marker must be
\* that of a development tenant.
FindOrganization(b) ==
  /\ pc[b] = "find"
  /\ \/ /\ organization = "none"
        /\ trans' = [trans EXCEPT ![b].created = @ \cup {<<"organization", 0>>}]
        /\ Goto(b, "insert")
        /\ UNCHANGED holder
     \/ /\ organization = "development" /\ MayLock(b)
        /\ holder' = b
        /\ Goto(b, "member")
        /\ UNCHANGED trans
     \/ /\ organization = "other" /\ MayLock(b)
        /\ trans' = [trans EXCEPT ![b] = Nothing]
        /\ Goto(b, "failed")
        /\ UNCHANGED holder
  /\ UNCHANGED <<tables, files, torn, rowlock, at, seen, ask>>

\* Mutant of InsertOrganization: created_organization stays true.
InsertOrganizationAgain(b) ==
  /\ pc[b] = "insert"
  /\ \/ organization # "none" /\ Goto(b, "find") /\ UNCHANGED holder
     \/ organization = "none" /\ holder = NoTask /\ holder' = b /\ Goto(b, "member")
  /\ UNCHANGED <<tables, files, torn, rowlock, at, seen, trans, ask>>

\* The insertion in a savepoint: it waits for one that is not committed, and
\* fails if the row is there by then, which is then read and locked.
InsertOrganization(b) ==
  /\ pc[b] = "insert"
  /\ \/ /\ organization # "none"
        /\ trans' = [trans EXCEPT ![b].created = @ \ {<<"organization", 0>>}]
        /\ Goto(b, "find")
        /\ UNCHANGED holder
     \/ /\ organization = "none" /\ holder = NoTask
        /\ holder' = b
        /\ Goto(b, "member")
        /\ UNCHANGED trans
  /\ UNCHANGED <<tables, files, torn, rowlock, at, seen, ask>>

\* The membership is inserted, or its roles are written again; on to the samples, if
\* the command was called with --with-sample-designs.
Enroll(b) ==
  /\ pc[b] = "member"
  /\ trans' = [trans EXCEPT ![b].created = IF member THEN @ ELSE @ \cup {<<"membership", 0>>}]
  /\ \E label \in {"designs", "commit"} : Goto(b, label)
  /\ UNCHANGED <<tables, files, torn, holder, rowlock, at, seen, ask>>

\* _resync_existing: the columns that will be written, those whose value is not the one
\* read ("unwritten", 0: the column is not sent).
Resynced(b) ==
  [status  |-> IF seen[b].status = "published" THEN "unwritten" ELSE "published",
   release |-> IF seen[b].release = ReleaseOf[b] THEN 0 ELSE ReleaseOf[b]]

\* What the update x leaves of the row v.
Updated(v, x) == [status  |-> IF x.status = "unwritten" THEN v.status ELSE x.status,
                  release |-> IF x.release = 0 THEN v.release ELSE x.release]

\* The rows that b has changed in memory only.  The session sends the changes with its
\* next query or with the commit, after the next sample's file has been replaced.
Dirty(b) == {s \in Samples : trans[b].rows[s] # Unwritten /\ rowlock[s] # b}
Flushing == {"designs", "row", "commit"}

\* uq_asset_versions_published_channel: the row would be a second published one.
ChannelTaken(b, s) == trans[b].rows[s].status = "published" /\ s \in newer

\* The UPDATE, which waits for another transaction that wrote the row.
Flush(b) ==
  /\ pc[b] \in Flushing
  /\ \E s \in Dirty(b) : /\ rowlock[s] = NoTask /\ ~ ChannelTaken(b, s)
                         /\ rowlock' = [rowlock EXCEPT ![s] = b]
  /\ UNCHANGED <<tables, files, torn, holder, pc, at, seen, trans, ask>>

\* Mutant of SeedDesigns: designs that are there are written again.
ReseedDesigns(b) ==
  /\ pc[b] = "designs" /\ MayLock(b) /\ Dirty(b) = {}
  /\ holder' = b
  /\ trans' = [trans EXCEPT ![b].designs = @ \cup Language(at[b])]
  /\ Goto(b, "artifact")
  /\ UNCHANGED <<tables, files, torn, rowlock, at, seen, ask>>

\* seed_sample_designs: the designs of one language that are missing.
SeedDesigns(b) ==
  /\ pc[b] = "designs" /\ MayLock(b) /\ Dirty(b) = {}
  /\ holder' = b
  /\ trans' = [trans EXCEPT ![b].designs = @ \cup {s \in Language(at[b]) : designs[s] = "none"}]
  /\ Goto(b, "artifact")
  /\ UNCHANGED <<tables, files, torn, rowlock, at, seen, ask>>

\* _load_sample and _write_artifact: a file with other bytes is replaced at once.
WriteArtifact(b) ==
  /\ pc[b] = "artifact" /\ MayLock(b)
  /\ holder' = b
  /\ files' = [files EXCEPT ![at[b]] = ReleaseOf[b]]
  /\ torn' = IF files[at[b]] = ReleaseOf[b] THEN torn ELSE torn \cup {at[b]}
  /\ Goto(b, "row")
  /\ UNCHANGED <<tables, rowlock, at, seen, trans, ask>>

\* session.get of the asset and of its version, by their ids: an asset of a user with
\* the same slug has another id.
ReadRow(b) ==
  /\ pc[b] = "row" /\ Dirty(b) = {}
  /\ seen' = [seen EXCEPT ![b] =
       IF versions[at[b]].status = "taken" THEN NoVersion ELSE versions[at[b]]]
  /\ Goto(b, "write")
  /\ UNCHANGED <<tables, files, torn, holder, rowlock, at, trans, ask>>

\* Mutant of Advance: the last sample is not the last.
AdvanceAlways(b) ==
  /\ at' = [at EXCEPT ![b] = @ + 1]
  /\ Goto(b, IF at[b] = Count THEN "commit" ELSE "artifact")

\* On to the next sample, the next language, or the commit.
Advance(b) ==
  IF at[b] = Count
    THEN Goto(b, "commit") /\ UNCHANGED at
    ELSE /\ at' = [at EXCEPT ![b] = @ + 1]
         /\ Goto(b, IF at[b] % PerLanguage = 0 THEN "designs" ELSE "artifact")

\* The asset and its version are inserted.  Samples are inserted under the organization's
\* lock only, so an insertion never finds the row that another bootstrap inserted.
InsertRow(b) ==
  /\ pc[b] = "write" /\ seen[b].status = "none"
  /\ rowlock[at[b]] = NoTask /\ versions[at[b]].status = "none"
  /\ rowlock' = [rowlock EXCEPT ![at[b]] = b]
  /\ trans' = [trans EXCEPT ![b].rows[at[b]] = [status |-> "published", release |-> ReleaseOf[b]],
                            ![b].created = @ \cup {<<"version", at[b]>>},
                            ![b].seeded = @ \cup {at[b]}]
  /\ Advance(b)
  /\ UNCHANGED <<tables, files, torn, holder, seen, ask>>

\* Mutant of UpdateRow: a published row is taken to be current.
UpdateUnpublished(b) ==
  /\ pc[b] = "write" /\ seen[b].status \in {"published", "deprecated", "revoked"}
  /\ trans' = [trans EXCEPT
       ![b].rows[at[b]] = IF seen[b].status = "published" THEN Unwritten ELSE Resynced(b),
       ![b].seeded = @ \cup {at[b]}]
  /\ Advance(b)
  /\ UNCHANGED <<tables, files, torn, holder, rowlock, seen, ask>>

\* The row that was read is brought to this release, and published, in memory.
UpdateRow(b) ==
  /\ pc[b] = "write" /\ seen[b].status \in {"published", "deprecated", "revoked"}
  /\ trans' = [trans EXCEPT ![b].rows[at[b]] = Resynced(b), ![b].seeded = @ \cup {at[b]}]
  /\ Advance(b)
  /\ UNCHANGED <<tables, files, torn, holder, rowlock, seen, ask>>

\* The locks p holds after it has ended.
Unlock(p) ==
  /\ holder' = IF holder = p THEN NoTask ELSE holder
  /\ rowlock' = [s \in Samples |-> IF rowlock[s] = p THEN NoTask ELSE rowlock[s]]

\* Mutant of Rollback: the session is neither rolled back nor closed.
KeepLocks(b) ==
  /\ trans' = [trans EXCEPT ![b] = Nothing]
  /\ Goto(b, "failed")
  /\ UNCHANGED <<tables, files, torn, holder, rowlock, at, seen, ask>>

\* The rows are as they were; the files are not.
Rollback(b) ==
  /\ Unlock(b)
  /\ trans' = [trans EXCEPT ![b] = Nothing]
  /\ at' = [at EXCEPT ![b] = 1] /\ seen' = [seen EXCEPT ![b] = NoVersion]
  /\ Goto(b, "failed")
  /\ UNCHANGED <<tables, files, torn, ask>>

\* "sample registry identity collision": the slug is that of another asset; or the
\* update, which is in no savepoint, violates the index of the channel.
Collide(b) ==
  /\ \/ pc[b] = "write" /\ seen[b].status = "none" /\ versions[at[b]].status = "taken"
     \/ /\ pc[b] \in Flushing
        /\ \E s \in Dirty(b) : rowlock[s] = NoTask /\ ChannelTaken(b, s)
  /\ Rollback(b)

\* Roles that are not valid, fixtures that are not, an error, or the end of the process.
Abort(b) == pc[b] \notin Ended /\ Rollback(b)

Commit(b) ==
  /\ pc[b] = "commit" /\ Dirty(b) = {}
  /\ organization' = "development" /\ member' = TRUE
  /\ designs' = [s \in Samples |-> IF s \in trans[b].designs THEN "seeded" ELSE designs[s]]
  /\ versions' = [s \in Samples |-> Updated(versions[s], trans[b].rows[s])]
  /\ torn' = torn \ trans[b].seeded
  /\ Unlock(b)
  /\ Goto(b, "done")
  /\ UNCHANGED <<newer, files, at, seen, trans, ask>>

-----------------------------------------------------------------------------
(* Requests of users *)

\* A version is revoked ("withdraw": the newer one); a newer one is published, which
\* deprecates the sample if it is published ("deprecate", else "supersede"); or an
\* asset with the slug of a sample is created.
Call(u) ==
  /\ pc[u] = "idle" /\ organization = "development"
  /\ \E s \in Samples, k \in {"revoke", "deprecate", "supersede", "withdraw", "take"} :
       /\ k \in {"revoke", "deprecate"} => versions[s].status = "published"
       /\ k = "supersede" => versions[s].status \in {"deprecated", "revoked"}
       /\ k = "withdraw" => s \in newer
       /\ ask' = [ask EXCEPT ![u] = [kind |-> k, sample |-> s]]
  /\ Goto(u, "update")
  /\ UNCHANGED <<tables, files, torn, holder, rowlock, at, seen, trans>>

\* What u was for is of no use once it has ended.
Forget(u) == ask' = [ask EXCEPT ![u] = NoAsk]

\* What a unique index refuses: a slug, or a second published version in the channel.
Refused(kind, s) ==
  \/ kind = "take" /\ versions[s].status # "none"
  \/ kind \in {"deprecate", "supersede"} /\ s \in newer
  \/ kind = "supersede" /\ versions[s].status = "published"

\* The row is updated or inserted, which waits for another transaction that wrote it.
WriteRow(u) ==
  /\ pc[u] = "update" /\ rowlock[ask[u].sample] = NoTask
  /\ IF Refused(ask[u].kind, ask[u].sample)
       THEN Goto(u, "failed") /\ Forget(u) /\ UNCHANGED rowlock
       ELSE /\ rowlock' = [rowlock EXCEPT ![ask[u].sample] = u]
            /\ Goto(u, "audit")
            /\ UNCHANGED ask
  /\ UNCHANGED <<tables, files, torn, holder, at, seen, trans>>

\* The audit event, whose foreign key locks the organization's row, and the commit.
Audit(u) ==
  /\ pc[u] = "audit" /\ holder = NoTask
  /\ versions' = [versions EXCEPT ![ask[u].sample].status =
       CASE ask[u].kind = "revoke"    -> "revoked"
         [] ask[u].kind = "deprecate" -> "deprecated"
         [] ask[u].kind = "take"      -> "taken"
         [] OTHER                     -> @]
  /\ newer' = CASE ask[u].kind \in {"deprecate", "supersede"} -> newer \cup {ask[u].sample}
                [] ask[u].kind = "withdraw"                   -> newer \ {ask[u].sample}
                [] OTHER                                      -> newer
  /\ Unlock(u)
  /\ Forget(u)
  /\ Goto(u, "done")
  /\ UNCHANGED <<organization, member, designs, files, torn, at, seen, trans>>

CancelRequest(u) ==
  /\ pc[u] \in Asking
  /\ Unlock(u)
  /\ Forget(u)
  /\ Goto(u, "failed")
  /\ UNCHANGED <<tables, files, torn, at, seen, trans>>

\* Bootstrap b waits for the row that u has written, and u for the organization's row.
Deadlocked(b, u) ==
  /\ \/ pc[b] = "write" /\ seen[b].status = "none" /\ rowlock[at[b]] = u
     \/ pc[b] \in Flushing /\ \E s \in Dirty(b) : rowlock[s] = u
  /\ pc[u] = "audit" /\ holder = b

\* The database aborts one of the two.
Detect(b, u) == Deadlocked(b, u) /\ (Rollback(b) \/ CancelRequest(u))

\* Somebody edits or deletes a sample design.
ChangeDesign(s) ==
  /\ holder = NoTask /\ designs[s] # "none"
  /\ \E d \in {"edited", "none"} : d # designs[s] /\ designs' = [designs EXCEPT ![s] = d]
  /\ UNCHANGED <<organization, member, versions, newer, files, torn, holder, rowlock, pc,
                 at, seen, trans, ask>>

Fresh ==
  /\ organization \in {"none", "other"} /\ member = FALSE
  /\ designs = [s \in Samples |-> "none"]
  /\ versions = [s \in Samples |-> NoVersion] /\ newer = {}
  /\ files = [s \in Samples |-> 0]

\* A database that release r has seeded, and that users have worked with.
SeededBy(r) ==
  /\ organization = "development" /\ member = TRUE
  /\ designs = [s \in Samples |-> "seeded"]
  /\ \E status \in [Samples -> {"published", "deprecated", "revoked"}] :
       /\ versions = [s \in Samples |-> [status |-> status[s], release |-> r]]
       /\ newer \in SUBSET {s \in Samples : status[s] # "published"}
  /\ files = [s \in Samples |-> r]

Init ==
  /\ Fresh \/ \E r \in Earlier : SeededBy(r)
  /\ torn = {}
  /\ holder = NoTask /\ rowlock = [s \in Samples |-> NoTask]
  /\ pc = [p \in Bootstraps \cup Requests |-> "idle"]
  /\ at = [b \in Bootstraps |-> 1]
  /\ seen = [b \in Bootstraps |-> NoVersion]
  /\ trans = [b \in Bootstraps |-> Nothing]
  /\ ask = [u \in Requests |-> NoAsk]

Step(b) ==
  \/ FindOrganization(b) \/ InsertOrganization(b) \/ Enroll(b) \/ SeedDesigns(b)
  \/ WriteArtifact(b) \/ ReadRow(b) \/ InsertRow(b) \/ UpdateRow(b) \/ Flush(b) \/ Collide(b)
  \/ Commit(b)

Serve(u) == WriteRow(u) \/ Audit(u)

Next ==
  \/ \E b \in Bootstraps : Start(b) \/ Step(b) \/ Abort(b)
  \/ \E u \in Requests : Call(u) \/ Serve(u) \/ CancelRequest(u)
  \/ \E b \in Bootstraps, u \in Requests : Detect(b, u)
  \/ \E s \in Samples : ChangeDesign(s)

\* Processes run on, and the database breaks deadlocks.
Fairness ==
  /\ \A b \in Bootstraps : WF_vars(Step(b))
  /\ \A u \in Requests : WF_vars(Serve(u))
  /\ \A b \in Bootstraps, u \in Requests : WF_vars(Detect(b, u))

Spec == Init /\ [][Next]_vars
FairSpec == Spec /\ Fairness

-----------------------------------------------------------------------------
(* Properties *)

\* The file of a sample is the package its row names, except where a bootstrap has
\* replaced the file and has not committed: whatever releases are started at once.
FilesAgree ==
  \A s \in Samples : versions[s].release # 0 /\ files[s] # versions[s].release => s \in torn

\* The samples are all there or none is, and all of one release.
OneRelease == \A s, t \in Samples : versions[s].release = versions[t].release

\* What is never deleted is reported as created by one bootstrap at most.
CreatedOnce ==
  \A b, c \in Bootstraps :
    b # c /\ pc[b] = "done" /\ pc[c] = "done" => trans[b].created \cap trans[c].created = {}

\* "bootstrap is idempotent": a design that is there stays as users left it.
EditsKept ==
  [][\A b \in Bootstraps : pc'[b] # pc[b] =>
       \A s \in Samples : designs[s] # "none" => designs'[s] = designs[s]]_vars

\* Nobody waits forever: every bootstrap and every request that began ends.
AllEnd == \A p \in Bootstraps \cup Requests : pc[p] # "idle" ~> pc[p] \in Ended
=============================================================================
