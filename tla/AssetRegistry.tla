---------------------------- MODULE AssetRegistry ----------------------------
(***************************************************************************)
(* The versions of one registry asset, their reviews, publication,         *)
(* deprecation and revocation, and their delivery to clients               *)
(* (web/api/registry, web/api/distribution).                               *)
(*                                                                         *)
(* As in DesignLifecycle every request is a READ COMMITTED transaction     *)
(* that reads rows without locks and later writes, by primary key, the     *)
(* columns whose value differs from the one it read.  The build of the     *)
(* design is seen through its job and its artifact file; DesignLifecycle   *)
(* says how those change.  A version's digest covers its manifest, which   *)
(* is never written again, so the digests clients send, and the ones       *)
(* approvals are bound to, always match and are left out.                  *)
(***************************************************************************)
EXTENDS Integers, FiniteSets

CONSTANTS
  Tasks,        \* server tasks, each serving one HTTP request at a time
  Versions,     \* version numbers of the asset (unique: uq_asset_versions_asset_version)
  Channels,     \* the channels a version can be published to
  Unpublished,  \* the channel of a version that never was
  NoVersion,    \* what an idle task works on
  MaxRelease,   \* releases of the generator; each produces other bytes
  FilesFaulty,  \* whether artifact files may disappear or be replaced
  MaxReviews    \* bound on the number of reviews begun

ASSUME NamesAssumption == Unpublished \notin Channels /\ NoVersion \notin Versions
ASSUME LimitsAssumption ==
  MaxRelease \in Nat \ {0} /\ MaxReviews \in Nat /\ FilesFaulty \in BOOLEAN

VARIABLES
  versions,   \* the asset_versions rows
  approvals,  \* the approvals rows of each version
  audit,      \* the audit rows "registry.version.*"
  job,        \* artifact digest of the design's succeeded build job, 0: none
  file,       \* bytes of the artifact file, 0: none
  delivered,  \* the deliveries clients have received
  pc,         \* where each task is in its handler
  call,       \* what the task was called with
  seen,       \* what the task's transaction has read
  reviews     \* number of reviews begun: created_at of the next approval

tables == <<versions, approvals, audit>>
artifact == <<job, file>>
tasks == <<pc, call, seen>>
vars == <<tables, artifact, delivered, tasks, reviews>>

-----------------------------------------------------------------------------
(* Rows *)

Statuses == {"none", "draft", "approved", "published", "deprecated", "revoked"}
Decisions == {"approved", "rejected"}
Releases == 1 .. MaxRelease
Version == [status: Statuses, channel: Channels \cup {Unpublished},
            artifact: Releases \cup {0}]
Approval == [at: Nat, decision: Decisions]
Event == [action: Decisions \cup {"created", "published", "deprecated", "revoked"},
          version: Versions, channel: Channels \cup {Unpublished}]
Call == [version: Versions \cup {NoVersion}, channel: Channels \cup {Unpublished},
         decision: Decisions \cup {"none"}]
Seen == [row: Version, at: Nat, previous: SUBSET Versions]
Delivery == [version: Versions, bytes: Releases]

NoRow == [status |-> "none", channel |-> Unpublished, artifact |-> 0]
NoCall == [version |-> NoVersion, channel |-> Unpublished, decision |-> "none"]
NothingSeen == [row |-> NoRow, at |-> 0, previous |-> {}]

Init ==
  /\ versions = [v \in Versions |-> NoRow]
  /\ approvals = [v \in Versions |-> {}]
  /\ audit = {}
  /\ job = 0 /\ file = 0
  /\ delivered = {}
  /\ pc = [t \in Tasks |-> "idle"]
  /\ call = [t \in Tasks |-> NoCall]
  /\ seen = [t \in Tasks |-> NothingSeen]
  /\ reviews = 0

-----------------------------------------------------------------------------
(* What the handlers share *)

\* The value a column has after an UPDATE by primary key of an object that was
\* read with the value old and assigned the value new.
Written(old, new, current) == IF new = old THEN current ELSE new

\* The latest approval row of the version approves it.
LatestApproves(v) ==
  \E a \in approvals[v] :
    a.decision = "approved" /\ \A b \in approvals[v] : b.at <= a.at

\* uq_asset_versions_published_channel, which every UPDATE is checked against.
FreeChannel(table) ==
  \A u, v \in Versions :
    /\ table[u].status = "published" /\ table[v].status = "published"
    /\ table[u].channel = table[v].channel
    => u = v

Recorded(action, v, channel) == [action |-> action, version |-> v, channel |-> channel]

Begin(t, step, c, s) ==
  /\ pc[t] = "idle"
  /\ pc' = [pc EXCEPT ![t] = step]
  /\ call' = [call EXCEPT ![t] = c]
  /\ seen' = [seen EXCEPT ![t] = s]

Return(t) ==
  /\ pc' = [pc EXCEPT ![t] = "idle"]
  /\ call' = [call EXCEPT ![t] = NoCall]
  /\ seen' = [seen EXCEPT ![t] = NothingSeen]

\* An error response or a rollback: nothing is written.
Abort(t) ==
  /\ pc[t] # "idle"
  /\ Return(t)
  /\ UNCHANGED <<tables, artifact, delivered, reviews>>

-----------------------------------------------------------------------------
(* Creation *)

\* create_workflow_version reads the build of the design, which is built.
CreateRead(t, v) ==
  /\ job # 0
  /\ Begin(t, "create", [NoCall EXCEPT !.version = v],
           [NothingSeen EXCEPT !.row.artifact = job])
  /\ UNCHANGED <<tables, artifact, delivered, reviews>>

\* The stored bytes have the digest that was read from the row.
Intact(t) == file # 0 /\ file = seen[t].row.artifact

\* The artifact is verified, then the row is inserted as a draft.
Create(t) ==
  LET v == call[t].version
  IN /\ pc[t] = "create"
     /\ Intact(t)
     /\ versions[v].status = "none"
     /\ versions' = [versions EXCEPT ![v] =
          [status |-> "draft", channel |-> Unpublished, artifact |-> seen[t].row.artifact]]
     /\ audit' = audit \cup {Recorded("created", v, Unpublished)}
     /\ Return(t)
     /\ UNCHANGED <<approvals, artifact, delivered, reviews>>

-----------------------------------------------------------------------------
(* Review *)

ReviewRead(t, v, decision) ==
  /\ versions[v].status \in {"draft", "approved"}
  /\ reviews < MaxReviews
  /\ Begin(t, "review", [NoCall EXCEPT !.version = v, !.decision = decision],
           [NothingSeen EXCEPT !.row = versions[v], !.at = reviews + 1])
  /\ reviews' = reviews + 1
  /\ UNCHANGED <<tables, artifact, delivered>>

\* Mutant of Verdict: a status the lifecycle of the code does not have.
VerdictRejected(decision) == decision
Verdict(decision) == IF decision = "approved" THEN "approved" ELSE "draft"

\* The approval, the status and the audit row commit together; the status is
\* written over whatever it is by now.
Review(t) ==
  LET v == call[t].version
      decision == call[t].decision
  IN /\ pc[t] = "review"
     /\ approvals' = [approvals EXCEPT ![v] = @ \cup {[at |-> seen[t].at, decision |-> decision]}]
     /\ versions' = [versions EXCEPT
          ![v].status = Written(seen[t].row.status, Verdict(decision), versions[v].status)]
     /\ audit' = audit \cup {Recorded(decision, v, Unpublished)}
     /\ Return(t)
     /\ UNCHANGED <<artifact, delivered, reviews>>

-----------------------------------------------------------------------------
(* Publication and revocation *)

PublishRead(t, v, channel) ==
  /\ versions[v].status = "approved"
  /\ Begin(t, "approval", [NoCall EXCEPT !.version = v, !.channel = channel],
           [NothingSeen EXCEPT !.row = versions[v]])
  /\ UNCHANGED <<tables, artifact, delivered, reviews>>

\* Mutant of PublishedIn: the query forgets the channel.
PublishedInAny(channel, v) == {u \in Versions \ {v} : versions[u].status = "published"}
PublishedIn(channel, v) ==
  {u \in Versions \ {v} : versions[u].status = "published" /\ versions[u].channel = channel}

\* The latest approval and the versions to be deprecated are read.
PublishLookup(t) ==
  LET v == call[t].version
  IN /\ pc[t] = "approval"
     /\ LatestApproves(v)
     /\ pc' = [pc EXCEPT ![t] = "publish"]
     /\ seen' = [seen EXCEPT ![t].previous = PublishedIn(call[t].channel, v)]
     /\ UNCHANGED <<tables, artifact, delivered, call, reviews>>

\* The rows after a publication of v: those of previous are deprecated.
Promoted(v, channel, row, previous) ==
  [u \in Versions |->
     IF u = v
     THEN [versions[v] EXCEPT !.status = "published",
                              !.channel = Written(row.channel, channel, versions[v].channel)]
     ELSE IF u \in previous THEN [versions[u] EXCEPT !.status = "deprecated"]
     ELSE versions[u]]

\* Mutant of Demotions: a superseded version leaves no record.
DemotionsUnrecorded(channel, previous) == {}
\* _demote_previously_published: each row names the channel that was asked for,
\* in which the version was found.
Demotions(channel, previous) ==
  {Recorded("deprecated", u, channel) : u \in previous}

\* Both flushes, unless the index refuses the second one.  The audit row names the
\* channel of the object in memory, which is the one asked for even where the
\* UPDATE leaves the column out.
Publish(t) ==
  LET v == call[t].version
      table == Promoted(v, call[t].channel, seen[t].row, seen[t].previous)
  IN /\ pc[t] = "publish"
     /\ FreeChannel(table)
     /\ versions' = table
     /\ audit' = audit \cup Demotions(call[t].channel, seen[t].previous)
                       \cup {Recorded("published", v, call[t].channel)}
     /\ Return(t)
     /\ UNCHANGED <<approvals, artifact, delivered, reviews>>

RevokeRead(t, v) ==
  /\ versions[v].status = "published"
  /\ Begin(t, "revoke", [NoCall EXCEPT !.version = v],
           [NothingSeen EXCEPT !.row = versions[v]])
  /\ UNCHANGED <<tables, artifact, delivered, reviews>>

Revoke(t) ==
  LET v == call[t].version
  IN /\ pc[t] = "revoke"
     /\ versions' = [versions EXCEPT ![v].status = "revoked"]
     /\ audit' = audit \cup {Recorded("revoked", v, seen[t].row.channel)}
     /\ Return(t)
     /\ UNCHANGED <<approvals, artifact, delivered, reviews>>

-----------------------------------------------------------------------------
(* Delivery *)

\* Mutant of Deliverable: whoever knows the id may download.
DeliverableById(v) == versions[v].status # "none"
Deliverable(v) == versions[v].status = "published"

\* DistributionService.prepare reads the row of a published version.
DeliverRead(t, v) ==
  /\ Deliverable(v)
  /\ Begin(t, "deliver", [NoCall EXCEPT !.version = v],
           [NothingSeen EXCEPT !.row = versions[v]])
  /\ UNCHANGED <<tables, artifact, delivered, reviews>>

\* The file is copied, hashed and, if it is intact, streamed to the client.
Deliver(t) ==
  /\ pc[t] = "deliver"
  /\ Intact(t)
  /\ delivered' = delivered \cup {[version |-> call[t].version, bytes |-> file]}
  /\ Return(t)
  /\ UNCHANGED <<tables, artifact, reviews>>

-----------------------------------------------------------------------------
(* The build of the design, as DesignLifecycle describes it *)

\* A build, or the rebuild of an artifact whose file is gone, by any release.
Build(r) ==
  /\ file = 0
  /\ job' = r /\ file' = r
  /\ UNCHANGED <<tables, delivered, tasks, reviews>>

\* The file disappears, or a worker replaces it on a mount without hard links.
Damage(r) ==
  /\ FilesFaulty /\ file # 0
  /\ file' = r
  /\ UNCHANGED <<tables, job, delivered, tasks, reviews>>

-----------------------------------------------------------------------------
(* Specification *)

Request(t) == \E v \in Versions :
  \/ CreateRead(t, v)
  \/ \E decision \in Decisions : ReviewRead(t, v, decision)
  \/ \E channel \in Channels : PublishRead(t, v, channel)
  \/ RevokeRead(t, v) \/ DeliverRead(t, v)

Respond(t) ==
  \/ Create(t) \/ Review(t) \/ PublishLookup(t) \/ Publish(t) \/ Revoke(t)
  \/ Deliver(t) \/ Abort(t)

Next ==
  \/ \E t \in Tasks : Request(t) \/ Respond(t)
  \/ \E r \in Releases : Build(r)
  \/ \E r \in Releases \cup {0} : Damage(r)

Spec == Init /\ [][Next]_vars

-----------------------------------------------------------------------------
(* Properties *)

\* Every row, every task and every delivery has its type; a task that is not
\* idle works on a version.
TypeOK ==
  /\ versions \in [Versions -> Version]
  /\ approvals \in [Versions -> SUBSET Approval]
  /\ audit \subseteq Event
  /\ job \in Releases \cup {0} /\ file \in Releases \cup {0}
  /\ delivered \subseteq Delivery
  /\ pc \in [Tasks -> {"idle", "create", "review", "approval", "publish", "revoke",
                       "deliver"}]
  /\ call \in [Tasks -> Call] /\ seen \in [Tasks -> Seen]
  /\ reviews \in Nat
  /\ \A t \in Tasks : pc[t] # "idle" => call[t].version \in Versions
  /\ \A t \in Tasks : pc[t] = "review" => call[t].decision \in Decisions
  /\ \A t \in Tasks : pc[t] \in {"approval", "publish"} => call[t].channel \in Channels

Happened(action, v) == \E e \in audit : e.action = action /\ e.version = v

\* The versions that were ever published in the channel.
EverIn(channel) == {u \in Versions : Recorded("published", u, channel) \in audit}

\* The version was reviewed at least twice.
Reconsidered(v) == \E a, b \in approvals[v] : a.at # b.at

\* The ways in which a version is taken out of the channel with nothing in its
\* place: it was revoked, a second review took it back, or a request that had read it
\* as approved published it elsewhere.
Withdrawn(v, channel) ==
  \/ Happened("revoked", v)
  \/ Reconsidered(v)
  \/ \E other \in Channels \ {channel} : v \in EverIn(other)

\* A channel that was published to goes on offering a version, however many
\* publications overlap, deprecate the same versions or are refused by the index;
\* it is left empty only if one of its versions was withdrawn.
ChannelStaysServed ==
  \A channel \in Channels :
    EverIn(channel) # {} =>
      \/ \E v \in Versions : versions[v].status = "published" /\ versions[v].channel = channel
      \/ \E v \in EverIn(channel) : Withdrawn(v, channel)

\* Clients only ever received versions that a reviewer approved and an
\* administrator published, whatever became of them since.
DeliveredWasApproved ==
  \A d \in delivered : Happened("approved", d.version) /\ Happened("published", d.version)

\* All deliveries of a version are the same bytes, the ones recorded when it was
\* created, even when its file was lost, replaced or rebuilt by another release.
OneArtifactEach ==
  \A d \in delivered : d.bytes = versions[d.version].artifact

\* The audit rows account for the status of every version, in spite of writes that
\* overtake each other: nothing is approved, published, deprecated or revoked
\* without a row that says so.
AuditTells ==
  \A v \in Versions :
    /\ versions[v].status \in {"approved", "published", "deprecated", "revoked"} =>
         Happened(versions[v].status, v)
    /\ versions[v].status = "published" =>
         Recorded("published", v, versions[v].channel) \in audit

-----------------------------------------------------------------------------
\* What the documents say: "revoked blocks new installs": a version that was
\* revoked is not published any more.
RevokedStaysBlocked ==
  \A v \in Versions : Happened("revoked", v) => versions[v].status # "published"

-----------------------------------------------------------------------------
(* The inductive invariants *)

\* A delivery under way and every delivery made carry the recorded artifact.
ArtifactInv ==
  /\ \A t \in Tasks : pc[t] = "deliver" =>
       /\ versions[call[t].version].status # "none"
       /\ versions[call[t].version].artifact = seen[t].row.artifact
  /\ \A d \in delivered : versions[d.version].status # "none"
  /\ OneArtifactEach

\* A channel that was written is never unwritten, nor one that was read.
ChannelInv ==
  /\ \A v \in Versions : versions[v].status = "none" => versions[v].channel = Unpublished
  /\ \A t \in Tasks :
       pc[t] \in {"approval", "publish"} /\ seen[t].row.channel # Unpublished =>
         versions[call[t].version].channel # Unpublished

\* The audit rows are ahead of what tasks have read and clients have received.
AuditInv ==
  /\ AuditTells
  /\ \A v \in Versions : versions[v].channel # Unpublished =>
       Recorded("published", v, versions[v].channel) \in audit
  /\ ChannelInv
  /\ \A v \in Versions : Happened("published", v) => Happened("approved", v)
  /\ \A t \in Tasks : pc[t] \in {"approval", "publish", "deliver"} =>
       Happened("approved", call[t].version)
  /\ \A t \in Tasks : pc[t] = "deliver" => Happened("published", call[t].version)
  /\ DeliveredWasApproved

\* No two reviews have the same time.
ReviewsInv ==
  /\ \A v \in Versions : \A a \in approvals[v] : a.at <= reviews
  /\ \A t \in Tasks : pc[t] = "review" =>
       /\ seen[t].at <= reviews
       /\ \A a \in approvals[call[t].version] : a.at # seen[t].at
  /\ \A t, u \in Tasks : pc[t] = "review" /\ pc[u] = "review" /\ t # u =>
       seen[t].at # seen[u].at

\* A version that was published was reviewed, and one that is to be published
\* again was reviewed again; what a publication deprecates was in its channel.
ServedInv ==
  /\ ChannelStaysServed
  /\ \A v \in Versions : versions[v].channel # Unpublished =>
       /\ approvals[v] # {}
       /\ versions[v].status \in {"draft", "approved"} => Reconsidered(v)
  /\ \A t \in Tasks :
       pc[t] \in {"approval", "publish"} /\ seen[t].row.channel # Unpublished =>
         Reconsidered(call[t].version)
  /\ \A t \in Tasks : pc[t] = "publish" =>
       /\ approvals[call[t].version] # {}
       /\ seen[t].previous \subseteq EverIn(call[t].channel)
=============================================================================
