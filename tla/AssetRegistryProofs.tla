------------------------- MODULE AssetRegistryProofs -------------------------
(***************************************************************************)
(* What holds of AssetRegistry for any tasks, versions, channels and       *)
(* bounds.  Three invariants carry the theorems: a task's reading of a     *)
(* version's artifact never becomes stale (ArtifactInv), the audit rows    *)
(* are ahead of every status and channel that was read or written          *)
(* (AuditInv), and what is published again was reviewed again, so that a   *)
(* channel is emptied by a withdrawal only (ServedInv).                    *)
(***************************************************************************)
EXTENDS AssetRegistry, TLAPS

\* Every step is one of the actions below or leaves the variables alone.
LEMMA StepCases ==
  ASSUME [Next]_vars
  PROVE  \/ \E t \in Tasks, v \in Versions : CreateRead(t, v)
         \/ \E t \in Tasks, v \in Versions, decision \in Decisions :
              ReviewRead(t, v, decision)
         \/ \E t \in Tasks, v \in Versions, channel \in Channels :
              PublishRead(t, v, channel)
         \/ \E t \in Tasks, v \in Versions : RevokeRead(t, v) \/ DeliverRead(t, v)
         \/ \E t \in Tasks : Create(t) \/ Review(t) \/ PublishLookup(t) \/ Publish(t)
                               \/ Revoke(t) \/ Deliver(t) \/ Abort(t)
         \/ \E r \in Releases \cup {0} : (Build(r) /\ r # 0) \/ Damage(r)
         \/ UNCHANGED vars
<1>1. \A r \in Releases : r \in Releases \cup {0} /\ r # 0
  BY LimitsAssumption DEF Releases
<1> QED
  BY <1>1 DEF Next, Request, Respond

-----------------------------------------------------------------------------
(* Types *)

LEMMA InitType == Init => TypeOK
  BY LimitsAssumption, NamesAssumption
     DEF Init, TypeOK, Version, Approval, Event, Call, Seen, Delivery, NoRow, NoCall,
         NothingSeen, Statuses, Releases, Decisions

\* A task that begins has a call and a reading of the right types.
LEMMA BeginType ==
  ASSUME TypeOK, NEW t \in Tasks, NEW step, NEW c \in Call, NEW s \in Seen,
         Begin(t, step, c, s), c.version \in Versions,
         \/ step \in {"create", "revoke", "deliver"}
         \/ step = "review" /\ c.decision \in Decisions
         \/ step = "approval" /\ c.channel \in Channels
  PROVE  /\ pc' \in [Tasks -> {"idle", "create", "review", "approval", "publish",
                               "revoke", "deliver"}]
         /\ call' \in [Tasks -> Call] /\ seen' \in [Tasks -> Seen]
         /\ \A u \in Tasks : pc'[u] # "idle" => call'[u].version \in Versions
         /\ \A u \in Tasks : pc'[u] = "review" => call'[u].decision \in Decisions
         /\ \A u \in Tasks : pc'[u] \in {"approval", "publish"} => call'[u].channel \in Channels
  BY DEF TypeOK, Begin

\* A task that returns forgets its call.
LEMMA ReturnType ==
  ASSUME TypeOK, NEW t \in Tasks, Return(t)
  PROVE  /\ pc' \in [Tasks -> {"idle", "create", "review", "approval", "publish",
                               "revoke", "deliver"}]
         /\ call' \in [Tasks -> Call] /\ seen' \in [Tasks -> Seen]
         /\ \A u \in Tasks : pc'[u] # "idle" => call'[u].version \in Versions
         /\ \A u \in Tasks : pc'[u] = "review" => call'[u].decision \in Decisions
         /\ \A u \in Tasks : pc'[u] \in {"approval", "publish"} => call'[u].channel \in Channels
<1>1. NoCall \in Call /\ NothingSeen \in Seen
  BY DEF NoCall, Call, NothingSeen, Seen, NoRow, Version, Statuses
<1> QED
  BY <1>1 DEF TypeOK, Return

LEMMA StepType == TypeOK /\ [Next]_vars => TypeOK'
<1> SUFFICES ASSUME TypeOK, [Next]_vars PROVE TypeOK'
  OBVIOUS
<1>0. NoCall \in Call /\ NothingSeen \in Seen
  BY DEF NoCall, Call, NothingSeen, Seen, NoRow, Version, Statuses
<1>1. ASSUME NEW t \in Tasks, NEW v \in Versions, CreateRead(t, v) PROVE TypeOK'
  <2>1. [NothingSeen EXCEPT !.row.artifact = job] \in Seen
    BY DEF TypeOK, NothingSeen, Seen, NoRow, Version, Statuses
  <2>2. [NoCall EXCEPT !.version = v] \in Call /\ [NoCall EXCEPT !.version = v].version = v
    BY DEF NoCall, Call
  <2> QED
    BY <1>1, <2>1, <2>2, BeginType DEF CreateRead, TypeOK, tables, artifact
<1>2. ASSUME NEW t \in Tasks, NEW v \in Versions, NEW decision \in Decisions,
             ReviewRead(t, v, decision)
      PROVE  TypeOK'
  <2> DEFINE c == [NoCall EXCEPT !.version = v, !.decision = decision]
             s == [NothingSeen EXCEPT !.row = versions[v], !.at = reviews + 1]
  <2>1. s \in Seen
    <3>1. versions[v] \in Version /\ reviews + 1 \in Nat
      BY DEF TypeOK
    <3> QED
      BY <3>1 DEF Seen, NothingSeen
  <2>2. c \in Call /\ c.version = v /\ c.decision = decision
    BY DEF NoCall, Call
  <2>3. Begin(t, "review", c, s)
    BY <1>2 DEF ReviewRead
  <2>4. reviews' \in Nat /\ UNCHANGED <<tables, artifact, delivered>>
    BY <1>2 DEF ReviewRead, TypeOK
  <2> HIDE DEF c, s
  <2> QED
    BY <2>1, <2>2, <2>3, <2>4, BeginType DEF TypeOK, tables, artifact
<1>3. ASSUME NEW t \in Tasks, NEW v \in Versions, NEW channel \in Channels,
             PublishRead(t, v, channel)
      PROVE  TypeOK'
  <2> DEFINE c == [NoCall EXCEPT !.version = v, !.channel = channel]
             s == [NothingSeen EXCEPT !.row = versions[v]]
  <2>1. s \in Seen
    BY DEF TypeOK, NothingSeen, Seen, NoRow
  <2>2. c \in Call /\ c.version = v /\ c.channel = channel
    BY DEF NoCall, Call
  <2>3. Begin(t, "approval", c, s)
    BY <1>3 DEF PublishRead
  <2> HIDE DEF c, s
  <2> QED
    BY <1>3, <2>1, <2>2, <2>3, BeginType DEF PublishRead, TypeOK, tables, artifact
<1>4. ASSUME NEW t \in Tasks, NEW v \in Versions, RevokeRead(t, v) \/ DeliverRead(t, v)
      PROVE  TypeOK'
  <2> DEFINE c == [NoCall EXCEPT !.version = v]
             s == [NothingSeen EXCEPT !.row = versions[v]]
  <2>1. s \in Seen
    BY DEF TypeOK, NothingSeen, Seen, NoRow
  <2>2. c \in Call /\ c.version = v
    BY DEF NoCall, Call
  <2>3. Begin(t, "revoke", c, s) \/ Begin(t, "deliver", c, s)
    BY <1>4 DEF RevokeRead, DeliverRead
  <2>4. UNCHANGED <<tables, artifact, delivered, reviews>>
    BY <1>4 DEF RevokeRead, DeliverRead
  <2> HIDE DEF c, s
  <2> QED
    BY <2>1, <2>2, <2>3, <2>4, BeginType DEF TypeOK, tables, artifact
<1>5. ASSUME NEW t \in Tasks, Create(t) PROVE TypeOK'
  <2> DEFINE v == call[t].version
  <2>1. v \in Versions /\ seen[t].row.artifact \in Releases \cup {0}
    BY <1>5 DEF Create, TypeOK, Seen, Version
  <2>2. versions' \in [Versions -> Version]
    BY <1>5, <2>1 DEF Create, TypeOK, Version, Statuses
  <2>3. audit' \subseteq Event
    BY <1>5, <2>1 DEF Create, TypeOK, Event, Recorded
  <2> QED
    BY <1>5, <2>2, <2>3, ReturnType DEF Create, TypeOK, artifact
<1>6. ASSUME NEW t \in Tasks, Review(t) PROVE TypeOK'
  <2> DEFINE v == call[t].version
  <2>1. v \in Versions /\ call[t].decision \in Decisions /\ seen[t].at \in Nat
    BY <1>6 DEF Review, TypeOK, Seen
  <2>2. versions' \in [Versions -> Version]
    <3>1. Written(seen[t].row.status, Verdict(call[t].decision), versions[v].status)
            \in Statuses
      BY <2>1 DEF Written, Verdict, TypeOK, Version, Statuses
    <3> QED
      BY <1>6, <2>1, <3>1 DEF Review, TypeOK, Version
  <2>3. audit' \subseteq Event
    BY <1>6, <2>1 DEF Review, TypeOK, Event, Recorded
  <2>4. approvals' \in [Versions -> SUBSET Approval]
    BY <1>6, <2>1 DEF Review, TypeOK, Approval
  <2> QED
    BY <1>6, <2>2, <2>3, <2>4, ReturnType DEF Review, TypeOK, artifact
<1>7. ASSUME NEW t \in Tasks, PublishLookup(t) PROVE TypeOK'
  <2>1. PublishedIn(call[t].channel, call[t].version) \subseteq Versions
    BY DEF PublishedIn
  <2>2. seen' \in [Tasks -> Seen]
    BY <1>7, <2>1 DEF PublishLookup, TypeOK, Seen
  <2> QED
    BY <1>7, <2>2 DEF PublishLookup, TypeOK, tables, artifact
<1>8. ASSUME NEW t \in Tasks, Publish(t) PROVE TypeOK'
  <2> DEFINE v == call[t].version
             table == Promoted(v, call[t].channel, seen[t].row, seen[t].previous)
  <2>1. v \in Versions /\ call[t].channel \in Channels /\ seen[t].previous \subseteq Versions
    BY <1>8 DEF Publish, TypeOK, Seen
  <2>2. versions' = table /\ table \in [Versions -> Version]
    <3>1. \A u \in Versions : versions[u] \in Version
      BY DEF TypeOK
    <3>2. Written(seen[t].row.channel, call[t].channel, versions[v].channel)
            \in Channels \cup {Unpublished}
      BY <2>1, <3>1 DEF Written, Version
    <3>3. \A u \in Versions : table[u] \in Version
      BY <2>1, <3>1, <3>2 DEF Promoted, Version, Statuses
    <3> QED
      BY <1>8, <3>3 DEF Publish, Promoted
  <2>3. audit' \subseteq Event
    <3>1. Demotions(call[t].channel, seen[t].previous) \subseteq Event
      BY <2>1 DEF Demotions, Recorded, Event
    <3>2. Recorded("published", v, call[t].channel) \in Event
      BY <2>1 DEF Recorded, Event
    <3> HIDE DEF table
    <3> QED
      BY <1>8, <3>1, <3>2 DEF Publish, TypeOK, table
  <2> QED
    BY <1>8, <2>2, <2>3, ReturnType DEF Publish, TypeOK, artifact
<1>9. ASSUME NEW t \in Tasks, Revoke(t) PROVE TypeOK'
  <2>1. call[t].version \in Versions
    BY <1>9 DEF Revoke, TypeOK
  <2>2. versions' \in [Versions -> Version] /\ audit' \subseteq Event
    BY <1>9, <2>1 DEF Revoke, TypeOK, Version, Statuses, Seen, Event, Recorded
  <2> QED
    BY <1>9, <2>2, ReturnType DEF Revoke, TypeOK, artifact
<1>10. ASSUME NEW t \in Tasks, Deliver(t) PROVE TypeOK'
  <2>1. delivered' \subseteq Delivery
    BY <1>10 DEF Deliver, Intact, TypeOK, Delivery
  <2> QED
    BY <1>10, <2>1, ReturnType DEF Deliver, TypeOK, tables, artifact
<1>11. ASSUME NEW t \in Tasks, Abort(t) PROVE TypeOK'
  BY <1>11, ReturnType DEF Abort, TypeOK, tables, artifact
<1>12. ASSUME NEW r \in Releases \cup {0}, (Build(r) /\ r # 0) \/ Damage(r) PROVE TypeOK'
  BY <1>12 DEF Build, Damage, TypeOK, tables, tasks
<1>13. CASE UNCHANGED vars
  BY <1>13 DEF vars, TypeOK, tables, artifact, tasks
<1> QED
  BY StepCases, <1>1, <1>2, <1>3, <1>4, <1>5, <1>6, <1>7, <1>8, <1>9, <1>10, <1>11,
     <1>12, <1>13

\* Rows, tasks and deliveries keep their types, for any constants.
THEOREM TypeCorrect == Spec => []TypeOK
  BY InitType, StepType, PTL DEF Spec

-----------------------------------------------------------------------------
(* The artifact of a version *)

\* No step changes the artifact that an existing version records, nor makes a
\* version cease to exist.
LEMMA ArtifactKept ==
  ASSUME TypeOK, [Next]_vars, NEW v \in Versions, versions[v].status # "none"
  PROVE  versions'[v].status # "none" /\ versions'[v].artifact = versions[v].artifact
<1>1. ASSUME NEW t \in Tasks, Create(t)
      PROVE  versions'[v] = versions[v]
  BY <1>1 DEF Create, TypeOK
<1>2. ASSUME NEW t \in Tasks, Review(t)
      PROVE  versions'[v].status # "none" /\ versions'[v].artifact = versions[v].artifact
  BY <1>2 DEF Review, Written, Verdict, TypeOK, Version
<1>3. ASSUME NEW t \in Tasks, Publish(t)
      PROVE  versions'[v].status # "none" /\ versions'[v].artifact = versions[v].artifact
  BY <1>3 DEF Publish, Promoted, TypeOK, Version
<1>4. ASSUME NEW t \in Tasks, Revoke(t)
      PROVE  versions'[v].status # "none" /\ versions'[v].artifact = versions[v].artifact
  BY <1>4 DEF Revoke, TypeOK, Version
<1> QED
  BY StepCases, <1>1, <1>2, <1>3, <1>4
     DEF CreateRead, ReviewRead, PublishRead, RevokeRead, DeliverRead, PublishLookup,
         Deliver, Abort, Build, Damage, tables, vars

\* A task's reading of the artifact it delivers never becomes stale.
LEMMA StepArtifact == TypeOK /\ ArtifactInv /\ [Next]_vars => ArtifactInv'
<1> SUFFICES ASSUME TypeOK, ArtifactInv, [Next]_vars PROVE ArtifactInv'
  OBVIOUS
<1>1. \A v \in Versions : versions[v].status # "none" =>
        versions'[v].status # "none" /\ versions'[v].artifact = versions[v].artifact
  BY ArtifactKept
\* Who delivers after the step delivered before it, or has just read the row.
<1>2. ASSUME NEW t \in Tasks, pc'[t] = "deliver"
      PROVE  \/ pc[t] = "deliver" /\ call'[t] = call[t] /\ seen'[t] = seen[t]
             \/ /\ UNCHANGED versions
                /\ call'[t].version \in Versions
                /\ versions[call'[t].version].status = "published"
                /\ seen'[t].row = versions[call'[t].version]
  <2>1. ASSUME NEW u \in Tasks, NEW v \in Versions, DeliverRead(u, v), u = t
        PROVE  /\ UNCHANGED versions
               /\ call'[t].version = v /\ versions[v].status = "published"
               /\ seen'[t].row = versions[v]
    BY <2>1 DEF DeliverRead, Deliverable, Begin, TypeOK, tables, NoCall, NothingSeen
  <2>2. ASSUME NEW u \in Tasks, NEW v \in Versions, DeliverRead(u, v), u # t
        PROVE  pc[t] = "deliver" /\ call'[t] = call[t] /\ seen'[t] = seen[t]
    BY <1>2, <2>2 DEF DeliverRead, Begin, TypeOK
  <2>3. ASSUME NEW u \in Tasks, NEW v \in Versions,
               \/ CreateRead(u, v) \/ RevokeRead(u, v)
               \/ \E decision \in Decisions : ReviewRead(u, v, decision)
               \/ \E channel \in Channels : PublishRead(u, v, channel)
        PROVE  pc[t] = "deliver" /\ call'[t] = call[t] /\ seen'[t] = seen[t]
    BY <1>2, <2>3 DEF CreateRead, RevokeRead, ReviewRead, PublishRead, Begin, TypeOK
  <2>4. ASSUME NEW u \in Tasks, Return(u) \/ PublishLookup(u)
        PROVE  pc[t] = "deliver" /\ call'[t] = call[t] /\ seen'[t] = seen[t]
    BY <1>2, <2>4 DEF Return, PublishLookup, TypeOK
  <2>5. ASSUME NEW u \in Tasks,
               Create(u) \/ Review(u) \/ Publish(u) \/ Revoke(u) \/ Deliver(u) \/ Abort(u)
        PROVE  Return(u)
    BY <2>5 DEF Create, Review, Publish, Revoke, Deliver, Abort
  <2>6. ASSUME UNCHANGED tasks
        PROVE  pc[t] = "deliver" /\ call'[t] = call[t] /\ seen'[t] = seen[t]
    BY <1>2, <2>6 DEF tasks
  <2>7. ASSUME NEW r, Build(r) \/ Damage(r) PROVE UNCHANGED tasks
    BY <2>7 DEF Build, Damage
  <2> QED
    BY StepCases, <2>1, <2>2, <2>3, <2>4, <2>5, <2>6, <2>7 DEF vars
<1>3. ASSUME NEW t \in Tasks, pc'[t] = "deliver"
      PROVE  /\ versions'[call'[t].version].status # "none"
             /\ versions'[call'[t].version].artifact = seen'[t].row.artifact
  BY <1>1, <1>2, <1>3 DEF ArtifactInv, TypeOK
\* What is delivered was delivered before, or is being delivered intact.
<1>4. ASSUME NEW d \in delivered'
      PROVE  /\ d.version \in Versions /\ versions[d.version].status # "none"
             /\ d.bytes = versions[d.version].artifact
  <2>1. CASE d \in delivered
    BY <2>1 DEF ArtifactInv, OneArtifactEach, TypeOK, Delivery
  <2>2. CASE d \notin delivered
    <3>1. PICK t \in Tasks : Deliver(t)
      BY <2>2, <1>4, StepCases
         DEF CreateRead, ReviewRead, PublishRead, RevokeRead, DeliverRead, PublishLookup,
             Create, Review, Publish, Revoke, Abort, Build, Damage, vars
    <3> QED
      BY <2>2, <1>4, <3>1 DEF Deliver, Intact, ArtifactInv, TypeOK
  <2> QED
    BY <2>1, <2>2
<1>5. ASSUME NEW d \in delivered'
      PROVE  versions'[d.version].status # "none" /\ d.bytes = versions'[d.version].artifact
  BY <1>1, <1>4, <1>5
<1> QED
  BY <1>3, <1>5 DEF ArtifactInv, OneArtifactEach

\* Every delivery of a version is the artifact recorded at its creation.
THEOREM OneArtifactEachHolds == Spec => []OneArtifactEach
<1>1. Init => ArtifactInv
  BY DEF Init, ArtifactInv, OneArtifactEach
<1>2. ArtifactInv => OneArtifactEach
  BY DEF ArtifactInv
<1> QED
  BY <1>1, <1>2, StepArtifact, TypeCorrect, PTL DEF Spec
-----------------------------------------------------------------------------
(* The audit rows *)

\* Audit rows are only added.
LEMMA AuditGrows == [Next]_vars => audit \subseteq audit'
<1> SUFFICES ASSUME [Next]_vars PROVE audit \subseteq audit'
  OBVIOUS
<1> QED
  BY StepCases
     DEF CreateRead, ReviewRead, PublishRead, RevokeRead, DeliverRead, PublishLookup,
         Create, Review, Publish, Revoke, Deliver, Abort, Build, Damage, tables, vars

\* The audit rows of the next state say that action happened to v.
HappenedThen(action, v) == \E e \in audit' : e.action = action /\ e.version = v

\* What happened stays recorded.
LEMMA HappenedStays ==
  ASSUME [Next]_vars, NEW action, NEW v, Happened(action, v)
  PROVE  HappenedThen(action, v)
  BY AuditGrows DEF Happened, HappenedThen

\* A channel that was written stays written.
LEMMA ChannelKept ==
  ASSUME TypeOK, ChannelInv, [Next]_vars, NEW v \in Versions,
         versions[v].channel # Unpublished
  PROVE  versions'[v].channel # Unpublished
<1>1. ASSUME NEW t \in Tasks, Create(t) PROVE versions'[v] = versions[v]
  BY <1>1 DEF Create, TypeOK, ChannelInv
<1>2. ASSUME NEW t \in Tasks, Review(t) \/ Revoke(t)
      PROVE  versions'[v].channel = versions[v].channel
  BY <1>2 DEF Review, Revoke, TypeOK, Version
<1>3. ASSUME NEW t \in Tasks, Publish(t) PROVE versions'[v].channel # Unpublished
  <2>1. call[t].channel \in Channels
    BY <1>3 DEF Publish, TypeOK
  <2> QED
    BY <1>3, <2>1, NamesAssumption DEF Publish, Promoted, Written, TypeOK, Version
<1> QED
  BY StepCases, <1>1, <1>2, <1>3
     DEF CreateRead, ReviewRead, PublishRead, RevokeRead, DeliverRead, PublishLookup,
         Deliver, Abort, Build, Damage, tables, vars

\* A task that publishes after the step did so before, or has just read its row.
LEMMA StepPublishers ==
  ASSUME TypeOK, [Next]_vars, NEW t \in Tasks, pc'[t] \in {"approval", "publish"}
  PROVE  \/ /\ pc[t] \in {"approval", "publish"}
            /\ pc'[t] = "publish" => pc[t] = "publish"
            /\ call'[t] = call[t] /\ seen'[t] = seen[t]
         \/ /\ PublishLookup(t) /\ pc[t] = "approval" /\ pc'[t] = "publish"
            /\ call'[t] = call[t] /\ seen'[t].row = seen[t].row
            /\ seen'[t].previous = PublishedIn(call[t].channel, call[t].version)
         \/ /\ pc'[t] = "approval" /\ UNCHANGED tables /\ UNCHANGED reviews
            /\ call'[t].version \in Versions
            /\ versions[call'[t].version].status = "approved"
            /\ seen'[t].row = versions[call'[t].version]
<1> DEFINE Same == /\ pc[t] \in {"approval", "publish"}
                   /\ pc'[t] = "publish" => pc[t] = "publish"
                   /\ call'[t] = call[t] /\ seen'[t] = seen[t]
<1>1. ASSUME NEW u \in Tasks, NEW v \in Versions,
             \/ CreateRead(u, v) \/ RevokeRead(u, v) \/ DeliverRead(u, v)
             \/ \E decision \in Decisions : ReviewRead(u, v, decision)
      PROVE  Same
  BY <1>1 DEF CreateRead, RevokeRead, DeliverRead, ReviewRead, Begin, TypeOK
<1>2. ASSUME NEW u \in Tasks, NEW v \in Versions, NEW channel \in Channels,
             PublishRead(u, v, channel), u # t
      PROVE  Same
  BY <1>2 DEF PublishRead, Begin, TypeOK
<1>3. ASSUME NEW v \in Versions, NEW channel \in Channels, PublishRead(t, v, channel)
      PROVE  /\ pc'[t] = "approval" /\ UNCHANGED tables /\ UNCHANGED reviews
             /\ call'[t].version \in Versions
             /\ versions[call'[t].version].status = "approved"
             /\ seen'[t].row = versions[call'[t].version]
  BY <1>3 DEF PublishRead, Begin, TypeOK, NoCall, NothingSeen
<1>4. ASSUME NEW u \in Tasks, Return(u) PROVE Same
  BY <1>4 DEF Return, TypeOK
<1>5. ASSUME NEW u \in Tasks,
             Create(u) \/ Review(u) \/ Publish(u) \/ Revoke(u) \/ Deliver(u) \/ Abort(u)
      PROVE  Return(u)
  BY <1>5 DEF Create, Review, Publish, Revoke, Deliver, Abort
<1>6. ASSUME NEW u \in Tasks, PublishLookup(u), u # t PROVE Same
  BY <1>6 DEF PublishLookup, TypeOK
<1>7. ASSUME PublishLookup(t)
      PROVE  /\ pc[t] = "approval" /\ pc'[t] = "publish"
             /\ call'[t] = call[t] /\ seen'[t].row = seen[t].row
             /\ seen'[t].previous = PublishedIn(call[t].channel, call[t].version)
  BY <1>7 DEF PublishLookup, TypeOK, Seen
<1>8. ASSUME UNCHANGED tasks PROVE Same
  BY <1>8 DEF tasks
<1>9. ASSUME NEW r, Build(r) \/ Damage(r) PROVE UNCHANGED tasks
  BY <1>9 DEF Build, Damage
<1>10. CASE Same
  BY <1>10
<1> HIDE DEF Same
<1> QED
  BY StepCases, <1>1, <1>2, <1>3, <1>4, <1>5, <1>6, <1>7, <1>8, <1>9, <1>10 DEF vars

\* No row is without its channel again, and none that a publication has read.
LEMMA StepChannel == TypeOK /\ ChannelInv /\ [Next]_vars => ChannelInv'
<1> SUFFICES ASSUME TypeOK, ChannelInv, [Next]_vars PROVE ChannelInv'
  OBVIOUS
<1>1. ASSUME NEW v \in Versions, versions'[v].status = "none"
      PROVE  versions'[v].channel = Unpublished
  <2>1. versions[v].status = "none" /\ versions'[v] = versions[v]
    <3>1. ASSUME NEW t \in Tasks, Create(t) PROVE versions'[v] = versions[v]
      BY <1>1, <3>1 DEF Create, TypeOK
    <3>2. ASSUME NEW t \in Tasks, Review(t) PROVE versions[v].status = "none"
                                                /\ versions'[v] = versions[v]
      BY <1>1, <3>2 DEF Review, Written, Verdict, TypeOK, Version
    <3>3. ASSUME NEW t \in Tasks, Publish(t) PROVE versions'[v] = versions[v]
      BY <1>1, <3>3 DEF Publish, Promoted, TypeOK, Version
    <3>4. ASSUME NEW t \in Tasks, Revoke(t) PROVE versions'[v] = versions[v]
      BY <1>1, <3>4 DEF Revoke, TypeOK, Version
    <3> QED
      BY <1>1, StepCases, <3>1, <3>2, <3>3, <3>4
         DEF CreateRead, ReviewRead, PublishRead, RevokeRead, DeliverRead, PublishLookup,
             Deliver, Abort, Build, Damage, tables, vars
  <2> QED
    BY <2>1 DEF ChannelInv
<1>2. ASSUME NEW t \in Tasks, pc'[t] \in {"approval", "publish"},
             seen'[t].row.channel # Unpublished
      PROVE  versions'[call'[t].version].channel # Unpublished
  <2>1. CASE /\ pc[t] \in {"approval", "publish"}
             /\ call'[t] = call[t] /\ seen'[t].row = seen[t].row
    <3>1. call[t].version \in Versions /\ versions[call[t].version].channel # Unpublished
      BY <1>2, <2>1 DEF ChannelInv, TypeOK
    <3> QED
      BY <2>1, <3>1, ChannelKept
  <2>2. CASE /\ UNCHANGED tables
             /\ seen'[t].row = versions[call'[t].version]
    BY <1>2, <2>2 DEF tables
  <2> QED
    BY <1>2, <2>1, <2>2, StepPublishers
<1> QED
  BY <1>1, <1>2 DEF ChannelInv

\* The channel a publication leaves in the row is the one it records, or one that
\* was recorded before.
LEMMA PublishRecords ==
  ASSUME TypeOK, AuditInv, NEW t \in Tasks, Publish(t)
  PROVE  Recorded("published", call[t].version, versions'[call[t].version].channel) \in audit'
<1> DEFINE v == call[t].version
<1>0. v \in Versions /\ versions[v] \in Version /\ call[t].channel \in Channels
  BY DEF Publish, TypeOK
<1>1. versions'[v].channel = Written(seen[t].row.channel, call[t].channel, versions[v].channel)
  BY <1>0 DEF Publish, Promoted, Version
<1>2. CASE versions'[v].channel = call[t].channel
  BY <1>2 DEF Publish
<1>3. CASE versions'[v].channel = versions[v].channel /\ seen[t].row.channel = call[t].channel
  <2>1. seen[t].row.channel # Unpublished
    BY <1>0, <1>3, NamesAssumption
  <2>2. versions[v].channel # Unpublished
    BY <2>1 DEF Publish, AuditInv, ChannelInv
  <2> QED
    BY <1>0, <1>3, <2>2 DEF AuditInv, Publish
<1> QED
  BY <1>1, <1>2, <1>3 DEF Written

\* Every channel in a row was recorded.
LEMMA StepRecorded ==
  ASSUME TypeOK, AuditInv, [Next]_vars, NEW v \in Versions, versions'[v].channel # Unpublished
  PROVE  Recorded("published", v, versions'[v].channel) \in audit'
<1>1. CASE versions'[v].channel = versions[v].channel
  BY <1>1, AuditGrows DEF AuditInv
<1>2. CASE versions'[v].channel # versions[v].channel
  <2>1. ASSUME NEW t \in Tasks, Create(t) PROVE FALSE
    BY <1>2, <2>1 DEF Create, TypeOK
  <2>2. ASSUME NEW t \in Tasks, Review(t) \/ Revoke(t) PROVE FALSE
    BY <1>2, <2>2 DEF Review, Revoke, TypeOK, Version
  <2>3. ASSUME NEW t \in Tasks, Publish(t) PROVE v = call[t].version
    BY <1>2, <2>3 DEF Publish, Promoted, TypeOK, Version
  <2> QED
    BY <1>2, StepCases, <2>1, <2>2, <2>3, PublishRecords
       DEF CreateRead, ReviewRead, PublishRead, RevokeRead, DeliverRead, PublishLookup,
           Deliver, Abort, Build, Damage, tables, vars
<1> QED
  BY <1>1, <1>2

\* The rows account for the statuses after the step too.
LEMMA StepTells == TypeOK /\ AuditInv /\ [Next]_vars => AuditTells'
<1> SUFFICES ASSUME TypeOK, AuditInv, [Next]_vars PROVE AuditTells'
  OBVIOUS
\* A version's row is as before, or its new status is not one to account for, or
\* the step recorded it.
<1> DEFINE Told(v) ==
      \/ versions'[v] = versions[v]
      \/ versions'[v].status \in {"none", "draft"}
      \/ /\ HappenedThen(versions'[v].status, v)
         /\ versions'[v].status = "published" =>
              Recorded("published", v, versions'[v].channel) \in audit'
<1>1. ASSUME \A v \in Versions : Told(v) PROVE AuditTells'
  <2> SUFFICES ASSUME NEW v \in Versions
               PROVE  /\ versions'[v].status \in {"approved", "published", "deprecated",
                                                  "revoked"} => HappenedThen(versions'[v].status, v)
                      /\ versions'[v].status = "published" =>
                           Recorded("published", v, versions'[v].channel) \in audit'
    BY DEF AuditTells, Happened, HappenedThen
  <2>1. CASE versions'[v] = versions[v]
    BY <2>1, HappenedStays, AuditGrows DEF AuditInv, AuditTells
  <2>2. CASE versions'[v].status \in {"none", "draft"}
    BY <2>2
  <2>3. CASE /\ HappenedThen(versions'[v].status, v)
             /\ versions'[v].status = "published" =>
                  Recorded("published", v, versions'[v].channel) \in audit'
    BY <2>3
  <2> QED
    BY <1>1, <2>1, <2>2, <2>3
<1>2. ASSUME NEW t \in Tasks, Create(t), NEW v \in Versions PROVE Told(v)
  BY <1>2 DEF Create, TypeOK
<1>3. ASSUME NEW t \in Tasks, Review(t), NEW v \in Versions PROVE Told(v)
  <2> DEFINE new == Written(seen[t].row.status, Verdict(call[t].decision), versions[v].status)
  <2>1. CASE v # call[t].version
    BY <1>3, <2>1 DEF Review, TypeOK
  <2>2. CASE v = call[t].version
    <3>1. versions'[v] = [versions[v] EXCEPT !.status = new] /\ versions[v] \in Version
      BY <1>3, <2>2 DEF Review, TypeOK
    <3>2. new = versions[v].status \/ new = Verdict(call[t].decision)
      BY DEF Written
    <3>3. CASE new = versions[v].status
      BY <3>1, <3>3 DEF Version
    <3>4. CASE new = "draft"
      BY <3>1, <3>4 DEF Version
    <3>5. CASE new = "approved" /\ call[t].decision = "approved"
      <4>1. Recorded("approved", v, Unpublished) \in audit'
        BY <1>3, <2>2, <3>5 DEF Review
      <4>2. HappenedThen("approved", v)
        BY <4>1 DEF HappenedThen, Recorded
      <4> QED
        BY <3>1, <3>5, <4>2 DEF Version
    <3> QED
      BY <3>2, <3>3, <3>4, <3>5 DEF Verdict
  <2> QED
    BY <2>1, <2>2
<1>4. ASSUME NEW t \in Tasks, Publish(t), NEW v \in Versions PROVE Told(v)
  <2>0. call[t].version \in Versions /\ versions[v] \in Version
    BY <1>4 DEF Publish, TypeOK
  <2>1. CASE v = call[t].version
    <3>1. versions'[v].status = "published"
      BY <1>4, <2>0, <2>1 DEF Publish, Promoted, Version
    <3>2. Recorded("published", v, versions'[v].channel) \in audit'
      BY <1>4, <2>1, PublishRecords
    <3>3. HappenedThen("published", v)
      BY <3>2 DEF HappenedThen, Recorded
    <3> QED
      BY <3>1, <3>2, <3>3
  <2>2. CASE v # call[t].version /\ v \in seen[t].previous
    <3>1. versions'[v].status = "deprecated"
      BY <1>4, <2>0, <2>2 DEF Publish, Promoted, Version
    <3>2. Recorded("deprecated", v, call[t].channel) \in audit'
      BY <1>4, <2>2 DEF Publish, Demotions
    <3>3. HappenedThen("deprecated", v)
      BY <3>2 DEF HappenedThen, Recorded
    <3> QED
      BY <3>1, <3>3
  <2>3. CASE v # call[t].version /\ v \notin seen[t].previous
    BY <1>4, <2>3 DEF Publish, Promoted
  <2> QED
    BY <2>1, <2>2, <2>3
<1>5. ASSUME NEW t \in Tasks, Revoke(t), NEW v \in Versions PROVE Told(v)
  <2>1. CASE v # call[t].version
    BY <1>5, <2>1 DEF Revoke, TypeOK
  <2>2. CASE v = call[t].version
    <3>1. versions'[v].status = "revoked"
      BY <1>5, <2>2 DEF Revoke, TypeOK, Version
    <3>2. Recorded("revoked", v, seen[t].row.channel) \in audit'
      BY <1>5, <2>2 DEF Revoke
    <3>3. HappenedThen("revoked", v)
      BY <3>2 DEF HappenedThen, Recorded
    <3> QED
      BY <3>1, <3>3
  <2> QED
    BY <2>1, <2>2
<1>6. ASSUME UNCHANGED versions PROVE \A v \in Versions : Told(v)
  BY <1>6
<1> HIDE DEF Told
<1> QED
  BY StepCases, <1>1, <1>2, <1>3, <1>4, <1>5, <1>6
     DEF CreateRead, ReviewRead, PublishRead, RevokeRead, DeliverRead, PublishLookup,
         Deliver, Abort, Build, Damage, tables, vars

\* A task that publishes or delivers after the step did so before, or has just read
\* a row whose status was accounted for.
LEMMA StepReaders ==
  ASSUME TypeOK, AuditInv, [Next]_vars, NEW t \in Tasks,
         pc'[t] \in {"approval", "publish", "deliver"}
  PROVE  /\ HappenedThen("approved", call'[t].version)
         /\ pc'[t] = "deliver" => HappenedThen("published", call'[t].version)
<1> DEFINE Same == /\ call'[t] = call[t] /\ pc[t] \in {"approval", "publish", "deliver"}
                   /\ pc'[t] = "deliver" => pc[t] = "deliver"
<1>1. ASSUME Same
      PROVE  /\ HappenedThen("approved", call'[t].version)
             /\ pc'[t] = "deliver" => HappenedThen("published", call'[t].version)
  <2>1. Happened("approved", call[t].version)
    BY <1>1 DEF AuditInv
  <2>2. pc'[t] = "deliver" => Happened("published", call[t].version)
    BY <1>1 DEF AuditInv
  <2> QED
    BY <1>1, <2>1, <2>2, HappenedStays
<1>2. ASSUME NEW u \in Tasks, NEW v \in Versions, DeliverRead(u, v)
      PROVE  /\ HappenedThen("approved", call'[t].version)
             /\ pc'[t] = "deliver" => HappenedThen("published", call'[t].version)
  <2>1. CASE u # t
    <3>1. Same
      BY <1>2, <2>1 DEF DeliverRead, Begin, TypeOK
    <3> QED
      BY <1>1, <3>1
  <2>2. CASE u = t
    <3>1. call'[t].version = v /\ versions[v].status = "published"
      BY <1>2, <2>2 DEF DeliverRead, Deliverable, Begin, TypeOK, NoCall
    <3>2. Happened("published", v) /\ Happened("approved", v)
      BY <3>1 DEF AuditInv, AuditTells
    <3> QED
      BY <3>1, <3>2, HappenedStays
  <2> QED
    BY <2>1, <2>2
<1>3. ASSUME NEW u \in Tasks, NEW v \in Versions, NEW channel \in Channels,
             PublishRead(u, v, channel)
      PROVE  /\ HappenedThen("approved", call'[t].version)
             /\ pc'[t] = "deliver" => HappenedThen("published", call'[t].version)
  <2>1. CASE u # t
    <3>1. Same
      BY <1>3, <2>1 DEF PublishRead, Begin, TypeOK
    <3> QED
      BY <1>1, <3>1
  <2>2. CASE u = t
    <3>1. call'[t].version = v /\ versions[v].status = "approved" /\ pc'[t] = "approval"
      BY <1>3, <2>2 DEF PublishRead, Begin, TypeOK, NoCall
    <3>2. Happened("approved", v)
      BY <3>1 DEF AuditInv, AuditTells
    <3> QED
      BY <3>1, <3>2, HappenedStays
  <2> QED
    BY <2>1, <2>2
<1>4. ASSUME NEW u \in Tasks, NEW v \in Versions,
             \/ CreateRead(u, v) \/ RevokeRead(u, v)
             \/ \E decision \in Decisions : ReviewRead(u, v, decision)
      PROVE  Same
  BY <1>4 DEF CreateRead, RevokeRead, ReviewRead, Begin, TypeOK
<1>5. ASSUME NEW u \in Tasks, Return(u) \/ PublishLookup(u) PROVE Same
  BY <1>5 DEF Return, PublishLookup, TypeOK
<1>6. ASSUME NEW u \in Tasks,
             Create(u) \/ Review(u) \/ Publish(u) \/ Revoke(u) \/ Deliver(u) \/ Abort(u)
      PROVE  Return(u)
  BY <1>6 DEF Create, Review, Publish, Revoke, Deliver, Abort
<1>7. ASSUME UNCHANGED tasks PROVE Same
  BY <1>7 DEF tasks
<1>8. ASSUME NEW r, Build(r) \/ Damage(r) PROVE UNCHANGED tasks
  BY <1>8 DEF Build, Damage
<1> HIDE DEF Same
<1> QED
  BY StepCases, <1>1, <1>2, <1>3, <1>4, <1>5, <1>6, <1>7, <1>8 DEF vars

LEMMA StepAudit == TypeOK /\ AuditInv /\ [Next]_vars => AuditInv'
<1> SUFFICES ASSUME TypeOK, AuditInv, [Next]_vars PROVE AuditInv'
  OBVIOUS
<1>1. ASSUME NEW v \in Versions, HappenedThen("published", v) PROVE HappenedThen("approved", v)
  <2>1. CASE Happened("published", v)
    BY <2>1, HappenedStays DEF AuditInv
  <2>2. CASE ~Happened("published", v)
    <3>1. PICK e \in audit' : e.action = "published" /\ e.version = v
      BY <1>1 DEF HappenedThen
    <3>2. e \notin audit
      BY <2>2, <3>1 DEF Happened
    <3>3. PICK t \in Tasks : Publish(t) \/ Create(t) \/ Review(t) \/ Revoke(t)
      BY <3>2, StepCases
         DEF CreateRead, ReviewRead, PublishRead, RevokeRead, DeliverRead, PublishLookup,
             Deliver, Abort, Build, Damage, tables, vars
    <3>4. ~Create(t) /\ ~Revoke(t)
      BY <3>1, <3>2 DEF Create, Revoke, Recorded
    <3>5. ~Review(t)
      BY <3>1, <3>2 DEF Review, Recorded, TypeOK, Decisions
    <3>6. Publish(t)
      BY <3>3, <3>4, <3>5
    <3>7. call[t].version = v
      <4>1. e \notin Demotions(call[t].channel, seen[t].previous)
        BY <3>1 DEF Recorded, Demotions
      <4>2. \E channel : e = Recorded("published", call[t].version, channel)
        BY <3>1, <3>2, <3>6, <4>1 DEF Publish
      <4> QED
        BY <3>1, <4>2 DEF Recorded
    <3>8. Happened("approved", v)
      BY <3>6, <3>7 DEF Publish, AuditInv
    <3> QED
      BY <3>8, HappenedStays
  <2> QED
    BY <2>1, <2>2
<1>2. ASSUME NEW d \in delivered'
      PROVE  HappenedThen("approved", d.version) /\ HappenedThen("published", d.version)
  <2>1. CASE d \in delivered
    BY <2>1, HappenedStays DEF AuditInv, DeliveredWasApproved
  <2>2. CASE d \notin delivered
    <3>1. PICK t \in Tasks : Deliver(t)
      BY <2>2, <1>2, StepCases
         DEF CreateRead, ReviewRead, PublishRead, RevokeRead, DeliverRead, PublishLookup,
             Create, Review, Publish, Revoke, Abort, Build, Damage, vars
    <3>2. d.version = call[t].version /\ pc[t] = "deliver"
      BY <2>2, <1>2, <3>1 DEF Deliver
    <3> QED
      BY <3>2, HappenedStays DEF AuditInv
  <2> QED
    BY <2>1, <2>2
<1>3. ASSUME NEW v \in Versions, Happened("published", v)' PROVE Happened("approved", v)'
  BY <1>1, <1>3 DEF Happened, HappenedThen
<1>4. DeliveredWasApproved'
  BY <1>2 DEF DeliveredWasApproved, Happened, HappenedThen
<1>5. ASSUME NEW t \in Tasks, pc'[t] \in {"approval", "publish", "deliver"}
      PROVE  /\ Happened("approved", call[t].version)'
             /\ pc'[t] = "deliver" => Happened("published", call[t].version)'
  BY <1>5, StepReaders DEF Happened, HappenedThen
<1>6. AuditTells'
  BY StepTells
<1>7. ChannelInv'
  BY StepChannel DEF AuditInv
<1>8. ASSUME NEW v \in Versions, versions'[v].channel # Unpublished
      PROVE  (Recorded("published", v, versions[v].channel) \in audit)'
  BY <1>8, StepRecorded DEF Recorded
<1> QED
  BY <1>3, <1>4, <1>5, <1>6, <1>7, <1>8 DEF AuditInv

LEMMA InitAudit == Init => AuditInv
  BY DEF Init, AuditInv, AuditTells, ChannelInv, DeliveredWasApproved, Happened, NoRow

\* The audit rows account for every status, whatever overtakes what.
THEOREM AuditTellsHolds == Spec => []AuditTells
<1>1. AuditInv => AuditTells
  BY DEF AuditInv
<1> QED
  BY <1>1, InitAudit, StepAudit, TypeCorrect, PTL DEF Spec

\* Nothing is delivered that was not approved and published.
THEOREM DeliveredWasApprovedHolds == Spec => []DeliveredWasApproved
<1>1. AuditInv => DeliveredWasApproved
  BY DEF AuditInv
<1> QED
  BY <1>1, InitAudit, StepAudit, TypeCorrect, PTL DEF Spec

-----------------------------------------------------------------------------
(* The reviews of a version *)

\* Approvals are only added.
LEMMA ApprovalsGrow ==
  ASSUME TypeOK, [Next]_vars, NEW v \in Versions
  PROVE  approvals[v] \subseteq approvals'[v]
<1>1. ASSUME NEW t \in Tasks, Review(t) PROVE approvals[v] \subseteq approvals'[v]
  BY <1>1 DEF Review, TypeOK
<1> QED
  BY StepCases, <1>1
     DEF CreateRead, ReviewRead, PublishRead, RevokeRead, DeliverRead, PublishLookup,
         Create, Publish, Revoke, Deliver, Abort, Build, Damage, tables, vars

\* A task that reviews after the step did so before, or has just begun.
LEMMA StepReviewers ==
  ASSUME TypeOK, [Next]_vars, NEW t \in Tasks, pc'[t] = "review"
  PROVE  \/ pc[t] = "review" /\ call'[t] = call[t] /\ seen'[t] = seen[t]
         \/ /\ seen'[t].at = reviews + 1 /\ reviews' = reviews + 1
            /\ UNCHANGED approvals /\ call'[t].version \in Versions
            /\ \A u \in Tasks \ {t} : pc'[u] = pc[u] /\ seen'[u] = seen[u]
<1> DEFINE Same == pc[t] = "review" /\ call'[t] = call[t] /\ seen'[t] = seen[t]
<1>1. ASSUME NEW u \in Tasks, NEW v \in Versions,
             \/ CreateRead(u, v) \/ RevokeRead(u, v) \/ DeliverRead(u, v)
             \/ \E channel \in Channels : PublishRead(u, v, channel)
      PROVE  Same
  BY <1>1 DEF CreateRead, RevokeRead, DeliverRead, PublishRead, Begin, TypeOK
<1>2. ASSUME NEW u \in Tasks, NEW v \in Versions, NEW decision \in Decisions,
             ReviewRead(u, v, decision), u # t
      PROVE  Same
  BY <1>2 DEF ReviewRead, Begin, TypeOK
<1>3. ASSUME NEW v \in Versions, NEW decision \in Decisions, ReviewRead(t, v, decision)
      PROVE  /\ seen'[t].at = reviews + 1 /\ reviews' = reviews + 1
             /\ UNCHANGED approvals /\ call'[t].version \in Versions
             /\ \A u \in Tasks \ {t} : pc'[u] = pc[u] /\ seen'[u] = seen[u]
  BY <1>3 DEF ReviewRead, Begin, TypeOK, tables, NoCall, NothingSeen
<1>4. ASSUME NEW u \in Tasks, Return(u) \/ PublishLookup(u) PROVE Same
  BY <1>4 DEF Return, PublishLookup, TypeOK
<1>5. ASSUME NEW u \in Tasks,
             Create(u) \/ Review(u) \/ Publish(u) \/ Revoke(u) \/ Deliver(u) \/ Abort(u)
      PROVE  Return(u)
  BY <1>5 DEF Create, Review, Publish, Revoke, Deliver, Abort
<1>6. ASSUME UNCHANGED tasks PROVE Same
  BY <1>6 DEF tasks
<1>7. ASSUME NEW r, Build(r) \/ Damage(r) PROVE UNCHANGED tasks
  BY <1>7 DEF Build, Damage
<1>8. CASE Same
  BY <1>8
<1> HIDE DEF Same
<1> QED
  BY StepCases, <1>1, <1>2, <1>3, <1>4, <1>5, <1>6, <1>7, <1>8 DEF vars

\* An approval that the step adds is that of the review it completes.
LEMMA NewApproval ==
  ASSUME TypeOK, [Next]_vars, NEW v \in Versions, NEW a \in approvals'[v], a \notin approvals[v]
  PROVE  \E t \in Tasks : /\ Review(t) /\ pc[t] = "review" /\ pc'[t] = "idle"
                         /\ call[t].version = v /\ a.at = seen[t].at
                         /\ UNCHANGED reviews
<1>1. PICK t \in Tasks : Review(t)
  BY StepCases
     DEF CreateRead, ReviewRead, PublishRead, RevokeRead, DeliverRead, PublishLookup,
         Create, Publish, Revoke, Deliver, Abort, Build, Damage, tables, vars
<1>2. pc[t] = "review" /\ pc'[t] = "idle" /\ UNCHANGED reviews
  BY <1>1 DEF Review, Return, TypeOK
<1>3. call[t].version = v /\ a.at = seen[t].at
  BY <1>1 DEF Review, TypeOK
<1> QED
  BY <1>1, <1>2, <1>3

LEMMA StepReviews == TypeOK /\ ReviewsInv /\ [Next]_vars => ReviewsInv'
<1> SUFFICES ASSUME TypeOK, ReviewsInv, [Next]_vars PROVE ReviewsInv'
  OBVIOUS
<1>0. reviews \in Nat /\ reviews <= reviews'
  <2>1. reviews \in Nat
    BY DEF TypeOK
  <2>2. reviews' \in {reviews, reviews + 1}
    BY StepCases
       DEF CreateRead, ReviewRead, PublishRead, RevokeRead, DeliverRead, PublishLookup,
           Create, Review, Publish, Revoke, Deliver, Abort, Build, Damage, vars
  <2> QED
    BY <2>1, <2>2
<1>1. ASSUME NEW v \in Versions, NEW a \in approvals'[v] PROVE a.at <= reviews'
  <2>1. CASE a \in approvals[v]
    BY <1>0, <2>1, StepType DEF ReviewsInv, TypeOK, Approval
  <2>2. CASE a \notin approvals[v]
    BY <2>2, <1>1, NewApproval DEF ReviewsInv
  <2> QED
    BY <2>1, <2>2
<1>2. ASSUME NEW t \in Tasks, pc'[t] = "review"
      PROVE  /\ seen'[t].at <= reviews'
             /\ \A a \in approvals'[call'[t].version] : a.at # seen'[t].at
  <2>1. CASE pc[t] = "review" /\ call'[t] = call[t] /\ seen'[t] = seen[t]
    <3>1. seen'[t].at <= reviews'
      BY <1>0, <2>1, StepType DEF ReviewsInv, TypeOK, Seen
    <3>2. ASSUME NEW a \in approvals'[call[t].version] PROVE a.at # seen[t].at
      <4>1. call[t].version \in Versions
        BY <2>1 DEF TypeOK
      <4>2. CASE a \in approvals[call[t].version]
        BY <2>1, <4>2 DEF ReviewsInv
      <4>3. CASE a \notin approvals[call[t].version]
        BY <1>2, <2>1, <3>2, <4>1, <4>3, NewApproval DEF ReviewsInv
      <4> QED
        BY <4>2, <4>3
    <3> QED
      BY <2>1, <3>1, <3>2
  <2>2. CASE /\ seen'[t].at = reviews + 1 /\ reviews' = reviews + 1
             /\ UNCHANGED approvals /\ call'[t].version \in Versions
    <3>1. \A a \in approvals[call'[t].version] : a.at \in Nat /\ a.at <= reviews
      BY <2>2 DEF ReviewsInv, TypeOK, Approval
    <3> QED
      BY <1>0, <2>2, <3>1
  <2> QED
    BY <1>2, <2>1, <2>2, StepReviewers
<1>3. ASSUME NEW t \in Tasks, NEW u \in Tasks, pc'[t] = "review", pc'[u] = "review", t # u
      PROVE  seen'[t].at # seen'[u].at
  <2> DEFINE Old(w) == pc[w] = "review" /\ seen'[w] = seen[w]
             New(w) == /\ seen'[w].at = reviews + 1
                       /\ \A x \in Tasks \ {w} : pc'[x] = pc[x] /\ seen'[x] = seen[x]
  <2>1. (Old(t) \/ New(t)) /\ (Old(u) \/ New(u))
    BY <1>3, StepReviewers
  <2>2. ASSUME NEW w \in Tasks, Old(w) PROVE seen'[w].at \in Nat /\ seen'[w].at <= reviews
    BY <2>2 DEF ReviewsInv, TypeOK, Seen
  <2>3. CASE Old(t) /\ Old(u)
    BY <1>3, <2>3 DEF ReviewsInv
  <2>4. CASE New(t)
    BY <1>0, <1>3, <2>2, <2>4
  <2>5. CASE New(u)
    BY <1>0, <1>3, <2>2, <2>5
  <2> QED
    BY <2>1, <2>3, <2>4, <2>5
<1> QED
  BY <1>1, <1>2, <1>3 DEF ReviewsInv

-----------------------------------------------------------------------------
(* Channels stay served *)

\* The operators of the invariant in the next state.
EverInThen(channel) == {u \in Versions : Recorded("published", u, channel) \in audit'}
ReconsideredThen(v) == \E a, b \in approvals'[v] : a.at # b.at
WithdrawnThen(v, channel) ==
  \/ HappenedThen("revoked", v)
  \/ ReconsideredThen(v)
  \/ \E other \in Channels \ {channel} : v \in EverInThen(other)
ServedThen(channel) ==
  \/ \E v \in Versions : versions'[v].status = "published" /\ versions'[v].channel = channel
  \/ \E v \in EverInThen(channel) : WithdrawnThen(v, channel)

\* What took a version out of a channel stays true.
LEMMA WithdrawnStays ==
  ASSUME TypeOK, [Next]_vars
  PROVE  /\ \A v \in Versions : Reconsidered(v) => ReconsideredThen(v)
         /\ \A channel : EverIn(channel) \subseteq EverInThen(channel)
         /\ \A v \in Versions :
              \A channel : Withdrawn(v, channel) => WithdrawnThen(v, channel)
<1>1. ASSUME NEW v \in Versions, Reconsidered(v) PROVE ReconsideredThen(v)
  BY <1>1, ApprovalsGrow DEF Reconsidered, ReconsideredThen
<1>2. ASSUME NEW channel PROVE EverIn(channel) \subseteq EverInThen(channel)
  BY AuditGrows DEF EverIn, EverInThen
<1>3. ASSUME NEW v \in Versions, NEW channel, Withdrawn(v, channel)
      PROVE  WithdrawnThen(v, channel)
  BY <1>1, <1>2, <1>3, HappenedStays DEF Withdrawn, WithdrawnThen
<1> QED
  BY <1>1, <1>2, <1>3

\* A review of a version that had one makes it reconsidered.
LEMMA ReviewReconsiders ==
  ASSUME TypeOK, ReviewsInv, NEW t \in Tasks, Review(t), approvals[call[t].version] # {}
  PROVE  ReconsideredThen(call[t].version)
<1> DEFINE v == call[t].version
           new == [at |-> seen[t].at, decision |-> call[t].decision]
<1>1. v \in Versions /\ approvals'[v] = approvals[v] \cup {new}
  BY DEF Review, TypeOK
<1>2. PICK a \in approvals[v] : TRUE
  OBVIOUS
<1>3. a.at # new.at
  BY <1>2 DEF Review, ReviewsInv
<1> HIDE DEF new
<1> QED
  BY <1>1, <1>2, <1>3 DEF ReconsideredThen

\* Only a publication records one.
LEMMA OnlyPublish ==
  ASSUME TypeOK, [Next]_vars, NEW channel, NEW v \in EverInThen(channel), v \notin EverIn(channel)
  PROVE  \E t \in Tasks : Publish(t) /\ call[t].version = v /\ call[t].channel = channel
<1> DEFINE e == Recorded("published", v, channel)
<1>1. e \in audit' /\ e \notin audit /\ e.action = "published"
  BY DEF EverIn, EverInThen, Recorded
<1>2. ASSUME NEW t \in Tasks, Create(t) PROVE FALSE
  BY <1>1, <1>2 DEF Create, Recorded
<1>3. ASSUME NEW t \in Tasks, Review(t) PROVE FALSE
  BY <1>1, <1>3 DEF Review, Recorded, TypeOK, Decisions
<1>4. ASSUME NEW t \in Tasks, Revoke(t) PROVE FALSE
  BY <1>1, <1>4 DEF Revoke, Recorded
<1>5. PICK t \in Tasks : Publish(t)
  BY <1>1, <1>2, <1>3, <1>4, StepCases
     DEF CreateRead, ReviewRead, PublishRead, RevokeRead, DeliverRead, PublishLookup,
         Deliver, Abort, Build, Damage, tables, vars
<1>6. e \notin Demotions(call[t].channel, seen[t].previous)
  BY <1>1 DEF Demotions, Recorded
<1>7. e = Recorded("published", call[t].version, call[t].channel)
  BY <1>1, <1>5, <1>6 DEF Publish
<1> QED
  BY <1>5, <1>7 DEF Recorded

\* A publication serves its own channel, and what it takes from another channel it
\* publishes here.
LEMMA PublishServes ==
  ASSUME TypeOK, AuditInv, ServedInv, [Next]_vars, NEW t \in Tasks, Publish(t),
         NEW channel \in Channels, EverInThen(channel) # {}
  PROVE  ServedThen(channel)
<1> DEFINE v == call[t].version
<1>0. /\ v \in Versions /\ versions[v] \in Version /\ call[t].channel \in Channels
      /\ pc[t] = "publish" /\ v \in EverInThen(call[t].channel)
  BY DEF Publish, TypeOK, EverInThen
<1>1. CASE channel = call[t].channel
  <2>1. /\ versions'[v].status = "published"
        /\ versions'[v].channel = Written(seen[t].row.channel, channel, versions[v].channel)
    BY <1>0, <1>1 DEF Publish, Promoted, Version
  <2>2. CASE versions'[v].channel = channel
    BY <1>0, <2>1, <2>2 DEF ServedThen
  <2>3. CASE seen[t].row.channel = channel
    <3>1. Reconsidered(v)
      BY <1>0, <2>3, NamesAssumption DEF ServedInv
    <3> QED
      BY <1>0, <1>1, <3>1, WithdrawnStays DEF WithdrawnThen, ServedThen
  <2> QED
    BY <2>1, <2>2, <2>3 DEF Written
<1>2. CASE channel # call[t].channel
  <2>1. EverIn(channel) # {}
    <3>1. PICK w \in EverInThen(channel) : TRUE
      OBVIOUS
    <3>2. w \in EverIn(channel)
      <4>1. Recorded("published", w, channel) \in audit'
        BY DEF EverInThen
      <4>2. Recorded("published", w, channel) \notin Demotions(call[t].channel, seen[t].previous)
        BY DEF Demotions, Recorded
      <4>3. Recorded("published", w, channel) # Recorded("published", v, call[t].channel)
        BY <1>2 DEF Recorded
      <4> QED
        BY <4>1, <4>2, <4>3 DEF Publish, EverIn, EverInThen
    <3> QED
      BY <3>2
  <2>2. CASE \E w \in EverIn(channel) : Withdrawn(w, channel)
    BY <2>2, WithdrawnStays DEF ServedThen, EverIn
  <2>3. ASSUME NEW w \in Versions, versions[w].status = "published",
               versions[w].channel = channel
        PROVE  ServedThen(channel)
    <3>1. w \in EverIn(channel)
      BY <2>3 DEF AuditInv, AuditTells, EverIn
    <3>2. ASSUME w \in EverInThen(call[t].channel) PROVE ServedThen(channel)
      BY <1>0, <1>2, <3>1, <3>2, WithdrawnStays DEF ServedThen, WithdrawnThen
    <3>3. CASE w = v
      BY <1>0, <3>2, <3>3
    <3>4. CASE w \in seen[t].previous
      BY <1>0, <3>2, <3>4, WithdrawnStays DEF ServedInv
    <3>5. CASE w # v /\ w \notin seen[t].previous
      <4>1. versions'[w] = versions[w]
        BY <3>5 DEF Publish, Promoted
      <4> QED
        BY <2>3, <4>1 DEF ServedThen
    <3> QED
      BY <3>3, <3>4, <3>5
  <2> QED
    BY <2>1, <2>2, <2>3 DEF ServedInv, ChannelStaysServed
<1> QED
  BY <1>1, <1>2

\* No other step empties a channel without a withdrawal.
LEMMA StepServes ==
  ASSUME TypeOK, AuditInv, ReviewsInv, ServedInv, [Next]_vars,
         NEW channel \in Channels, EverInThen(channel) # {}
  PROVE  ServedThen(channel)
<1>1. CASE \E t \in Tasks : Publish(t)
  BY <1>1, PublishServes
<1>2. CASE ~\E t \in Tasks : Publish(t)
  <2>1. EverIn(channel) # {}
    BY <1>2, OnlyPublish
  <2>2. CASE \E w \in EverIn(channel) : Withdrawn(w, channel)
    BY <2>2, WithdrawnStays DEF ServedThen, EverIn
  <2>3. ASSUME NEW w \in Versions, versions[w].status = "published",
               versions[w].channel = channel
        PROVE  ServedThen(channel)
    <3>0. w \in EverInThen(channel)
      BY <2>3, WithdrawnStays DEF AuditInv, AuditTells, EverIn
    <3>1. ASSUME versions'[w] = versions[w] PROVE ServedThen(channel)
      BY <2>3, <3>1 DEF ServedThen
    <3>2. ASSUME NEW t \in Tasks, Create(t) PROVE versions'[w] = versions[w]
      BY <2>3, <3>2 DEF Create, TypeOK
    <3>3. ASSUME NEW t \in Tasks, Review(t) PROVE ServedThen(channel)
      <4>1. CASE w # call[t].version
        BY <3>1, <3>3, <4>1 DEF Review, TypeOK
      <4>2. CASE w = call[t].version
        <5>1. approvals[w] # {}
          BY <2>3, NamesAssumption DEF ServedInv
        <5> QED
          BY <3>0, <3>3, <4>2, <5>1, ReviewReconsiders DEF ServedThen, WithdrawnThen
      <4> QED
        BY <4>1, <4>2
    <3>4. ASSUME NEW t \in Tasks, Revoke(t) PROVE ServedThen(channel)
      <4>1. CASE w # call[t].version
        BY <3>1, <3>4, <4>1 DEF Revoke, TypeOK
      <4>2. CASE w = call[t].version
        <5>1. Recorded("revoked", w, seen[t].row.channel) \in audit'
          BY <3>4, <4>2 DEF Revoke
        <5>2. HappenedThen("revoked", w)
          BY <5>1 DEF HappenedThen, Recorded
        <5> QED
          BY <3>0, <5>2 DEF ServedThen, WithdrawnThen
      <4> QED
        BY <4>1, <4>2
    <3> QED
      BY <1>2, StepCases, <3>1, <3>2, <3>3, <3>4
         DEF CreateRead, ReviewRead, PublishRead, RevokeRead, DeliverRead, PublishLookup,
             Deliver, Abort, Build, Damage, tables, vars
  <2> QED
    BY <2>1, <2>2, <2>3 DEF ServedInv, ChannelStaysServed
<1> QED
  BY <1>1, <1>2

LEMMA StepServed ==
  TypeOK /\ AuditInv /\ ReviewsInv /\ ServedInv /\ [Next]_vars => ServedInv'
<1> SUFFICES ASSUME TypeOK, AuditInv, ReviewsInv, ServedInv, [Next]_vars PROVE ServedInv'
  OBVIOUS
\* A row with a channel has been reviewed, and twice if it is not published any more
\* for a review.
<1>1. ASSUME NEW v \in Versions, versions'[v].channel # Unpublished
      PROVE  /\ approvals'[v] # {}
             /\ versions'[v].status \in {"draft", "approved"} => ReconsideredThen(v)
  <2>1. CASE versions'[v] = versions[v]
    BY <1>1, <2>1, ApprovalsGrow, WithdrawnStays DEF ServedInv
  <2>2. ASSUME NEW t \in Tasks, Create(t) PROVE versions'[v] = versions[v]
    BY <1>1, <2>2 DEF Create, TypeOK
  <2>3. ASSUME NEW t \in Tasks, Review(t), v = call[t].version
        PROVE  approvals'[v] # {} /\ ReconsideredThen(v)
    <3>1. versions[v].channel # Unpublished
      BY <1>1, <2>3 DEF Review, TypeOK, Version
    <3>2. approvals[v] # {}
      BY <3>1 DEF ServedInv
    <3> QED
      BY <2>3, <3>2, ReviewReconsiders, ApprovalsGrow
  <2>4. ASSUME NEW t \in Tasks, Review(t), v # call[t].version PROVE versions'[v] = versions[v]
    BY <2>4 DEF Review, TypeOK
  <2>5. ASSUME NEW t \in Tasks, Publish(t), v = call[t].version
        PROVE  approvals'[v] # {} /\ versions'[v].status = "published"
    <3>1. approvals[v] # {}
      BY <2>5 DEF Publish, ServedInv
    <3>2. versions'[v].status = "published"
      BY <2>5 DEF Publish, Promoted, TypeOK, Version
    <3> QED
      BY <3>1, <3>2, ApprovalsGrow
  <2>6. ASSUME NEW t \in Tasks, Publish(t) \/ Revoke(t),
               \/ versions'[v].status \in {"deprecated", "revoked"}
               \/ versions'[v] = versions[v]
        PROVE  /\ approvals'[v] # {}
               /\ versions'[v].status \in {"draft", "approved"} => ReconsideredThen(v)
    <3>1. CASE versions'[v] = versions[v]
      BY <2>1, <3>1
    <3>2. CASE versions'[v] # versions[v] /\ versions'[v].status \in {"deprecated", "revoked"}
      <4>1. \/ versions[v].channel = versions'[v].channel
            \/ Publish(t) /\ v = call[t].version
        BY <2>6, <3>2 DEF Publish, Promoted, Revoke, TypeOK, Version
      <4>2. CASE versions[v].channel = versions'[v].channel
        BY <1>1, <3>2, <4>2, ApprovalsGrow DEF ServedInv
      <4> QED
        BY <3>2, <4>1, <4>2, <2>5
    <3> QED
      BY <2>6, <3>1, <3>2
  <2>7. ASSUME NEW t \in Tasks, Publish(t), v # call[t].version
        PROVE  versions'[v].status = "deprecated" \/ versions'[v] = versions[v]
    BY <2>7 DEF Publish, Promoted, TypeOK, Version
  <2>8. ASSUME NEW t \in Tasks, Revoke(t)
        PROVE  versions'[v].status = "revoked" \/ versions'[v] = versions[v]
    BY <2>8 DEF Revoke, TypeOK, Version
  <2> QED
    BY StepCases, <2>1, <2>2, <2>3, <2>4, <2>5, <2>6, <2>7, <2>8
       DEF CreateRead, ReviewRead, PublishRead, RevokeRead, DeliverRead, PublishLookup,
           Deliver, Abort, Build, Damage, tables, vars
<1>2. ASSUME NEW t \in Tasks, pc'[t] \in {"approval", "publish"},
             seen'[t].row.channel # Unpublished
      PROVE  ReconsideredThen(call'[t].version)
  <2>1. CASE /\ pc[t] \in {"approval", "publish"}
             /\ call'[t] = call[t] /\ seen'[t].row = seen[t].row
    <3>1. call[t].version \in Versions /\ Reconsidered(call[t].version)
      BY <1>2, <2>1 DEF ServedInv, TypeOK
    <3> QED
      BY <2>1, <3>1, WithdrawnStays
  <2>2. CASE /\ call'[t].version \in Versions
             /\ versions[call'[t].version].status = "approved"
             /\ seen'[t].row = versions[call'[t].version]
    <3>1. Reconsidered(call'[t].version)
      BY <1>2, <2>2 DEF ServedInv
    <3> QED
      BY <2>2, <3>1, WithdrawnStays
  <2> QED
    BY <1>2, <2>1, <2>2, StepPublishers
<1>3. ASSUME NEW t \in Tasks, pc'[t] = "publish"
      PROVE  /\ approvals'[call'[t].version] # {}
             /\ seen'[t].previous \subseteq EverInThen(call'[t].channel)
  <2>1. CASE pc[t] = "publish" /\ call'[t] = call[t] /\ seen'[t] = seen[t]
    <3>1. call[t].version \in Versions
      BY <2>1 DEF TypeOK
    <3>2. approvals[call[t].version] # {} /\ seen[t].previous \subseteq EverIn(call[t].channel)
      BY <2>1 DEF ServedInv
    <3> QED
      BY <2>1, <3>1, <3>2, ApprovalsGrow, WithdrawnStays
  <2>2. CASE /\ PublishLookup(t) /\ call'[t] = call[t]
             /\ seen'[t].previous = PublishedIn(call[t].channel, call[t].version)
    <3>1. call[t].version \in Versions /\ approvals[call[t].version] # {}
      BY <2>2 DEF PublishLookup, LatestApproves, TypeOK
    <3>2. PublishedIn(call[t].channel, call[t].version) \subseteq EverIn(call[t].channel)
      BY DEF PublishedIn, EverIn, AuditInv, AuditTells
    <3> QED
      BY <2>2, <3>1, <3>2, ApprovalsGrow, WithdrawnStays
  <2> QED
    BY <1>3, <2>1, <2>2, StepPublishers
<1>4. ChannelStaysServed'
  BY StepServes
     DEF ChannelStaysServed, EverIn, EverInThen, ServedThen, Withdrawn, WithdrawnThen,
         Happened, HappenedThen, Reconsidered, ReconsideredThen, Recorded
<1> QED
  BY <1>1, <1>2, <1>3, <1>4
     DEF ServedInv, Reconsidered, ReconsideredThen, EverIn, EverInThen, Recorded

LEMMA InitServed == Init => ReviewsInv /\ ServedInv
  BY DEF Init, ReviewsInv, ServedInv, ChannelStaysServed, EverIn, NoRow

\* A channel that was published to is left empty by a withdrawal only, however many
\* publications, reviews and revocations overlap.
THEOREM ChannelStaysServedHolds == Spec => []ChannelStaysServed
<1>1. ServedInv => ChannelStaysServed
  BY DEF ServedInv
<1> QED
  BY <1>1, InitAudit, StepAudit, InitServed, StepReviews, StepServed, TypeCorrect, PTL
     DEF Spec
=============================================================================
