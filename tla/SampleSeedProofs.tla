--------------------------- MODULE SampleSeedProofs ---------------------------
(***************************************************************************)
(* What holds of SampleSeed for any number of bootstraps, requests,        *)
(* samples and releases.  The argument is about the organization's row: a  *)
(* bootstrap past FindOrganization holds it until it ends, so nobody else  *)
(* changes a file, or the release of a row, in the meantime.               *)
(***************************************************************************)
EXTENDS SampleSeed, TLAPS

-----------------------------------------------------------------------------
(* Types *)

\* The parts of a transaction can be replaced one by one.
LEMMA TransactionFields ==
  ASSUME NEW x \in Transaction
  PROVE  /\ \A D \in SUBSET Samples : [x EXCEPT !.designs = D] \in Transaction
         /\ \A C \in SUBSET Thing : [x EXCEPT !.created = C] \in Transaction
         /\ \A S \in SUBSET Samples : [x EXCEPT !.seeded = S] \in Transaction
         /\ \A s \in Samples, v \in Version : [x EXCEPT !.rows[s] = v] \in Transaction
  BY DEF Transaction

\* Transaction x with the row of sample s, and what was created and seeded by then.
With(x, s, v, C, S) == [x EXCEPT !.rows[s] = v, !.created = C, !.seeded = S]

LEMMA RowWritten ==
  ASSUME NEW x \in Transaction, NEW s \in Samples, NEW v \in Version,
         NEW C \in SUBSET Thing, NEW S \in SUBSET Samples
  PROVE  With(x, s, v, C, S) \in Transaction
  BY DEF Transaction, With

LEMMA Constants ==
  /\ NoVersion \in Version /\ Unwritten \in Version /\ Nothing \in Transaction /\ NoAsk \in Ask
  /\ 1 \in Samples /\ Count \in Samples
  /\ \A s \in Samples : s # Count => s + 1 \in Samples
  /\ \A s \in Samples : <<"version", s>> \in Thing
  /\ <<"organization", 0>> \in Thing /\ <<"membership", 0>> \in Thing
  /\ \A s \in Samples : Language(s) \subseteq Samples
  BY CountsAssumption
  DEF NoVersion, Unwritten, Nothing, NoAsk, Version, Transaction, Ask, Samples, Thing, Language

\* The state stays in its types, whatever bootstraps and requests overlap and end.
THEOREM TypeCorrect == Spec => []TypeOK
<1> USE CountsAssumption, ReleasesAssumption, TasksAssumption
<1>1. Init => TypeOK
  <2> SUFFICES ASSUME Init PROVE TypeOK
    OBVIOUS
  <2>1. /\ organization \in {"none", "development", "other"} /\ member \in BOOLEAN
        /\ designs \in [Samples -> {"none", "seeded", "edited"}]
        /\ versions \in [Samples -> Version] /\ newer \in SUBSET Samples
        /\ files \in [Samples -> Releases \cup {0}]
    <3>1. CASE Fresh
      BY <3>1, Constants DEF Fresh
    <3>2. ASSUME NEW r \in Earlier, SeededBy(r)
          PROVE  /\ versions \in [Samples -> Version] /\ newer \in SUBSET Samples
                 /\ r \in Releases
      <4>1. r \in Releases
        OBVIOUS
      <4>2. PICK status \in [Samples -> {"published", "deprecated", "revoked"}] :
              /\ versions = [s \in Samples |-> [status |-> status[s], release |-> r]]
              /\ newer \in SUBSET {s \in Samples : status[s] # "published"}
        BY <3>2 DEF SeededBy
      <4>3. \A s \in Samples : [status |-> status[s], release |-> r] \in Version
        BY <4>1 DEF Version
      <4> QED
        BY <4>1, <4>2, <4>3
    <3>3. ASSUME NEW r \in Earlier, SeededBy(r) 
          PROVE  /\ organization = "development" /\ member = TRUE
                 /\ designs \in [Samples -> {"none", "seeded", "edited"}]
                 /\ versions \in [Samples -> Version] /\ newer \in SUBSET Samples
                 /\ files \in [Samples -> Releases \cup {0}]
      BY <3>2, <3>3 DEF SeededBy
    <3> QED
      BY <3>1, <3>3 DEF Init
  <2>0. seen \in [Bootstraps -> Version]
    BY Constants DEF Init
  <2>2. trans \in [Bootstraps -> Transaction] /\ at \in [Bootstraps -> Samples]
    BY Constants DEF Init
  <2>3. ask \in [Requests -> Ask]
    BY Constants DEF Init
  <2>4. \A p \in Bootstraps \cup Requests : pc[p] = "idle"
    BY DEF Init
  <2>5. pc \in [Bootstraps \cup Requests -> {"idle"} \cup Starting \cup Locked \cup Asking \cup Ended]
    BY DEF Init
  <2> QED
    BY <2>0, <2>1, <2>2, <2>3, <2>4, <2>5, Constants DEF Init, TypeOK, Asking
<1>2. TypeOK /\ [Next]_vars => TypeOK'
  <2> SUFFICES ASSUME TypeOK, [Next]_vars
               PROVE  TypeOK'
    OBVIOUS
  <2> USE DEF Seeding, Locked, Asking, Ended, Starting, tables
  <2>1. ASSUME NEW b \in Bootstraps, Start(b) PROVE TypeOK'
    BY <2>1 DEF TypeOK, Start, Goto
  <2>2. ASSUME NEW b \in Bootstraps, NEW C \in SUBSET Thing PROVE [trans[b] EXCEPT !.created = C] \in Transaction
    BY TransactionFields DEF TypeOK
  <2>3. ASSUME NEW b \in Bootstraps, FindOrganization(b) PROVE TypeOK'
    <3>1. trans' \in [Bootstraps -> Transaction]
      <4>1. [trans[b] EXCEPT !.created = trans[b].created \cup {<<"organization", 0>>}] \in Transaction
        <5>1. trans[b].created \cup {<<"organization", 0>>} \in SUBSET Thing
          BY Constants DEF TypeOK, Transaction
        <5> QED
          BY <2>2, <5>1
      <4>2. \/ trans' = [trans EXCEPT ![b].created = trans[b].created \cup {<<"organization", 0>>}]
            \/ trans' = [trans EXCEPT ![b] = Nothing]
            \/ trans' = trans
        BY <2>3 DEF FindOrganization, TypeOK
      <4> QED
        BY <4>1, <4>2, Constants DEF TypeOK
    <3> QED
      BY <2>3, <3>1 DEF FindOrganization, TypeOK, Goto
  <2>4. ASSUME NEW b \in Bootstraps, InsertOrganization(b) PROVE TypeOK'
    <3>1. trans' \in [Bootstraps -> Transaction]
      <4>1. [trans[b] EXCEPT !.created = trans[b].created \ {<<"organization", 0>>}] \in Transaction
        <5>1. trans[b].created \ {<<"organization", 0>>} \in SUBSET Thing
          BY DEF TypeOK, Transaction
        <5> QED
          BY <2>2, <5>1
      <4> QED
        BY <2>4, <4>1 DEF InsertOrganization, TypeOK
    <3> QED
      BY <2>4, <3>1 DEF InsertOrganization, TypeOK, Goto
  <2>5. ASSUME NEW b \in Bootstraps, Enroll(b) PROVE TypeOK'
    <3>1. trans' \in [Bootstraps -> Transaction]
      <4>1. [trans[b] EXCEPT !.created = IF member THEN trans[b].created
                                         ELSE trans[b].created \cup {<<"membership", 0>>}] \in Transaction
        <5>1. trans[b].created \in SUBSET Thing /\ trans[b].created \cup {<<"membership", 0>>} \in SUBSET Thing
          BY Constants DEF TypeOK, Transaction
        <5> QED
          BY <2>2, <5>1
      <4> QED
        BY <2>5, <4>1 DEF Enroll, TypeOK
    <3> QED
      BY <2>5, <3>1 DEF Enroll, TypeOK, Goto
  <2>6. ASSUME NEW b \in Bootstraps, SeedDesigns(b) PROVE TypeOK'
    <3>1. trans' \in [Bootstraps -> Transaction]
      <4>1. [trans[b] EXCEPT !.designs = trans[b].designs \cup {s \in Language(at[b]) : designs[s] = "none"}]
              \in Transaction
        <5>1. trans[b].designs \cup {s \in Language(at[b]) : designs[s] = "none"} \in SUBSET Samples
          BY Constants DEF TypeOK, Transaction
        <5>2. trans[b] \in Transaction
          BY DEF TypeOK
        <5> QED
          BY <5>1, <5>2, TransactionFields
      <4> QED
        BY <2>6, <4>1 DEF SeedDesigns, TypeOK
    <3> QED
      BY <2>6, <3>1 DEF SeedDesigns, TypeOK, Goto
  <2>7. ASSUME NEW b \in Bootstraps, WriteArtifact(b) PROVE TypeOK'
    BY <2>7 DEF WriteArtifact, TypeOK, Goto
  <2>8. ASSUME NEW b \in Bootstraps, ReadRow(b) PROVE TypeOK'
    BY <2>8, Constants DEF ReadRow, TypeOK, Goto
  <2>9. ASSUME NEW b \in Bootstraps, InsertRow(b) \/ UpdateRow(b) PROVE TypeOK'
    <3>1. Resynced(b) \in Version /\ [status |-> "published", release |-> ReleaseOf[b]] \in Version
      BY DEF Version, Resynced
    <3>2. trans'[b] \in Transaction /\ \A c \in Bootstraps : c # b => trans'[c] = trans[c]
      <4>1. /\ trans[b] \in Transaction /\ at[b] \in Samples
            /\ trans[b].seeded \cup {at[b]} \in SUBSET Samples
            /\ trans[b].created \cup {<<"version", at[b]>>} \in SUBSET Thing
        <5>1. trans[b] \in Transaction /\ at[b] \in Samples
          BY DEF TypeOK
        <5>2. trans[b].seeded \in SUBSET Samples /\ trans[b].created \in SUBSET Thing
          BY <5>1 DEF Transaction
        <5>3. <<"version", at[b]>> \in Thing
          BY <5>1, Constants
        <5> QED
          BY <5>1, <5>2, <5>3
      <4>2. \A v \in Version, C \in SUBSET Thing, S \in SUBSET Samples :
              With(trans[b], at[b], v, C, S) \in Transaction
        BY <4>1, RowWritten
      <4>3. ASSUME InsertRow(b) PROVE trans'[b] \in Transaction
        <5>1. trans'[b] = With(trans[b], at[b], [status |-> "published", release |-> ReleaseOf[b]],
                               trans[b].created \cup {<<"version", at[b]>>},
                               trans[b].seeded \cup {at[b]})
          BY <4>1, <4>3 DEF InsertRow, TypeOK, Transaction, With
        <5> QED
          BY <3>1, <4>1, <4>2, <5>1
      <4>4. ASSUME UpdateRow(b) PROVE trans'[b] \in Transaction
        <5>1. trans'[b] = [trans[b] EXCEPT !.rows[at[b]] = Resynced(b),
                                           !.seeded = trans[b].seeded \cup {at[b]}]
          BY <4>1, <4>4 DEF UpdateRow, TypeOK
        <5>2. [trans[b] EXCEPT !.rows[at[b]] = Resynced(b),
                               !.seeded = trans[b].seeded \cup {at[b]}] \in Transaction
          BY <3>1, <4>1 DEF Transaction
        <5> QED
          BY <5>1, <5>2
      <4> QED
        BY <2>9, <4>3, <4>4 DEF InsertRow, UpdateRow, TypeOK
    <3>3. trans' \in [Bootstraps -> Transaction]
      BY <2>9, <3>2 DEF InsertRow, UpdateRow, TypeOK
    <3>4. at' \in [Bootstraps -> Samples] /\ \E label \in {"commit", "designs", "artifact"} : Goto(b, label)
      BY <2>9, Constants DEF InsertRow, UpdateRow, TypeOK, Advance
    <3>5. rowlock' \in [Samples -> Bootstraps \cup Requests \cup {NoTask}]
      BY <2>9 DEF InsertRow, UpdateRow, TypeOK
    <3> QED
      BY <2>9, <3>3, <3>4, <3>5 DEF InsertRow, UpdateRow, TypeOK, Goto
  <2>9a. ASSUME NEW b \in Bootstraps, Flush(b) PROVE TypeOK'
    BY <2>9a DEF Flush, Dirty, TypeOK
  <2>10. ASSUME NEW b \in Bootstraps, Rollback(b) PROVE TypeOK'
    BY <2>10, Constants DEF Rollback, Unlock, TypeOK, Goto
  <2>11. ASSUME NEW b \in Bootstraps, Commit(b) PROVE TypeOK'
    <3>1. versions' \in [Samples -> Version]
      <4>1. \A s \in Samples : trans[b].rows[s] \in Version /\ versions[s] \in Version
        BY DEF TypeOK, Transaction
      <4>2. \A v, x \in Version : Updated(v, x) \in Version
        BY DEF Updated, Version
      <4> QED
        BY <2>11, <4>1, <4>2 DEF Commit
    <3>2. designs' \in [Samples -> {"none", "seeded", "edited"}]
      BY <2>11 DEF Commit, TypeOK
    <3> QED
      BY <2>11, <3>1, <3>2 DEF Commit, Unlock, TypeOK, Goto
  <2>12. ASSUME NEW u \in Requests, Call(u) PROVE TypeOK'
    BY <2>12 DEF Call, TypeOK, Goto, Ask
  <2>13. ASSUME NEW u \in Requests, WriteRow(u) PROVE TypeOK'
    <3>1. ask' \in [Requests -> Ask] /\ \A v \in Requests : v # u => ask'[v] = ask[v]
      BY <2>13, Constants DEF WriteRow, Forget, TypeOK
    <3>2. pc'[u] = "audit" => ask'[u] = ask[u] /\ ask[u].kind # "none"
      BY <2>13 DEF WriteRow, TypeOK, Goto
    <3> QED
      BY <2>13, <3>1, <3>2 DEF WriteRow, TypeOK, Goto
  <2>14. ASSUME NEW u \in Requests, Audit(u) PROVE TypeOK'
    <3>1. ask[u].sample \in Samples /\ ask[u] \in Ask
      BY DEF TypeOK, Ask
    <3>2. versions' \in [Samples -> Version]
      <4> DEFINE v(status) == [versions[ask[u].sample] EXCEPT !.status = status]
      <4>1. \A status \in {"none", "published", "deprecated", "revoked", "taken", "unwritten"} :
              v(status) \in Version
        BY <3>1 DEF TypeOK, Version
      <4>2. PICK status \in {versions[ask[u].sample].status, "revoked", "deprecated", "taken"} :
              versions' = [versions EXCEPT ![ask[u].sample].status = status]
        BY <2>14 DEF Audit
      <4>3. versions[ask[u].sample].status \in
              {"none", "published", "deprecated", "revoked", "taken", "unwritten"}
        BY <3>1 DEF TypeOK, Version
      <4> QED
        BY <3>1, <4>1, <4>2, <4>3 DEF TypeOK
    <3>3. newer' \in SUBSET Samples
      BY <2>14, <3>1 DEF Audit, TypeOK
    <3>4. ask' \in [Requests -> Ask] /\ \A v \in Requests : v # u => ask'[v] = ask[v]
      BY <2>14, Constants DEF Audit, Forget, TypeOK
    <3> QED
      BY <2>14, <3>2, <3>3, <3>4 DEF Audit, Unlock, TypeOK, Goto
  <2>15. ASSUME NEW u \in Requests, CancelRequest(u) PROVE TypeOK'
    <3>1. ask' \in [Requests -> Ask] /\ \A v \in Requests : v # u => ask'[v] = ask[v]
      BY <2>15, Constants DEF CancelRequest, Forget, TypeOK
    <3> QED
      BY <2>15, <3>1 DEF CancelRequest, Unlock, TypeOK, Goto
  <2>16. ASSUME NEW s \in Samples, ChangeDesign(s) PROVE TypeOK'
    BY <2>16 DEF ChangeDesign, TypeOK
  <2>17. CASE UNCHANGED vars
    BY <2>17 DEF vars, TypeOK
  <2> QED
    BY <2>1, <2>3, <2>4, <2>5, <2>6, <2>7, <2>8, <2>9, <2>9a, <2>10, <2>11, <2>12, <2>13, <2>14, <2>15,
       <2>16, <2>17 DEF Next, Step, Serve, Collide, Abort, Detect
<1> QED
  BY <1>1, <1>2, PTL DEF Spec

-----------------------------------------------------------------------------
(* Rows and files *)

\* The release that the row of sample s names once b commits.
Result(b, s) == Updated(versions[s], trans[b].rows[s]).release

\* What bootstrap b has done so far, if it holds the organization's row: samples 1, 2, ...
\* are of its release, the others untouched.
Work(b) ==
  /\ pc[b] \in Locked => holder = b
  /\ pc[b] \in {"idle"} \cup Starting =>
       trans[b].seeded = {} /\ \A s \in Samples : trans[b].rows[s] = Unwritten
  /\ pc[b] \in Locked =>
       \A s \in Samples :
         /\ s \in trans[b].seeded => files[s] = ReleaseOf[b] /\ Result(b, s) = ReleaseOf[b]
         /\ s \notin trans[b].seeded => trans[b].rows[s] = Unwritten
         /\ trans[b].rows[s].status # "none"
         /\ s \in trans[b].seeded /\ trans[b].rows[s].status = "unwritten" =>
              versions[s].status # "none"
  /\ pc[b] = "member" => trans[b].seeded = {}
  /\ pc[b] \in {"member"} \cup Seeding => trans[b].seeded = 1 .. (at[b] - 1)
  /\ pc[b] = "commit" => trans[b].seeded \in {{}, Samples}
  /\ pc[b] \in {"row", "write"} => files[at[b]] = ReleaseOf[b]
  /\ pc[b] = "write" /\ seen[b].status # "none" =>
       seen[b].release = versions[at[b]].release /\ versions[at[b]].status # "none"
  /\ pc[b] \in {"idle"} \cup Starting => at[b] = 1

SeedInv ==
  /\ FilesAgree /\ OneRelease
  /\ \A s \in Samples : versions[s].status = "none" => versions[s].release = 0
  /\ \A b \in Bootstraps : Work(b)

LEMMA SeedStep ==
  ASSUME TypeOK, TypeOK', SeedInv, [Next]_vars
  PROVE  SeedInv'
<1> USE CountsAssumption, ReleasesAssumption, TasksAssumption DEF Goto, tables
<1>1. Unwritten.status # "none" /\ Nothing.seeded = {} /\ \A s \in Samples : Nothing.rows[s] = Unwritten
  BY DEF Unwritten, Nothing
\* A bootstrap that does not move, while no release and no file changes.
<1>2. ASSUME NEW c \in Bootstraps,
             pc'[c] = pc[c], trans'[c] = trans[c], at'[c] = at[c], seen'[c] = seen[c],
             \/ pc[c] \notin Locked
             \/ /\ holder' = c
                /\ UNCHANGED files
                /\ \A s \in Samples :
                     /\ versions'[s].release = versions[s].release
                     /\ versions'[s].status = "none" => versions[s].status = "none"
      PROVE  Work(c)'
  <2>1. Work(c) /\ at[c] \in Samples
    BY DEF SeedInv, TypeOK
  <2> QED
    BY <1>2, <2>1 DEF Work, Result, Updated, Locked, Seeding, Starting
<1>3. \A b, c \in Bootstraps : pc[b] \in Locked /\ pc[c] \in Locked => b = c
  BY DEF SeedInv, Work
\* Only b moves, and takes or keeps the organization's row or releases it.
<1>4. ASSUME NEW b \in Bootstraps, UNCHANGED <<versions, files>>,
             torn \subseteq torn',
             \A c \in Bootstraps : c # b =>
               /\ pc'[c] = pc[c] /\ trans'[c] = trans[c] /\ at'[c] = at[c] /\ seen'[c] = seen[c],
             holder' # holder => holder \in {NoTask, b},
             Work(b)'
      PROVE  SeedInv'
  <2>1. \A c \in Bootstraps : c # b => Work(c)'
    BY <1>2, <1>4 DEF SeedInv, Work
  <2> QED
    BY <1>4, <2>1 DEF SeedInv, FilesAgree, OneRelease
\* b has written nothing yet.
<1>4a. ASSUME NEW b \in Bootstraps, pc[b] \in Starting, pc'[b] \in Starting \cup {"member"},
              pc'[b] = "member" => holder' = b,
              trans'[b].seeded = trans[b].seeded, trans'[b].rows = trans[b].rows,
              UNCHANGED <<at, seen, files, versions>>
       PROVE  Work(b)'
  <2>1. /\ trans'[b].seeded = {} /\ at'[b] = 1
        /\ \A s \in Samples : trans'[b].rows[s] = Unwritten
    BY <1>4a DEF SeedInv, Work
  <2>2. 1 .. (at'[b] - 1) = {}
    BY <2>1
  <2> QED
    BY <1>1, <1>4a, <2>1, <2>2 DEF Work, Locked, Seeding, Starting
<1>5. ASSUME NEW b \in Bootstraps, Start(b) PROVE SeedInv'
  <2>1. Work(b)'
    BY <1>5 DEF Start, SeedInv, Work, TypeOK, Locked, Seeding, Starting
  <2> QED
    BY <1>4, <1>5, <2>1 DEF Start, TypeOK
<1>6. ASSUME NEW b \in Bootstraps, FindOrganization(b) PROVE SeedInv'
  <2>1. Work(b)'
    <3>1. CASE pc'[b] = "failed"
      BY <3>1 DEF Work, Locked, Seeding, Starting
    <3>2. CASE pc'[b] # "failed"
      <4>1. /\ pc[b] = "find" /\ pc'[b] \in {"insert", "member"} /\ (pc'[b] = "member" => holder' = b)
            /\ trans'[b].seeded = trans[b].seeded /\ trans'[b].rows = trans[b].rows
            /\ UNCHANGED <<at, seen, files, versions>>
        BY <1>6, <3>2 DEF FindOrganization, TypeOK, Transaction
      <4> QED
        BY <1>4a, <4>1 DEF Starting
    <3> QED
      BY <3>1, <3>2
  <2>2. /\ UNCHANGED <<versions, files, torn, at, seen>> /\ (holder' # holder => holder \in {NoTask, b})
        /\ \A c \in Bootstraps : c # b => pc'[c] = pc[c] /\ trans'[c] = trans[c]
    BY <1>6 DEF FindOrganization, MayLock, TypeOK
  <2> QED
    BY <1>4, <2>1, <2>2
<1>7. ASSUME NEW b \in Bootstraps, InsertOrganization(b) PROVE SeedInv'
  <2>1. /\ pc[b] = "insert" /\ pc'[b] \in {"find", "member"} /\ (pc'[b] = "member" => holder' = b)
        /\ trans'[b].seeded = trans[b].seeded /\ trans'[b].rows = trans[b].rows
        /\ UNCHANGED <<at, seen, files, versions, torn>> /\ (holder' # holder => holder \in {NoTask, b})
        /\ \A c \in Bootstraps : c # b => pc'[c] = pc[c] /\ trans'[c] = trans[c]
    BY <1>7 DEF InsertOrganization, TypeOK, Transaction
  <2>2. Work(b)'
    BY <1>4a, <2>1 DEF Starting
  <2> QED
    BY <1>4, <2>1, <2>2
<1>8. ASSUME NEW b \in Bootstraps, Enroll(b) PROVE SeedInv'
  <2>1. /\ pc[b] = "member" /\ pc'[b] \in {"designs", "commit"}
        /\ trans'[b].seeded = trans[b].seeded /\ trans'[b].rows = trans[b].rows
        /\ UNCHANGED <<at, seen, files, versions, torn, holder>>
        /\ \A c \in Bootstraps : c # b => pc'[c] = pc[c] /\ trans'[c] = trans[c]
    BY <1>8 DEF Enroll, TypeOK, Transaction
  <2>2. Work(b)'
    BY <2>1 DEF SeedInv, Work, Result, Locked, Seeding, Starting
  <2> QED
    BY <1>4, <2>1, <2>2
<1>9. ASSUME NEW b \in Bootstraps, SeedDesigns(b) PROVE SeedInv'
  <2>1. /\ pc[b] = "designs" /\ pc'[b] = "artifact" /\ holder' = b /\ holder \in {NoTask, b}
        /\ trans'[b].seeded = trans[b].seeded /\ trans'[b].rows = trans[b].rows
        /\ UNCHANGED <<at, seen, files, versions, torn>>
        /\ \A c \in Bootstraps : c # b => pc'[c] = pc[c] /\ trans'[c] = trans[c]
    BY <1>9 DEF SeedDesigns, MayLock, TypeOK, Transaction
  <2>2. Work(b)'
    BY <2>1 DEF SeedInv, Work, Result, Locked, Seeding, Starting
  <2> QED
    BY <1>4, <2>1, <2>2
<1>10. ASSUME NEW b \in Bootstraps, WriteArtifact(b) PROVE SeedInv'
  <2>1. /\ pc[b] = "artifact" /\ pc'[b] = "row" /\ holder' = b /\ at[b] \in Samples
        /\ files' = [files EXCEPT ![at[b]] = ReleaseOf[b]]
        /\ torn' = (IF files[at[b]] = ReleaseOf[b] THEN torn ELSE torn \cup {at[b]})
        /\ UNCHANGED <<at, seen, versions, trans>>
        /\ \A c \in Bootstraps : c # b => pc'[c] = pc[c]
    BY <1>10 DEF WriteArtifact, TypeOK
  <2>2. Work(b)'
    BY <2>1 DEF SeedInv, Work, Result, Locked, Seeding, Starting, TypeOK, Samples
  <2>3. \A c \in Bootstraps : c # b => pc[c] \notin Locked
    BY <1>3, <2>1 DEF Locked, Seeding
  <2>4. \A c \in Bootstraps : c # b => Work(c)'
    BY <1>2, <2>1, <2>3
  <2>5. FilesAgree'
    BY <2>1 DEF SeedInv, FilesAgree, TypeOK
  <2> QED
    BY <2>1, <2>2, <2>4, <2>5 DEF SeedInv, OneRelease
<1>11. ASSUME NEW b \in Bootstraps, ReadRow(b) PROVE SeedInv'
  <2>1. /\ pc[b] = "row" /\ pc'[b] = "write"
        /\ seen'[b] = (IF versions[at[b]].status = "taken" THEN NoVersion ELSE versions[at[b]])
        /\ UNCHANGED <<at, files, versions, torn, holder, trans>>
        /\ \A c \in Bootstraps : c # b => pc'[c] = pc[c] /\ seen'[c] = seen[c]
    BY <1>11 DEF ReadRow, TypeOK
  <2>2. Work(b)'
    BY <2>1 DEF SeedInv, Work, Result, NoVersion, Locked, Seeding, Starting
  <2> QED
    BY <1>4, <2>1, <2>2
<1>12. ASSUME NEW b \in Bootstraps, InsertRow(b) \/ UpdateRow(b) PROVE SeedInv'
  <2>1. /\ pc[b] = "write" /\ at[b] \in Samples /\ files[at[b]] = ReleaseOf[b]
        /\ trans[b].seeded = 1 .. (at[b] - 1)
        /\ \A s \in Samples : trans[b].rows[s].status # "none"
        /\ trans[b].rows[at[b]] = Unwritten
    BY <1>12 DEF InsertRow, UpdateRow, SeedInv, Work, TypeOK, Locked, Seeding, Samples
  <2>2. /\ UNCHANGED <<files, versions, torn, holder, seen>>
        /\ trans'[b].seeded = 1 .. at[b]
        /\ \A s \in Samples : s # at[b] => trans'[b].rows[s] = trans[b].rows[s]
        /\ \A c \in Bootstraps : c # b => trans'[c] = trans[c]
    <3>1. trans[b].seeded \cup {at[b]} = 1 .. at[b]
      BY <2>1 DEF Samples
    <3>2. trans[b] \in Transaction /\ trans \in [Bootstraps -> Transaction]
      BY DEF TypeOK
    <3>3. trans'[b].seeded = trans[b].seeded \cup {at[b]}
      BY <1>12, <3>2 DEF InsertRow, UpdateRow, Transaction
    <3>4. \A s \in Samples : s # at[b] => trans'[b].rows[s] = trans[b].rows[s]
      <4>1. CASE InsertRow(b)
        BY <3>2, <4>1 DEF InsertRow, Transaction
      <4>2. CASE UpdateRow(b)
        BY <3>2, <4>2 DEF UpdateRow, Transaction
      <4> QED
        BY <1>12, <4>1, <4>2
    <3>5. \A c \in Bootstraps : c # b => trans'[c] = trans[c]
      BY <1>12, <3>2 DEF InsertRow, UpdateRow
    <3>6. UNCHANGED <<files, versions, torn, holder, seen>>
      BY <1>12 DEF InsertRow, UpdateRow
    <3> QED
      BY <3>1, <3>3, <3>4, <3>5, <3>6
  <2>3. /\ at'[b] = (IF at[b] = Count THEN Count ELSE at[b] + 1)
        /\ pc'[b] \in (IF at[b] = Count THEN {"commit"} ELSE {"designs", "artifact"})
        /\ \A c \in Bootstraps : c # b => pc'[c] = pc[c] /\ at'[c] = at[c]
    BY <1>12 DEF InsertRow, UpdateRow, Advance, TypeOK
  <2>4. \/ trans'[b].rows[at[b]] = [status |-> "published", release |-> ReleaseOf[b]]
        \/ trans'[b].rows[at[b]] = Resynced(b) /\ seen[b].status # "none"
    <3>1. trans[b] \in Transaction /\ trans \in [Bootstraps -> Transaction]
      BY DEF TypeOK
    <3>2. CASE InsertRow(b)
      BY <2>1, <3>1, <3>2 DEF InsertRow, Transaction
    <3>3. CASE UpdateRow(b)
      BY <2>1, <3>1, <3>3 DEF UpdateRow, Transaction
    <3> QED
      BY <1>12, <3>2, <3>3
  <2>5. /\ \A s \in Samples : s = at[b] => Result(b, s)' = ReleaseOf[b]
        /\ trans'[b].rows[at[b]].status # "none"
        /\ trans'[b].rows[at[b]].status = "unwritten" => versions'[at[b]].status # "none"
    <3>1. seen[b].status # "none" =>
            seen[b].release = versions[at[b]].release /\ versions[at[b]].status # "none"
      BY <2>1 DEF SeedInv, Work
    <3>2. versions'[at[b]] = versions[at[b]] /\ ReleaseOf[b] # 0
      BY <2>1, <2>2
    <3>3. LET x == trans'[b].rows[at[b]] IN
          /\ x.status # "none" /\ (x.status = "unwritten" => versions[at[b]].status # "none")
          /\ (IF x.release = 0 THEN versions[at[b]].release ELSE x.release) = ReleaseOf[b]
      BY <2>4, <3>1, <3>2 DEF Resynced
    <3>4. Updated(versions[at[b]], trans'[b].rows[at[b]]).release = ReleaseOf[b]
      BY <3>3 DEF Updated
    <3>5. \A s \in Samples : s = at[b] => Result(b, s)' = ReleaseOf[b]
      BY <3>2, <3>4 DEF Result
    <3> QED
      BY <3>2, <3>3, <3>5
  <2>6. Work(b)'
    <3>1. pc'[b] \in Locked /\ holder' = b
      BY <2>1, <2>2, <2>3 DEF SeedInv, Work, Locked, Seeding
    <3>2. ASSUME NEW s \in Samples
          PROVE  /\ s \in trans'[b].seeded => files'[s] = ReleaseOf[b] /\ Result(b, s)' = ReleaseOf[b]
                 /\ s \notin trans'[b].seeded => trans'[b].rows[s] = Unwritten
                 /\ trans'[b].rows[s].status # "none"
                 /\ s \in trans'[b].seeded /\ trans'[b].rows[s].status = "unwritten" =>
                      versions'[s].status # "none"
      <4>1. CASE s = at[b]
        <5>1. files'[s] = ReleaseOf[b] /\ s \in trans'[b].seeded
          BY <2>1, <2>2, <4>1 DEF Samples
        <5> QED
          BY <2>5, <4>1, <5>1
      <4>2. CASE s # at[b]
        <5>1. s \in trans'[b].seeded <=> s \in trans[b].seeded
          BY <2>1, <2>2, <4>2 DEF Samples
        <5>2. Result(b, s)' = Result(b, s)
          BY <2>2, <4>2 DEF Result
        <5>3. /\ s \in trans[b].seeded => files[s] = ReleaseOf[b] /\ Result(b, s) = ReleaseOf[b]
              /\ s \notin trans[b].seeded => trans[b].rows[s] = Unwritten
              /\ trans[b].rows[s].status # "none"
              /\ s \in trans[b].seeded /\ trans[b].rows[s].status = "unwritten" =>
                   versions[s].status # "none"
          BY <2>1 DEF SeedInv, Work, Locked, Seeding
        <5>4. files'[s] = files[s] /\ trans'[b].rows[s] = trans[b].rows[s] /\ versions'[s] = versions[s]
          BY <2>1, <2>2, <4>2
        <5> QED
          BY <5>1, <5>2, <5>3, <5>4
      <4> QED
        BY <4>1, <4>2
    <3>3. pc'[b] = "commit" => trans'[b].seeded = Samples
      BY <2>2, <2>3 DEF Samples
    <3>4. pc'[b] # "commit" => trans'[b].seeded = 1 .. (at'[b] - 1)
      BY <2>1, <2>2, <2>3 DEF Samples
    <3> QED
      BY <2>3, <3>1, <3>2, <3>3, <3>4 DEF Work, Locked, Seeding, Starting
  <2> QED
    BY <1>4, <2>2, <2>3, <2>6
<1>12a. ASSUME NEW b \in Bootstraps, Flush(b) PROVE SeedInv'
  <2>1. UNCHANGED <<versions, files, torn, holder, pc, at, seen, trans>>
    BY <1>12a DEF Flush
  <2>2. \A c \in Bootstraps : Work(c)'
    BY <1>2, <2>1 DEF SeedInv, Work
  <2> QED
    BY <2>1, <2>2 DEF SeedInv, FilesAgree, OneRelease
<1>13. ASSUME NEW b \in Bootstraps, Rollback(b) PROVE SeedInv'
  <2>1. /\ UNCHANGED <<files, versions, torn>> /\ pc'[b] = "failed"
        /\ holder' # holder => holder = b
        /\ \A c \in Bootstraps : c # b =>
             pc'[c] = pc[c] /\ trans'[c] = trans[c] /\ at'[c] = at[c] /\ seen'[c] = seen[c]
    BY <1>13 DEF Rollback, Unlock, TypeOK
  <2>2. Work(b)'
    BY <2>1 DEF Work, Locked, Seeding, Starting
  <2> QED
    BY <1>4, <2>1, <2>2
<1>14. ASSUME NEW b \in Bootstraps, Commit(b) PROVE SeedInv'
  <2>1. /\ pc[b] = "commit" /\ pc'[b] = "done" /\ UNCHANGED <<files, at, seen, trans>>
        /\ torn' = torn \ trans[b].seeded
        /\ \A c \in Bootstraps : c # b => pc'[c] = pc[c]
        /\ \A s \in Samples : versions'[s] = Updated(versions[s], trans[b].rows[s])
    BY <1>14 DEF Commit, TypeOK
  <2>2. \A c \in Bootstraps : c # b => Work(c)'
    <3>1. \A c \in Bootstraps : c # b => pc[c] \notin Locked
      BY <1>3, <2>1 DEF Locked
    <3> QED
      BY <1>2, <2>1, <3>1
  <2>3. Work(b)'
    BY <2>1 DEF Work, Locked, Seeding, Starting
  <2>4. /\ \A s \in Samples : versions'[s].release = Result(b, s)
        /\ \A s \in Samples : trans[b].rows[s].status # "none"
        /\ \A s \in Samples : s \in trans[b].seeded => files[s] = ReleaseOf[b] /\ Result(b, s) = ReleaseOf[b]
        /\ \A s \in Samples : s \notin trans[b].seeded => trans[b].rows[s] = Unwritten
        /\ \A s \in Samples : s \in trans[b].seeded /\ trans[b].rows[s].status = "unwritten" =>
             versions[s].status # "none"
        /\ trans[b].seeded \in {{}, Samples}
    BY <2>1 DEF SeedInv, Work, Result, Locked
  <2>5. CASE trans[b].seeded = {}
    <3>1. \A s \in Samples : versions'[s] = versions[s]
      <4>1. \A s \in Samples : versions[s] \in Version /\ Updated(versions[s], Unwritten) = versions[s]
        BY DEF TypeOK, Updated, Unwritten, Version
      <4> QED
        BY <2>1, <2>4, <2>5, <4>1
    <3> QED
      BY <2>1, <2>2, <2>3, <2>5, <3>1 DEF SeedInv, FilesAgree, OneRelease
  <2>6. CASE trans[b].seeded = Samples
    <3>1. \A s \in Samples : versions'[s].release = ReleaseOf[b] /\ files'[s] = ReleaseOf[b]
      BY <2>1, <2>4, <2>6
    <3>2. FilesAgree' /\ OneRelease'
      BY <3>1 DEF FilesAgree, OneRelease
    <3>3. \A s \in Samples : versions'[s].status = "none" => versions'[s].release = 0
      <4>1. \A v, x : Updated(v, x).status = IF x.status = "unwritten" THEN v.status ELSE x.status
        BY DEF Updated
      <4>2. \A s \in Samples : versions'[s].status # "none"
        BY <2>1, <2>4, <2>6, <4>1
      <4> QED
        BY <4>2
    <3> QED
      BY <2>2, <2>3, <3>2, <3>3 DEF SeedInv
  <2> QED
    BY <2>4, <2>5, <2>6
<1>15. ASSUME NEW u \in Requests, Call(u) \/ WriteRow(u) \/ CancelRequest(u) PROVE SeedInv'
  <2>1. /\ UNCHANGED <<versions, files, torn, holder, trans, at, seen>>
        /\ \A c \in Bootstraps : pc'[c] = pc[c]
    BY <1>15 DEF Call, WriteRow, CancelRequest, Unlock, TypeOK
  <2>2. \A c \in Bootstraps : Work(c)'
    BY <1>2, <2>1 DEF SeedInv, Work
  <2> QED
    BY <2>1, <2>2 DEF SeedInv, FilesAgree, OneRelease
<1>16. ASSUME NEW u \in Requests, Audit(u) PROVE SeedInv'
  <2>1. /\ UNCHANGED <<files, torn, holder, trans, at, seen>>
        /\ \A c \in Bootstraps : pc'[c] = pc[c]
        /\ ask[u].sample \in Samples
    BY <1>16 DEF Audit, Unlock, TypeOK, Ask, Asking
  <2>2. \A s \in Samples :
          /\ versions'[s].release = versions[s].release
          /\ versions'[s].status = "none" => versions[s].status = "none"
    BY <1>16, <2>1 DEF Audit, TypeOK, Version
  <2>3. \A c \in Bootstraps : Work(c)'
    BY <1>2, <2>1, <2>2 DEF SeedInv, Work
  <2> QED
    BY <2>1, <2>2, <2>3 DEF SeedInv, FilesAgree, OneRelease
<1>17. CASE UNCHANGED vars \/ \E s \in Samples : ChangeDesign(s)
  <2>1. UNCHANGED <<versions, files, torn, holder, trans, at, seen, pc>>
    BY <1>17 DEF vars, ChangeDesign
  <2>2. \A c \in Bootstraps : Work(c)'
    BY <1>2, <2>1 DEF SeedInv, Work
  <2> QED
    BY <2>1, <2>2 DEF SeedInv, FilesAgree, OneRelease
<1> QED
  BY <1>5, <1>6, <1>7, <1>8, <1>9, <1>10, <1>11, <1>12, <1>12a, <1>13, <1>14, <1>15, <1>16, <1>17
  DEF Next, Step, Serve, Collide, Abort, Detect

LEMMA SeedInit == Init => SeedInv
<1> SUFFICES ASSUME Init PROVE SeedInv
  OBVIOUS
<1>1. \A b \in Bootstraps : Work(b)
  BY CountsAssumption DEF Init, Work, Nothing, Locked, Seeding, Starting
<1>2. /\ FilesAgree /\ OneRelease
      /\ \A s \in Samples : versions[s].status = "none" => versions[s].release = 0
  <2>1. CASE Fresh
    BY <2>1 DEF Fresh, FilesAgree, OneRelease, NoVersion
  <2>2. ASSUME NEW r \in Earlier, SeededBy(r)
        PROVE  /\ FilesAgree /\ OneRelease
               /\ \A s \in Samples : versions[s].status # "none"
    <3>1. PICK status \in [Samples -> {"published", "deprecated", "revoked"}] :
            versions = [s \in Samples |-> [status |-> status[s], release |-> r]]
      BY <2>2 DEF SeededBy
    <3>2. \A s \in Samples : versions[s].release = r /\ versions[s].status = status[s] /\ files[s] = r
      BY <2>2, <3>1 DEF SeededBy
    <3> QED
      BY <3>2 DEF FilesAgree, OneRelease
  <2> QED
    BY <2>1, <2>2 DEF Init
<1> QED
  BY <1>1, <1>2 DEF SeedInv

\* A file that is not the package its row names was overwritten by a bootstrap that has not
\* committed: however many bootstraps, of whatever releases, run at once, fail or die.
THEOREM FilesAgreeHolds == Spec => []FilesAgree
<1>1. TypeOK /\ TypeOK' /\ SeedInv /\ [Next]_vars => SeedInv'
  BY SeedStep
<1>2. SeedInv => FilesAgree
  BY DEF SeedInv
<1> QED
  BY <1>1, <1>2, SeedInit, TypeCorrect, PTL DEF Spec

\* The sample versions are always those of one release, or none of them is there.
THEOREM OneReleaseHolds == Spec => []OneRelease
<1>1. TypeOK /\ TypeOK' /\ SeedInv /\ [Next]_vars => SeedInv'
  BY SeedStep
<1>2. SeedInv => OneRelease
  BY DEF SeedInv
<1> QED
  BY <1>1, <1>2, SeedInit, TypeCorrect, PTL DEF Spec

-----------------------------------------------------------------------------
(* What is reported as created *)

\* Whether what x names is there and committed; nothing of it is ever deleted.
Committed(x) ==
  /\ x[1] = "organization" => organization # "none"
  /\ x[1] = "membership" => member
  /\ x[1] = "version" => versions[x[2]].release # 0

\* What b reports was not there when it took the organization's row, and is there once
\* it has committed.
Report(b) ==
  /\ pc[b] \in {"idle", "find"} => trans[b].created = {}
  /\ pc[b] = "insert" => trans[b].created \subseteq {<<"organization", 0>>}
  /\ pc[b] \in Locked =>
       \A x \in trans[b].created : ~ Committed(x) /\ (x[1] = "version" => x[2] \in trans[b].seeded)
  /\ pc[b] = "done" => \A x \in trans[b].created : Committed(x)

CreatedInv == CreatedOnce /\ \A b \in Bootstraps : Report(b)

LEMMA CreatedStep ==
  ASSUME TypeOK, TypeOK', SeedInv, SeedInv', CreatedInv, [Next]_vars
  PROVE  CreatedInv'
<1> USE CountsAssumption, ReleasesAssumption, TasksAssumption DEF Goto, tables
<1>1. \A x \in Thing : \/ x = <<"organization", 0>> \/ x = <<"membership", 0>>
                       \/ \E s \in Samples : x = <<"version", s>>
  BY DEF Thing
<1>2. \A b \in Bootstraps : trans[b].created \subseteq Thing /\ trans'[b].created \subseteq Thing
  BY DEF TypeOK, Transaction
<1>3. \A b, c \in Bootstraps : pc[b] \in Locked /\ pc[c] \in Locked => b = c
  BY DEF SeedInv, Work
\* Only b moves, not to its end, and nothing is committed.
<1>4. ASSUME NEW b \in Bootstraps, UNCHANGED <<organization, member>>,
             \A s \in Samples : versions'[s].release = versions[s].release,
             \A c \in Bootstraps : c # b => pc'[c] = pc[c] /\ trans'[c] = trans[c],
             Report(b)', pc'[b] # "done"
      PROVE  CreatedInv'
  <2>1. \A x \in Thing : Committed(x)' <=> Committed(x)
    <3>1. \A s \in Samples : versions'[s].release # 0 <=> versions[s].release # 0
      BY <1>4
    <3> QED
      BY <1>1, <1>4, <3>1 DEF Committed
  <2>2. ASSUME NEW c \in Bootstraps, c # b PROVE Report(c)'
    <3>1. Report(c) /\ pc'[c] = pc[c] /\ trans'[c] = trans[c] /\ trans[c].created \subseteq Thing
      BY <1>2, <1>4, <2>2 DEF CreatedInv
    <3> QED
      BY <2>1, <3>1 DEF Report
  <2>3. CreatedOnce'
    <3>1. \A c \in Bootstraps : pc'[c] = "done" => pc[c] = "done" /\ trans'[c] = trans[c]
      BY <1>4
    <3> QED
      BY <3>1 DEF CreatedInv, CreatedOnce
  <2> QED
    BY <1>4, <2>2, <2>3 DEF CreatedInv
\* Nobody moves.
<1>5. ASSUME UNCHANGED <<organization, member, trans>>,
             \A c \in Bootstraps : pc'[c] = pc[c],
             \A s \in Samples : versions'[s].release = versions[s].release
      PROVE  CreatedInv'
  <2>1. \A x \in Thing : Committed(x)' <=> Committed(x)
    <3>1. \A s \in Samples : versions'[s].release # 0 <=> versions[s].release # 0
      BY <1>5
    <3> QED
      BY <1>1, <1>5, <3>1 DEF Committed
  <2>2. ASSUME NEW c \in Bootstraps PROVE Report(c)'
    <3>1. Report(c) /\ pc'[c] = pc[c] /\ trans'[c] = trans[c] /\ trans[c].created \subseteq Thing
      BY <1>2, <1>5 DEF CreatedInv
    <3> QED
      BY <2>1, <3>1 DEF Report
  <2> QED
    BY <1>5, <2>2 DEF CreatedInv, CreatedOnce
\* A step of b that reports nothing more.
<1>6. ASSUME NEW b \in Bootstraps, UNCHANGED <<organization, member, versions>>,
             pc[b] \in Locked, pc'[b] \in Locked,
             trans'[b].created = trans[b].created, trans[b].seeded \subseteq trans'[b].seeded
      PROVE  Report(b)'
  <2>1. \A x \in trans[b].created : ~ Committed(x) /\ (x[1] = "version" => x[2] \in trans[b].seeded)
    BY <1>6 DEF CreatedInv, Report
  <2>2. \A x : Committed(x)' <=> Committed(x)
    BY <1>6 DEF Committed
  <2> QED
    BY <1>6, <2>1, <2>2 DEF Report, Locked, Seeding
<1>7. ASSUME NEW b \in Bootstraps, Start(b) PROVE CreatedInv'
  <2>1. /\ pc[b] = "idle" /\ pc'[b] = "find" /\ UNCHANGED <<organization, member, versions, trans>>
        /\ \A c \in Bootstraps : c # b => pc'[c] = pc[c]
    BY <1>7 DEF Start, TypeOK
  <2>2. Report(b)'
    BY <2>1 DEF CreatedInv, Report, Locked, Seeding
  <2> QED
    BY <1>4, <2>1, <2>2
<1>8. ASSUME NEW b \in Bootstraps, FindOrganization(b) PROVE CreatedInv'
  <2>1. /\ pc[b] = "find" /\ pc'[b] \in {"insert", "member", "failed"}
        /\ UNCHANGED <<organization, member, versions>>
        /\ \A c \in Bootstraps : c # b => pc'[c] = pc[c] /\ trans'[c] = trans[c]
        /\ pc'[b] = "insert" => trans'[b].created = trans[b].created \cup {<<"organization", 0>>}
        /\ pc'[b] = "member" => trans'[b].created = trans[b].created
    BY <1>8 DEF FindOrganization, TypeOK, Transaction
  <2>2. Report(b)'
    BY <2>1 DEF CreatedInv, Report, Locked, Seeding
  <2> QED
    BY <1>4, <2>1, <2>2
<1>9. ASSUME NEW b \in Bootstraps, InsertOrganization(b) PROVE CreatedInv'
  <2>1. /\ pc[b] = "insert" /\ pc'[b] \in {"find", "member"}
        /\ UNCHANGED <<organization, member, versions>>
        /\ \A c \in Bootstraps : c # b => pc'[c] = pc[c] /\ trans'[c] = trans[c]
        /\ pc'[b] = "find" => trans'[b].created = trans[b].created \ {<<"organization", 0>>}
        /\ pc'[b] = "member" => trans'[b].created = trans[b].created /\ organization = "none"
    BY <1>9 DEF InsertOrganization, TypeOK, Transaction
  <2>2. Report(b)'
    BY <2>1 DEF CreatedInv, Report, Committed, Locked, Seeding
  <2> QED
    BY <1>4, <2>1, <2>2
<1>10. ASSUME NEW b \in Bootstraps, Enroll(b) PROVE CreatedInv'
  <2>1. /\ pc[b] = "member" /\ pc'[b] \in {"designs", "commit"}
        /\ UNCHANGED <<organization, member, versions>>
        /\ \A c \in Bootstraps : c # b => pc'[c] = pc[c] /\ trans'[c] = trans[c]
        /\ trans'[b].created =
             (IF member THEN trans[b].created ELSE trans[b].created \cup {<<"membership", 0>>})
        /\ trans'[b].seeded = trans[b].seeded
    BY <1>10 DEF Enroll, TypeOK, Transaction
  <2>2. Report(b)'
    BY <2>1 DEF CreatedInv, Report, Committed, Locked, Seeding
  <2> QED
    BY <1>4, <2>1, <2>2
<1>11. ASSUME NEW b \in Bootstraps, SeedDesigns(b) \/ WriteArtifact(b) \/ ReadRow(b) PROVE CreatedInv'
  <2>1. /\ pc[b] \in Locked /\ pc'[b] \in Locked /\ pc'[b] # "done"
        /\ UNCHANGED <<organization, member, versions>>
        /\ \A c \in Bootstraps : c # b => pc'[c] = pc[c] /\ trans'[c] = trans[c]
        /\ trans'[b].created = trans[b].created /\ trans'[b].seeded = trans[b].seeded
    BY <1>11 DEF SeedDesigns, WriteArtifact, ReadRow, TypeOK, Transaction, Locked, Seeding
  <2>2. Report(b)'
    BY <1>6, <2>1
  <2> QED
    BY <1>4, <2>1, <2>2
<1>12. ASSUME NEW b \in Bootstraps, InsertRow(b) PROVE CreatedInv'
  <2>1. /\ pc[b] = "write" /\ pc'[b] \in {"commit", "designs", "artifact"}
        /\ UNCHANGED <<organization, member, versions>>
        /\ \A c \in Bootstraps : c # b => pc'[c] = pc[c]
        /\ at[b] \in Samples /\ versions[at[b]].status = "none"
    BY <1>12 DEF InsertRow, Advance, TypeOK
  <2>2. /\ trans'[b].created = trans[b].created \cup {<<"version", at[b]>>}
        /\ trans'[b].seeded = trans[b].seeded \cup {at[b]}
        /\ \A c \in Bootstraps : c # b => trans'[c] = trans[c]
    BY <1>12 DEF InsertRow, TypeOK, Transaction
  <2>3. versions[at[b]].release = 0
    BY <2>1 DEF SeedInv
  <2>4. \A x \in trans[b].created : ~ Committed(x) /\ (x[1] = "version" => x[2] \in trans[b].seeded)
    BY <2>1 DEF CreatedInv, Report, Locked, Seeding
  <2>5. \A x : Committed(x)' <=> Committed(x)
    BY <2>1 DEF Committed
  <2>6. ~ Committed(<<"version", at[b]>>)
    BY <2>3 DEF Committed
  <2>7. \A x \in trans'[b].created : ~ Committed(x)' /\ (x[1] = "version" => x[2] \in trans'[b].seeded)
    BY <2>2, <2>4, <2>5, <2>6
  <2>8. Report(b)'
    BY <2>1, <2>7 DEF Report
  <2> QED
    BY <1>4, <2>1, <2>2, <2>8
<1>13. ASSUME NEW b \in Bootstraps, UpdateRow(b) PROVE CreatedInv'
  <2>1. /\ pc[b] \in Locked /\ pc'[b] \in Locked /\ pc'[b] # "done"
        /\ UNCHANGED <<organization, member, versions>>
        /\ \A c \in Bootstraps : c # b => pc'[c] = pc[c]
    BY <1>13 DEF UpdateRow, Advance, TypeOK, Locked, Seeding
  <2>2. /\ trans'[b].created = trans[b].created
        /\ trans'[b].seeded = trans[b].seeded \cup {at[b]}
        /\ \A c \in Bootstraps : c # b => trans'[c] = trans[c]
    BY <1>13 DEF UpdateRow, TypeOK, Transaction
  <2>3. Report(b)'
    BY <1>6, <2>1, <2>2
  <2> QED
    BY <1>4, <2>1, <2>2, <2>3
<1>13a. ASSUME NEW b \in Bootstraps, Flush(b) PROVE CreatedInv'
  <2>1. UNCHANGED <<organization, member, versions, trans, pc>>
    BY <1>13a DEF Flush
  <2> QED
    BY <1>5, <2>1
<1>14. ASSUME NEW b \in Bootstraps, Rollback(b) PROVE CreatedInv'
  <2>1. /\ pc'[b] = "failed" /\ UNCHANGED <<organization, member, versions>>
        /\ \A c \in Bootstraps : c # b => pc'[c] = pc[c] /\ trans'[c] = trans[c]
    BY <1>14 DEF Rollback, TypeOK
  <2>2. Report(b)'
    BY <2>1 DEF Report, Locked, Seeding
  <2> QED
    BY <1>4, <2>1, <2>2
<1>15. ASSUME NEW b \in Bootstraps, Commit(b) PROVE CreatedInv'
  <2>1. /\ pc[b] = "commit" /\ pc'[b] = "done" /\ UNCHANGED trans
        /\ organization' # "none" /\ member'
        /\ \A c \in Bootstraps : c # b => pc'[c] = pc[c]
        /\ \A s \in Samples : versions'[s] = Updated(versions[s], trans[b].rows[s])
    BY <1>15 DEF Commit, TypeOK
  <2>2. /\ \A s \in Samples : versions'[s].release = Result(b, s)
        /\ \A s \in Samples : s \in trans[b].seeded => Result(b, s) # 0
        /\ \A s \in Samples : s \notin trans[b].seeded => versions'[s] = versions[s]
    <3>1. \A s \in Samples : versions[s] \in Version /\ Updated(versions[s], Unwritten) = versions[s]
      BY DEF TypeOK, Updated, Unwritten, Version
    <3>2. /\ \A s \in Samples : s \in trans[b].seeded => Result(b, s) = ReleaseOf[b]
          /\ \A s \in Samples : s \notin trans[b].seeded => trans[b].rows[s] = Unwritten
      BY <2>1 DEF SeedInv, Work, Locked
    <3>3. ReleaseOf[b] # 0
      OBVIOUS
    <3>4. \A s \in Samples : versions'[s].release = Result(b, s)
      BY <2>1 DEF Result
    <3>5. \A s \in Samples : s \notin trans[b].seeded => versions'[s] = versions[s]
      BY <2>1, <3>1, <3>2
    <3> QED
      BY <3>2, <3>3, <3>4, <3>5
  <2>3. \A x \in trans[b].created : ~ Committed(x) /\ (x[1] = "version" => x[2] \in trans[b].seeded)
    BY <2>1 DEF CreatedInv, Report, Locked
  <2>4. \A x \in trans[b].created : Committed(x)'
    BY <1>1, <1>2, <2>1, <2>2, <2>3 DEF Committed
  <2>5. \A x \in Thing : Committed(x) => Committed(x)'
    <3>1. \A s \in Samples : versions[s].release # 0 => versions'[s].release # 0
      BY <2>2
    <3> QED
      BY <1>1, <2>1, <3>1 DEF Committed
  <2>6. ASSUME NEW c \in Bootstraps, c # b PROVE Report(c)'
    <3>1. Report(c) /\ pc'[c] = pc[c] /\ trans'[c] = trans[c] /\ trans[c].created \subseteq Thing
      BY <1>2, <2>1, <2>6 DEF CreatedInv
    <3>2. pc[c] \notin Locked
      BY <1>3, <2>1, <2>6 DEF Locked
    <3> QED
      BY <2>5, <3>1, <3>2 DEF Report
  <2>7. Report(b)'
    BY <2>1, <2>4 DEF Report, Locked, Seeding
  <2>8. \A c \in Bootstraps : c # b /\ pc'[c] = "done" => trans[b].created \cap trans[c].created = {}
    <3>1. \A c \in Bootstraps : c # b /\ pc'[c] = "done" => \A x \in trans[c].created : Committed(x)
      BY <2>1 DEF CreatedInv, Report
    <3> QED
      BY <2>3, <3>1
  <2>9. CreatedOnce'
    BY <2>1, <2>8 DEF CreatedInv, CreatedOnce
  <2> QED
    BY <2>6, <2>7, <2>9 DEF CreatedInv
<1>16. ASSUME NEW u \in Requests, Call(u) \/ WriteRow(u) \/ CancelRequest(u) PROVE CreatedInv'
  <2>1. UNCHANGED <<organization, member, versions, trans>> /\ \A c \in Bootstraps : pc'[c] = pc[c]
    BY <1>16 DEF Call, WriteRow, CancelRequest, TypeOK
  <2> QED
    BY <1>5, <2>1
<1>17. ASSUME NEW u \in Requests, Audit(u) PROVE CreatedInv'
  <2>1. UNCHANGED <<organization, member, trans>> /\ \A c \in Bootstraps : pc'[c] = pc[c]
    BY <1>17 DEF Audit, TypeOK
  <2>2. \A s \in Samples : versions'[s].release = versions[s].release
    BY <1>17 DEF Audit, TypeOK, Version
  <2> QED
    BY <1>5, <2>1, <2>2
<1>18. CASE UNCHANGED vars \/ \E s \in Samples : ChangeDesign(s)
  <2>1. UNCHANGED <<organization, member, versions, trans, pc>>
    BY <1>18 DEF vars, ChangeDesign
  <2> QED
    BY <1>5, <2>1
<1> QED
  BY <1>7, <1>8, <1>9, <1>10, <1>11, <1>12, <1>13, <1>13a, <1>14, <1>15, <1>16, <1>17,
     <1>18
  DEF Next, Step, Serve, Collide, Abort, Detect

\* The organization, the membership and each sample version are reported as created by one
\* bootstrap at most, however many insert them at once.
THEOREM CreatedOnceHolds == Spec => []CreatedOnce
<1>1. Init => CreatedInv
  BY TasksAssumption DEF Init, CreatedInv, CreatedOnce, Report, Nothing, Locked, Seeding
<1>2. TypeOK /\ TypeOK' /\ SeedInv /\ SeedInv' /\ CreatedInv /\ [Next]_vars => CreatedInv'
  BY CreatedStep
<1>3. TypeOK /\ TypeOK' /\ SeedInv /\ [Next]_vars => SeedInv'
  BY SeedStep
<1>4. CreatedInv => CreatedOnce
  BY DEF CreatedInv
<1> QED
  BY <1>1, <1>2, <1>3, <1>4, SeedInit, TypeCorrect, PTL DEF Spec
-----------------------------------------------------------------------------
(* Designs of users *)

\* The designs b will add were missing when it looked, and still are: whoever changes a
\* design needs the organization's row.
Adds(b) ==
  /\ pc[b] \in {"idle"} \cup Starting => trans[b].designs = {}
  /\ pc[b] \in Locked => \A s \in trans[b].designs : designs[s] = "none"

AddsInv == \A b \in Bootstraps : Adds(b)

LEMMA AddsStep ==
  ASSUME TypeOK, SeedInv, AddsInv, [Next]_vars
  PROVE  AddsInv'
<1> USE TasksAssumption DEF Goto, tables
<1>1. \A b, c \in Bootstraps : pc[b] \in Locked /\ pc[c] \in Locked => b = c
  BY DEF SeedInv, Work
\* Only b moves, and no design changes.
<1>2. ASSUME NEW b \in Bootstraps, UNCHANGED designs,
             \A c \in Bootstraps : c # b => pc'[c] = pc[c] /\ trans'[c] = trans[c],
             \/ pc'[b] \in Ended
             \/ pc[b] \in {"idle"} \cup Starting /\ trans'[b].designs = trans[b].designs
             \/ pc[b] \in Locked /\ pc'[b] \in Locked /\ trans'[b].designs = trans[b].designs
      PROVE  AddsInv'
  <2>1. Adds(b)'
    BY <1>2 DEF AddsInv, Adds, Ended, Starting, Locked, Seeding
  <2>2. ASSUME NEW c \in Bootstraps, c # b PROVE Adds(c)'
    BY <1>2, <2>2 DEF AddsInv, Adds
  <2> QED
    BY <2>1, <2>2 DEF AddsInv
\* No bootstrap moves.
<1>3. ASSUME UNCHANGED <<designs, trans>>, \A c \in Bootstraps : pc'[c] = pc[c]
      PROVE  AddsInv'
  BY <1>3 DEF AddsInv, Adds
<1>3a. ASSUME NEW b \in Bootstraps, Flush(b) PROVE AddsInv'
  BY <1>3, <1>3a DEF Flush
<1>4. ASSUME NEW b \in Bootstraps,
             Start(b) \/ FindOrganization(b) \/ InsertOrganization(b)
      PROVE  AddsInv'
  <2>1. /\ UNCHANGED designs /\ pc[b] \in {"idle"} \cup Starting
        /\ \A c \in Bootstraps : c # b => pc'[c] = pc[c] /\ trans'[c] = trans[c]
    BY <1>4 DEF Start, FindOrganization, InsertOrganization, Starting, TypeOK
  <2>2. pc'[b] \in Ended \/ trans'[b].designs = trans[b].designs
    BY <1>4 DEF Start, FindOrganization, InsertOrganization, Ended, TypeOK, Transaction
  <2> QED
    BY <1>2, <2>1, <2>2
<1>5. ASSUME NEW b \in Bootstraps,
             Enroll(b) \/ WriteArtifact(b) \/ ReadRow(b) \/ InsertRow(b) \/ UpdateRow(b)
      PROVE  AddsInv'
  <2>1. /\ UNCHANGED designs /\ pc[b] \in Locked
        /\ \A c \in Bootstraps : c # b => pc'[c] = pc[c] /\ trans'[c] = trans[c]
    BY <1>5 DEF Enroll, WriteArtifact, ReadRow, InsertRow, UpdateRow, Advance, Locked, Seeding,
                TypeOK
  <2>2. pc'[b] \in Locked
    BY <1>5 DEF Enroll, WriteArtifact, ReadRow, InsertRow, UpdateRow, Advance, Locked, Seeding,
                TypeOK
  <2>3. trans'[b].designs = trans[b].designs
    BY <1>5 DEF Enroll, WriteArtifact, ReadRow, InsertRow, UpdateRow, TypeOK, Transaction
  <2> QED
    BY <1>2, <2>1, <2>2, <2>3
<1>6. ASSUME NEW b \in Bootstraps, SeedDesigns(b) PROVE AddsInv'
  <2>1. /\ UNCHANGED designs /\ pc[b] = "designs" /\ pc'[b] = "artifact"
        /\ \A c \in Bootstraps : c # b => pc'[c] = pc[c] /\ trans'[c] = trans[c]
        /\ trans'[b].designs = trans[b].designs \cup {s \in Language(at[b]) : designs[s] = "none"}
    BY <1>6 DEF SeedDesigns, TypeOK, Transaction
  <2>2. Adds(b)'
    BY <2>1 DEF AddsInv, Adds, Starting, Locked, Seeding
  <2>3. ASSUME NEW c \in Bootstraps, c # b PROVE Adds(c)'
    BY <2>1, <2>3 DEF AddsInv, Adds
  <2> QED
    BY <2>2, <2>3 DEF AddsInv
<1>7. ASSUME NEW b \in Bootstraps, Rollback(b) PROVE AddsInv'
  <2>1. /\ UNCHANGED designs /\ pc'[b] \in Ended
        /\ \A c \in Bootstraps : c # b => pc'[c] = pc[c] /\ trans'[c] = trans[c]
    BY <1>7 DEF Rollback, Ended, TypeOK
  <2> QED
    BY <1>2, <2>1
\* Nobody else holds the organization's row while b commits.
<1>8. ASSUME NEW b \in Bootstraps, Commit(b) PROVE AddsInv'
  <2>1. /\ pc[b] \in Locked /\ pc'[b] = "done" /\ UNCHANGED trans
        /\ \A c \in Bootstraps : c # b => pc'[c] = pc[c]
    BY <1>8 DEF Commit, Locked, TypeOK
  <2>2. ASSUME NEW c \in Bootstraps PROVE Adds(c)'
    BY <1>1, <2>1, <2>2 DEF AddsInv, Adds, Starting, Locked, Seeding
  <2> QED
    BY <2>2 DEF AddsInv
<1>9. ASSUME NEW u \in Requests, Call(u) \/ WriteRow(u) \/ CancelRequest(u) \/ Audit(u)
      PROVE  AddsInv'
  <2>1. UNCHANGED <<designs, trans>> /\ \A c \in Bootstraps : pc'[c] = pc[c]
    BY <1>9 DEF Call, WriteRow, CancelRequest, Audit, TypeOK
  <2> QED
    BY <1>3, <2>1
\* A user's edit waits for the bootstrap that holds the organization's row.
<1>10. ASSUME NEW s \in Samples, ChangeDesign(s) PROVE AddsInv'
  <2>1. UNCHANGED <<pc, trans>> /\ holder = NoTask
    BY <1>10 DEF ChangeDesign
  <2>2. \A c \in Bootstraps : pc[c] \notin Locked
    BY <2>1 DEF SeedInv, Work
  <2> QED
    BY <2>1, <2>2 DEF AddsInv, Adds
<1>11. CASE UNCHANGED vars
  BY <1>3, <1>11 DEF vars
<1> QED
  BY <1>3a, <1>4, <1>5, <1>6, <1>7, <1>8, <1>9, <1>10, <1>11
  DEF Next, Step, Serve, Collide, Abort, Detect

\* A step of a bootstrap that changes a design commits, and adds designs only.
LEMMA EditsKeptStep ==
  ASSUME TypeOK, AddsInv, [Next]_vars, NEW b \in Bootstraps, pc'[b] # pc[b],
         NEW s \in Samples, designs[s] # "none"
  PROVE  designs'[s] = designs[s]
<1> USE TasksAssumption DEF Goto, tables
<1>1. ASSUME NEW c \in Bootstraps, Commit(c) PROVE designs'[s] = designs[s]
  <2>1. /\ pc[c] \in Locked
        /\ designs'[s] = IF s \in trans[c].designs THEN "seeded" ELSE designs[s]
    BY <1>1 DEF Commit, Locked
  <2>2. s \notin trans[c].designs
    BY <2>1 DEF AddsInv, Adds
  <2> QED
    BY <2>1, <2>2
<1>2. ASSUME NEW c \in Bootstraps,
             \/ Start(c) \/ FindOrganization(c) \/ InsertOrganization(c) \/ Enroll(c)
             \/ SeedDesigns(c) \/ WriteArtifact(c) \/ ReadRow(c) \/ InsertRow(c) \/ UpdateRow(c)
             \/ Flush(c) \/ Rollback(c)
      PROVE  designs'[s] = designs[s]
  BY <1>2 DEF Start, FindOrganization, InsertOrganization, Enroll, SeedDesigns, WriteArtifact,
              ReadRow, InsertRow, UpdateRow, Flush, Rollback
<1>3. ASSUME NEW u \in Requests, Call(u) \/ WriteRow(u) \/ CancelRequest(u) \/ Audit(u)
      PROVE  designs'[s] = designs[s]
  BY <1>3 DEF Call, WriteRow, CancelRequest, Audit
<1>4. ASSUME NEW x \in Samples, ChangeDesign(x) PROVE FALSE
  BY <1>4 DEF ChangeDesign
<1>5. CASE UNCHANGED vars
  BY <1>5 DEF vars
<1> QED
  BY <1>1, <1>2, <1>3, <1>4, <1>5 DEF Next, Step, Serve, Collide, Abort, Detect

\* No bootstrap touches a design that is there, whatever releases are started at once and
\* whatever users edit while they run.
THEOREM EditsKeptHolds == Spec => EditsKept
<1>1. Init => AddsInv
  <2> SUFFICES ASSUME Init, NEW b \in Bootstraps PROVE Adds(b)
    BY DEF AddsInv
  <2>1. pc[b] = "idle" /\ trans[b].designs = {}
    BY DEF Init, Nothing
  <2> QED
    BY <2>1 DEF Adds, Locked, Seeding
<1>2. TypeOK /\ SeedInv /\ AddsInv /\ [Next]_vars => AddsInv'
  BY AddsStep
<1>3. TypeOK /\ TypeOK' /\ SeedInv /\ [Next]_vars => SeedInv'
  BY SeedStep
<1>4. TypeOK /\ AddsInv /\ [Next]_vars =>
        [\A b \in Bootstraps : pc'[b] # pc[b] =>
           \A s \in Samples : designs[s] # "none" => designs'[s] = designs[s]]_vars
  BY EditsKeptStep
<1> QED
  BY <1>1, <1>2, <1>3, <1>4, SeedInit, TypeCorrect, PTL DEF Spec, EditsKept
=============================================================================
