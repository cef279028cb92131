------------------------- MODULE PackageInstallProofs -------------------------
(***************************************************************************)
(* What holds of PackageInstall for any number of calls, packages and      *)
(* files.  The argument for MixtureIsKnown is file by file: a file that is *)
(* not as the manifest says, and that no user edited, is either still to   *)
(* be read by the final check of a running installation (Notices), or the  *)
(* user whose installation left it that way was warned.                    *)
(***************************************************************************)
EXTENDS PackageInstall, TLAPS

-----------------------------------------------------------------------------
(* Types *)

\* The state stays in its types whatever overlapping calls, edits, damaged cache
\* entries and revocations do; a call that writes holds a preview of its package.
THEOREM TypeCorrect == Spec => []TypeOK
<1> USE PayloadAssumption DEF Receipt, Files, Reading, Writing
<1>1. Init => TypeOK
  BY DEF Init, TypeOK, Snapshot, Call, NoCall
<1>2. TypeOK /\ [Next]_vars => TypeOK'
  <2> SUFFICES ASSUME TypeOK, [Next]_vars
               PROVE  TypeOK'
    OBVIOUS
  <2> USE DEF TypeOK, Snapshot, Call, NoCall, Goto, Return
  <2>1. ASSUME NEW w \in Processes, Start(w) PROVE TypeOK'
    BY <2>1 DEF Start
  <2>2. ASSUME NEW w \in Processes, Resolve(w) PROVE TypeOK'
    BY <2>2 DEF Resolve
  <2>3. ASSUME NEW w \in Processes, Download(w) PROVE TypeOK'
    BY <2>3 DEF Download
  <2>4. ASSUME NEW w \in Processes, Promote(w) PROVE TypeOK'
    BY <2>4 DEF Promote
  <2>5. ASSUME NEW w \in Processes, Validate(w) PROVE TypeOK'
    BY <2>5 DEF Validate
  <2>6. ASSUME NEW w \in Processes, ShowPreview(w) PROVE TypeOK'
    <3>1. Plan(call[w].package) \in Preview
      BY <2>6 DEF ShowPreview, Plan, Preview
    <3>2. preview' \in [Processes -> Preview \cup {NoPreview}]
      BY <2>6, <3>1 DEF ShowPreview
    <3>3. \A v \in Processes : v # w => preview'[v] = preview[v] /\ pc'[v] = pc[v]
      BY <2>6 DEF ShowPreview
    <3> QED
      BY <2>6, <3>2, <3>3 DEF ShowPreview
  <2>7. ASSUME NEW w \in Processes, PlanApply(w) PROVE TypeOK'
    <3>1. preview[w] = Plan(call[w].package) /\ call[w].package \in Packages
      BY <2>7 DEF PlanApply, Approved
    <3>2. preview[w] \in Preview /\ preview[w].package = call[w].package
      BY <3>1 DEF Plan, Preview
    <3> QED
      BY <2>7, <3>2 DEF PlanApply
  <2>8. ASSUME NEW w \in Processes, PlanAgain(w) PROVE TypeOK'
    BY <2>8 DEF PlanAgain
  <2>9. ASSUME NEW w \in Processes, Refuse(w) PROVE TypeOK'
    BY <2>9 DEF Refuse
  <2>10. ASSUME NEW w \in Processes, Skip(w) PROVE TypeOK'
    BY <2>10 DEF Skip
  <2>11. ASSUME NEW w \in Processes, Hash(w) PROVE TypeOK'
    BY <2>11 DEF Hash
  <2>12. ASSUME NEW w \in Processes, Replace(w) PROVE TypeOK'
    <3>1. call[w].package \in Packages /\ next[w] \in Files
      BY <2>12 DEF Replace
    <3>2. /\ Wanted(w) \in Contents \cup Packages \cup {NoFile}
          /\ next[w] = Receipt => Wanted(w) \in Packages
      BY <3>1 DEF Wanted, Installed
    <3>3. target' \in Snapshot /\ target'[Receipt] \in Packages \cup {NoFile}
      BY <2>12, <3>1, <3>2 DEF Replace
    <3>4. next' \in [Processes -> 0 .. N + 2]
      BY <2>12, <3>1 DEF Replace
    <3>5. pc' \in [Processes -> {"idle"} \cup Reading \cup Writing]
      BY <2>12 DEF Replace
    <3>6. edited' \in SUBSET (1 .. N)
      BY <2>12 DEF Replace
    <3>7. /\ pc[w] = "replace" /\ pc'[w] = "write" /\ next'[w] = next[w] + 1
          /\ \A v \in Processes : v # w => pc'[v] = pc[v] /\ next'[v] = next[v]
          /\ UNCHANGED <<published, cache, unseen, call, preview, seen, warned, calls, events>>
      BY <2>12, <3>1 DEF Replace
    <3> QED
      <4>1. \A v \in Processes :
              /\ pc'[v] # "idle" => call'[v].package \in Packages
              /\ pc'[v] \in Writing \cup {"recheck"} =>
                   preview'[v] \in Preview /\ preview'[v].package = call'[v].package
        BY <3>7
      <4>2. \A v \in Processes :
              /\ pc'[v] \in Writing => next'[v] >= 1
              /\ pc'[v] \in {"replace", "check"} => next'[v] <= Receipt
        <5>1. next[w] >= 1 /\ next'[w] >= 1
          BY <3>1, <3>7
        <5>2. \A v \in Processes : v # w =>
                /\ pc'[v] \in Writing => next'[v] >= 1
                /\ pc'[v] \in {"replace", "check"} => next'[v] <= Receipt
          BY <3>7
        <5> QED
          BY <3>7, <5>1, <5>2
      <4> QED
        BY <3>3, <3>4, <3>5, <3>6, <3>7, <4>1, <4>2
  <2>13. ASSUME NEW w \in Processes, CheckReceipt(w) PROVE TypeOK'
    BY <2>13 DEF CheckReceipt
  <2>14. ASSUME NEW w \in Processes, CheckFile(w) PROVE TypeOK'
    BY <2>14 DEF CheckFile
  <2>15. ASSUME NEW w \in Processes, Succeed(w) PROVE TypeOK'
    BY <2>15 DEF Succeed
  <2>16. ASSUME NEW w \in Processes, Abandon(w) PROVE TypeOK'
    BY <2>16 DEF Abandon
  <2>17. ASSUME NEW p \in Packages, Revoke(p) \/ Republish(p) \/ Damage(p) \/ Remove(p) PROVE TypeOK'
    <3>1. CASE Revoke(p)
      BY <3>1 DEF Revoke, Happens
    <3>2. CASE Damage(p)
      BY <3>2 DEF Damage, Happens
    <3>3. CASE Remove(p)
      BY <3>3 DEF Remove
    <3>4. CASE Republish(p)
      BY <3>4 DEF Republish, Happens
    <3> QED
      BY <2>17, <3>1, <3>2, <3>3, <3>4
  <2>18. ASSUME NEW i \in 1 .. N, Edit(i) PROVE TypeOK'
    <3>1. PICK c \in Contents \cup {NoFile} : target' = [target EXCEPT ![i] = c]
      BY <2>18 DEF Edit
    <3>2. target' \in Snapshot /\ target'[Receipt] = target[Receipt]
      BY <3>1
    <3>3. edited' \in SUBSET (1 .. N)
      BY <2>18 DEF Edit
    <3>4. unseen' \in [Processes -> SUBSET (1 .. N)]
      <4>1. \A w \in Processes : unseen[w] \ {i} \in SUBSET (1 .. N)
                                /\ unseen[w] \cup {i} \in SUBSET (1 .. N)
        OBVIOUS
      <4> QED
        BY <2>18, <4>1 DEF Edit
    <3>5. events' \in 0 .. MaxEvents
      BY <2>18 DEF Edit, Happens
    <3>6. UNCHANGED <<published, cache, pc, call, preview, next, seen, warned, calls>>
      BY <2>18 DEF Edit
    <3> QED
      BY <3>2, <3>3, <3>4, <3>5, <3>6
  <2>19. CASE UNCHANGED vars
    BY <2>19 DEF vars
  <2> QED
    BY <2>1, <2>2, <2>3, <2>4, <2>5, <2>6, <2>7, <2>8, <2>9, <2>10, <2>11, <2>12,
       <2>13, <2>14, <2>15, <2>16, <2>17, <2>18, <2>19 DEF Next
<1> QED
  BY <1>1, <1>2, PTL DEF Spec

-----------------------------------------------------------------------------
(* Edits *)

\* No installation overwrites an edit it could have seen, whatever other
\* installations write between the preview, the hash and the replacement.
THEOREM EditsAreShownHolds == Spec => []EditsAreShown
<1>1. Init => EditsAreShown
  BY DEF Init, EditsAreShown
<1>2. TypeOK /\ EditsAreShown /\ [Next]_vars => EditsAreShown'
  <2> SUFFICES ASSUME TypeOK, EditsAreShown, [Next]_vars
               PROVE  EditsAreShown'
    OBVIOUS
  <2> USE DEF EditsAreShown, Goto, Return
  <2>0. /\ pc \in [Processes -> {"idle"} \cup Reading \cup Writing]
        /\ next \in [Processes -> 0 .. N + 2] /\ target \in Snapshot
        /\ \A w \in Processes : pc[w] = "replace" => preview[w] \in Preview /\ next[w] \in Files
        /\ preview \in [Processes -> Preview \cup {NoPreview}]
        /\ unseen \in [Processes -> SUBSET (1 .. N)] /\ edited \in SUBSET (1 .. N)
    BY PayloadAssumption DEF TypeOK, Writing, Files, Receipt
  <2>1. ASSUME NEW w \in Processes,
               \/ Start(w) \/ Resolve(w) \/ Download(w) \/ Promote(w) \/ Validate(w)
               \/ PlanApply(w) \/ PlanAgain(w)
        PROVE EditsAreShown'
    BY <2>0, <2>1 DEF Start, Resolve, Download, Promote, Validate, PlanApply, PlanAgain
  <2>2. ASSUME NEW w \in Processes, ShowPreview(w) \/ Refuse(w) \/ Succeed(w) \/ Abandon(w)
        PROVE EditsAreShown'
    BY <2>0, <2>2 DEF ShowPreview, Refuse, Succeed, Abandon
  <2>3. ASSUME NEW w \in Processes, Skip(w) \/ CheckReceipt(w) \/ CheckFile(w)
        PROVE EditsAreShown'
    BY <2>0, <2>3 DEF Skip, CheckReceipt, CheckFile
  <2>4. ASSUME NEW w \in Processes, Hash(w) PROVE EditsAreShown'
    BY <2>0, <2>4 DEF Hash
  <2>5. ASSUME NEW w \in Processes, Replace(w) PROVE EditsAreShown'
    \* Whoever else is about to replace this file no longer overwrites an edit.
    <3>1. /\ \A i \in edited' : i # next[w] /\ i \in edited
          /\ \A i \in Files : i # next[w] => target'[i] = target[i]
          /\ UNCHANGED <<preview, unseen>>
          /\ \A v \in Processes : pc'[v] = "replace" =>
               v # w /\ pc[v] = "replace" /\ next'[v] = next[v]
      BY <2>0, <2>5 DEF Replace, Snapshot
    <3> QED
      BY <2>0, <3>1
  <2>6. ASSUME NEW p \in Packages, Revoke(p) \/ Republish(p) \/ Damage(p) \/ Remove(p) PROVE EditsAreShown'
    BY <2>0, <2>6 DEF Revoke, Republish, Damage, Remove
  <2>7. ASSUME NEW i \in 1 .. N, Edit(i) PROVE EditsAreShown'
    <3>1. /\ UNCHANGED <<pc, preview, next>> /\ edited' = edited \cup {i}
          /\ \A j \in Files : j # i => target'[j] = target[j]
          /\ \A w \in Processes : pc[w] = "replace" /\ next[w] = i => i \notin unseen'[w]
          /\ \A w \in Processes : unseen'[w] \subseteq unseen[w] \cup {i}
      BY <2>0, <2>7 DEF Edit, Snapshot
    <3> QED
      BY <2>0, <3>1
  <2>8. CASE UNCHANGED vars
    BY <2>8 DEF vars
  <2> QED
    BY <2>1, <2>2, <2>3, <2>4, <2>5, <2>6, <2>7, <2>8 DEF Next
<1> QED
  BY <1>1, <1>2, TypeCorrect, PTL DEF Spec

-----------------------------------------------------------------------------
(* Mixtures of packages *)

\* Call w will still notice that file i is not as the manifest says.
Notices(w, i) ==
  \/ pc[w] \in {"write", "replace"}
  \/ pc[w] = "check" /\ seen[w] = target[Receipt] /\ next[w] <= i

\* User w was told that the last installation is incomplete.
Warned(w) == warned[w] /\ pc[w] \notin Writing

\* File i is not as the manifest says, by the doing of installations alone.
Differs(i) ==
  /\ i \notin edited /\ target[Receipt] # NoFile
  /\ target[i] # Installed(target[Receipt])[i]

\* Every such file is accounted for.
AccountedFor ==
  \A i \in 1 .. N : Differs(i) => \E w \in Processes : Notices(w, i) \/ Warned(w)

\* A workspace that mixes packages is never left without a warning, for any
\* number of overlapping installations of any packages.
THEOREM MixtureIsKnownHolds == Spec => []MixtureIsKnown
<1> USE PayloadAssumption DEF Receipt, Files
<1>1. Init => AccountedFor
  BY DEF Init, AccountedFor, Differs
<1>2. TypeOK /\ AccountedFor /\ [Next]_vars => AccountedFor'
  <2> SUFFICES ASSUME TypeOK, AccountedFor, [Next]_vars,
                      NEW i \in 1 .. N, Differs(i)'
               PROVE  \E w \in Processes : Notices(w, i)' \/ Warned(w)'
    BY DEF AccountedFor
  <2> USE DEF Goto, Return
  <2>0. /\ pc \in [Processes -> {"idle"} \cup Reading \cup Writing]
        /\ next \in [Processes -> 0 .. N + 2] /\ target \in Snapshot
        /\ seen \in [Processes -> Contents \cup Packages \cup {NoFile}]
        /\ warned \in [Processes -> BOOLEAN]
    BY DEF TypeOK
  <2>1. ASSUME Differs(i),
               \A v \in Processes : (Notices(v, i) => Notices(v, i)')
                                    /\ (Warned(v) => Warned(v)' \/ Notices(v, i)')
        PROVE  \E w \in Processes : Notices(w, i)' \/ Warned(w)'
    BY <2>1 DEF AccountedFor
  <2>2. ASSUME NEW w \in Processes,
               \/ Start(w) \/ Resolve(w) \/ Download(w) \/ Promote(w) \/ Validate(w)
               \/ ShowPreview(w) \/ PlanApply(w) \/ PlanAgain(w) \/ Refuse(w)
        PROVE  \E v \in Processes : Notices(v, i)' \/ Warned(v)'
    <3>1. Differs(i) /\ UNCHANGED <<target, warned>>
      BY <2>2 DEF Differs, Installed, Start, Resolve, Download, Promote, Validate,
        ShowPreview, PlanApply, PlanAgain, Refuse
    <3>2. \A v \in Processes : v # w => UNCHANGED <<pc[v], seen[v], next[v]>>
      BY <2>0, <2>2 DEF Start, Resolve, Download, Promote, Validate,
        ShowPreview, PlanApply, PlanAgain, Refuse
    <3>3. pc[w] \notin Writing /\ pc'[w] \notin {"replace", "check"}
      BY <2>0, <2>2 DEF Reading, Writing, Start, Resolve, Download, Promote, Validate,
        ShowPreview, PlanApply, PlanAgain, Refuse
    <3> QED
      BY <2>1, <2>2, <3>1, <3>2, <3>3 DEF Notices, Warned, Writing
  <2>3. ASSUME NEW w \in Processes, Skip(w) \/ Hash(w) \/ Replace(w)
        PROVE  \E v \in Processes : Notices(v, i)' \/ Warned(v)'
    <3>1. pc'[w] \in {"write", "replace"}
      BY <2>0, <2>3 DEF Skip, Hash, Replace
    <3> QED
      BY <3>1 DEF Notices
  <2>4. ASSUME NEW w \in Processes, CheckReceipt(w)
        PROVE  \E v \in Processes : Notices(v, i)' \/ Warned(v)'
    <3>1. Notices(w, i)'
      BY <2>0, <2>4 DEF CheckReceipt, Notices
    <3> QED
      BY <3>1
  <2>5. ASSUME NEW w \in Processes, CheckFile(w)
        PROVE  \E v \in Processes : Notices(v, i)' \/ Warned(v)'
    <3>1. Differs(i) /\ UNCHANGED <<target, warned, pc, seen>>
      BY <2>5 DEF Differs, Installed, CheckFile
    <3>2. next[w] = i => seen[w] # target[Receipt]
      BY <2>5, <3>1 DEF CheckFile, Differs, Installed
    <3>3. next' = [next EXCEPT ![w] = @ + 1] /\ pc[w] = "check"
      BY <2>5 DEF CheckFile
    <3> QED
      BY <2>0, <2>1, <2>5, <3>1, <3>2, <3>3 DEF Notices, Warned
  <2>6. ASSUME NEW w \in Processes, Succeed(w)
        PROVE  \E v \in Processes : Notices(v, i)' \/ Warned(v)'
    <3>1. Differs(i) /\ UNCHANGED target
      BY <2>6 DEF Differs, Installed, Succeed
    <3>2. ~Notices(w, i) /\ ~Warned(w)
      BY <2>6 DEF Succeed, Notices, Warned, Writing
    <3>3. \A v \in Processes : v # w => UNCHANGED <<pc[v], seen[v], next[v], warned[v]>>
      BY <2>0, <2>6 DEF Succeed
    <3> QED
      BY <2>1, <2>6, <3>1, <3>2, <3>3 DEF Notices, Warned
  <2>7. ASSUME NEW w \in Processes, Abandon(w)
        PROVE  \E v \in Processes : Notices(v, i)' \/ Warned(v)'
    <3>1. Warned(w)'
      BY <2>0, <2>7 DEF Abandon, Warned, Writing
    <3> QED
      BY <3>1
  <2>8. ASSUME NEW p \in Packages, Revoke(p) \/ Republish(p) \/ Damage(p) \/ Remove(p)
        PROVE  \E v \in Processes : Notices(v, i)' \/ Warned(v)'
    <3>1. Differs(i) /\ UNCHANGED <<target, pc, seen, next, warned>>
      BY <2>8 DEF Differs, Installed, Revoke, Republish, Damage, Remove
    <3> QED
      BY <3>1 DEF AccountedFor, Notices, Warned
  <2>9. ASSUME NEW j \in 1 .. N, Edit(j)
        PROVE  \E v \in Processes : Notices(v, i)' \/ Warned(v)'
    <3>1. i # j /\ i \notin edited
      BY <2>9 DEF Edit, Differs
    <3>2. target'[Receipt] = target[Receipt] /\ target'[i] = target[i]
      BY <2>0, <2>9, <3>1 DEF Edit, Snapshot
    <3>3. UNCHANGED <<pc, seen, next, warned>>
      BY <2>9 DEF Edit
    <3>4. Differs(i)
      BY <3>1, <3>2 DEF Differs, Installed
    <3> QED
      BY <3>2, <3>3, <3>4 DEF AccountedFor, Notices, Warned
  <2>10. CASE UNCHANGED vars
    <3>1. Differs(i) /\ UNCHANGED <<target, pc, seen, next, warned>>
      BY <2>10 DEF vars, Differs, Installed
    <3> QED
      BY <3>1 DEF AccountedFor, Notices, Warned
  <2> QED
    BY <2>2, <2>3, <2>4, <2>5, <2>6, <2>7, <2>8, <2>9, <2>10 DEF Next
<1>3. TypeOK /\ AccountedFor => MixtureIsKnown
  <2> SUFFICES ASSUME TypeOK, AccountedFor,
                      \A w \in Processes : pc[w] \notin Writing /\ ~warned[w],
                      NEW i \in Files \ edited, target[Receipt] # NoFile
               PROVE  target[i] = Installed(target[Receipt])[i]
    BY DEF MixtureIsKnown
  <2>1. CASE i = Receipt
    BY <2>1 DEF Installed
  <2>2. CASE i # Receipt
    BY <2>2 DEF AccountedFor, Differs, Notices, Warned, Writing
  <2> QED
    BY <2>1, <2>2
<1> QED
  BY <1>1, <1>2, <1>3, TypeCorrect, PTL DEF Spec
=============================================================================
