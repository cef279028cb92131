------------------------ MODULE EvaluationSealProofs ------------------------
(***************************************************************************)
(* What holds of EvaluationSeal for any number of calls, results and       *)
(* contents.  The argument is about receipts: wherever one is (in the      *)
(* package, in a call, kept for a rollback), the results it names were     *)
(* recorded for the files it lists and meet the expectations of the        *)
(* scenarios it hashes (Genuine), but for results that were overtaken.     *)
(***************************************************************************)
EXTENDS EvaluationSeal, TLAPS

-----------------------------------------------------------------------------
(* What a step does to its call *)

Entry(i, m, n, h, u, r, o) ==
  [results |-> i, manifest |-> m, names |-> n, hashed |-> h, rules |-> u, receipt |-> r, old |-> o]

\* Only call p moves, to a label, and remembers k.
Moves(p, label, k) ==
  /\ pc' = [q \in Processes |-> pc'[q]] /\ call' = [q \in Processes |-> call'[q]]
  /\ pc'[p] = label /\ call'[p] = k
  /\ \A q \in Processes : q # p => call'[q] = call[q] /\ pc'[q] = pc[q]

\* A call with one field set, field by field.
LEMMA CallFields ==
  ASSUME NEW k \in Call
  PROVE  /\ \A i : [k EXCEPT !.results = i] =
              Entry(i, k.manifest, k.names, k.hashed, k.rules, k.receipt, k.old)
         /\ \A m : [k EXCEPT !.manifest = m] =
              Entry(k.results, m, k.names, k.hashed, k.rules, k.receipt, k.old)
         /\ \A n : [k EXCEPT !.names = n] =
              Entry(k.results, k.manifest, n, k.hashed, k.rules, k.receipt, k.old)
         /\ \A h : [k EXCEPT !.hashed = h] =
              Entry(k.results, k.manifest, k.names, h, k.rules, k.receipt, k.old)
         /\ \A u : [k EXCEPT !.rules = u] =
              Entry(k.results, k.manifest, k.names, k.hashed, u, k.receipt, k.old)
         /\ \A r : [k EXCEPT !.receipt = r] =
              Entry(k.results, k.manifest, k.names, k.hashed, k.rules, r, k.old)
         /\ \A o : [k EXCEPT !.old = o] =
              Entry(k.results, k.manifest, k.names, k.hashed, k.rules, k.receipt, o)
         /\ k = Entry(k.results, k.manifest, k.names, k.hashed, k.rules, k.receipt, k.old)
  BY DEF Call, Entry

\* A call of the right fields is a call.
LEMMA EntryIsCall ==
  ASSUME NEW i \in Results \cup {None}, NEW m \in Manifest \cup {None},
         NEW n \in {"unread", "listed", "hashed"}, NEW h \in SUBSET Files,
         NEW u \in [RuleFiles -> Versions \cup {None}],
         NEW r \in Receipt \cup {None}, NEW o \in Receipt \cup {None}
  PROVE  Entry(i, m, n, h, u, r, o) \in Call
  BY DEF Call, Entry

LEMMA NoCallIsCall ==
  /\ NoCall \in Call
  /\ NoCall = Entry(None, None, "unread", {}, NoRules, None, None)
  BY DEF Call, NoCall, NoRules, Entry

LEMMA StartMoves ==
  ASSUME TypeOK, NEW p \in Processes, Start(p)
  PROVE  \E i \in {None} \cup {j \in Results : recorded[j] # None} :
           /\ Moves(p, "manifest", Entry(i, call[p].manifest, call[p].names, call[p].hashed,
                                         call[p].rules, call[p].receipt, call[p].old))
           /\ before' = IF i = None THEN before
                        ELSE [q \in DOMAIN before \cup {p} |-> IF q = p THEN package ELSE before[q]]
           /\ held' = IF i = None THEN [held EXCEPT ![p] = [f \in Files |-> {payload[f]}]] ELSE held
<1>1. PICK i \in {None} \cup {j \in Results : recorded[j] # None} :
        /\ call' = [call EXCEPT ![p].results = i]
        /\ before' = IF i = None THEN before
                     ELSE [q \in DOMAIN before \cup {p} |-> IF q = p THEN package ELSE before[q]]
        /\ held' = IF i = None THEN [held EXCEPT ![p] = [f \in Files |-> {payload[f]}]] ELSE held
  BY DEF Start
<1>2. call[p] \in Call /\ call \in [Processes -> Call]
  BY DEF TypeOK
<1>3. /\ call' = [q \in Processes |-> call'[q]]
      /\ call'[p] = [call[p] EXCEPT !.results = i]
      /\ \A q \in Processes : q # p => call'[q] = call[q]
  BY <1>1, <1>2
<1>4. /\ pc' = [q \in Processes |-> pc'[q]] /\ pc'[p] = "manifest"
      /\ \A q \in Processes : q # p => pc'[q] = pc[q]
  BY DEF Start, Goto, TypeOK
<1>5. Moves(p, "manifest", Entry(i, call[p].manifest, call[p].names, call[p].hashed,
                                 call[p].rules, call[p].receipt, call[p].old))
  BY <1>2, <1>3, <1>4, CallFields DEF Moves
<1> QED
  BY <1>1, <1>5

LEMMA ReadManifestMoves ==
  ASSUME TypeOK, NEW p \in Processes, ReadManifest(p)
  PROVE  Moves(p, "inventory", Entry(call[p].results, manifest, call[p].names, call[p].hashed,
                                     call[p].rules, call[p].receipt, call[p].old))
<1>1. call[p] \in Call /\ call \in [Processes -> Call]
  BY DEF TypeOK
<1>2. /\ call' = [q \in Processes |-> call'[q]]
      /\ call'[p] = [call[p] EXCEPT !.manifest = manifest]
      /\ \A q \in Processes : q # p => call'[q] = call[q]
  BY <1>1 DEF ReadManifest
<1>3. /\ pc' = [q \in Processes |-> pc'[q]] /\ pc'[p] = "inventory"
      /\ \A q \in Processes : q # p => pc'[q] = pc[q]
  BY DEF ReadManifest, Reads, Goto, TypeOK
<1> QED
  BY <1>1, <1>2, <1>3, CallFields DEF Moves

\* The other steps that set fields one by one.
LEMMA HashingMoves ==
  ASSUME TypeOK, NEW p \in Processes
  PROVE  /\ \A f \in Files : HashFile(p, f) =>
              Moves(p, "inventory", Entry(call[p].results, call[p].manifest, call[p].names,
                    call[p].hashed \cup {f}, call[p].rules, call[p].receipt, call[p].old))
         /\ \A f \in RuleFiles : CompareRule(p, f) =>
              Moves(p, pc[p], Entry(call[p].results, call[p].manifest, call[p].names,
                    call[p].hashed \cup {f}, call[p].rules, call[p].receipt, call[p].old))
         /\ \A f \in RuleFiles : HashRule(p, f) =>
              Moves(p, "hash", Entry(call[p].results, call[p].manifest, call[p].names,
                    call[p].hashed, [call[p].rules EXCEPT ![f] = payload[f]], call[p].receipt,
                    call[p].old))
<1>1. call[p] \in Call /\ call \in [Processes -> Call]
  BY DEF TypeOK
<1>2. ASSUME NEW f \in Files, HashFile(p, f)
      PROVE  Moves(p, "inventory", Entry(call[p].results, call[p].manifest, call[p].names,
                   call[p].hashed \cup {f}, call[p].rules, call[p].receipt, call[p].old))
  <2>1. /\ call' = [q \in Processes |-> call'[q]]
        /\ call'[p] = [call[p] EXCEPT !.hashed = call[p].hashed \cup {f}]
        /\ \A q \in Processes : q # p => call'[q] = call[q]
    BY <1>1, <1>2 DEF HashFile
  <2>2. /\ pc' = [q \in Processes |-> pc'[q]] /\ pc'[p] = "inventory"
        /\ \A q \in Processes : q # p => pc'[q] = pc[q]
    BY <1>2 DEF HashFile, Reads, Goto, TypeOK
  <2> QED
    BY <1>1, <2>1, <2>2, CallFields DEF Moves
<1>3. ASSUME NEW f \in RuleFiles, CompareRule(p, f)
      PROVE  Moves(p, pc[p], Entry(call[p].results, call[p].manifest, call[p].names,
                   call[p].hashed \cup {f}, call[p].rules, call[p].receipt, call[p].old))
  <2>1. /\ call' = [q \in Processes |-> call'[q]]
        /\ call'[p] = [call[p] EXCEPT !.hashed = call[p].hashed \cup {f}]
        /\ \A q \in Processes : q # p => call'[q] = call[q]
    BY <1>1, <1>3 DEF CompareRule
  <2>2. /\ pc' = [q \in Processes |-> pc'[q]] /\ pc'[p] = pc[p]
        /\ \A q \in Processes : q # p => pc'[q] = pc[q]
    BY <1>3 DEF CompareRule, Reads, Goto, TypeOK
  <2> QED
    BY <1>1, <2>1, <2>2, CallFields DEF Moves
<1>4. ASSUME NEW f \in RuleFiles, HashRule(p, f)
      PROVE  Moves(p, "hash", Entry(call[p].results, call[p].manifest, call[p].names,
                   call[p].hashed, [call[p].rules EXCEPT ![f] = payload[f]], call[p].receipt,
                   call[p].old))
  <2>1. /\ call' = [q \in Processes |-> call'[q]]
        /\ call'[p] = [call[p] EXCEPT !.rules = [call[p].rules EXCEPT ![f] = payload[f]]]
        /\ \A q \in Processes : q # p => call'[q] = call[q]
    BY <1>1, <1>4 DEF HashRule
  <2>2. /\ pc' = [q \in Processes |-> pc'[q]] /\ pc'[p] = "hash"
        /\ \A q \in Processes : q # p => pc'[q] = pc[q]
    BY <1>4 DEF HashRule, Reads, Goto, TypeOK
  <2> QED
    BY <1>1, <2>1, <2>2, CallFields DEF Moves
<1> QED
  BY <1>2, <1>3, <1>4

LEMMA NamesMoves ==
  ASSUME TypeOK, NEW p \in Processes, NEW n \in {"listed", "hashed"},
         IF n = "listed" THEN ListNames(p) ELSE HashReceipt(p)
  PROVE  Moves(p, "inventory", Entry(call[p].results, call[p].manifest, n, call[p].hashed,
                                     call[p].rules, call[p].receipt, call[p].old))
<1>1. call[p] \in Call /\ call \in [Processes -> Call]
  BY DEF TypeOK
<1>2. /\ call' = [q \in Processes |-> call'[q]]
      /\ call'[p] = [call[p] EXCEPT !.names = n]
      /\ \A q \in Processes : q # p => call'[q] = call[q]
  BY <1>1 DEF ListNames, HashReceipt
<1>3. /\ pc' = [q \in Processes |-> pc'[q]] /\ pc'[p] = "inventory"
      /\ \A q \in Processes : q # p => pc'[q] = pc[q]
  BY DEF ListNames, HashReceipt, Reads, Goto, TypeOK
<1> QED
  BY <1>1, <1>2, <1>3, CallFields DEF Moves

LEMMA ReadReceiptMoves ==
  ASSUME TypeOK, NEW p \in Processes, ReadReceipt(p)
  PROVE  Moves(p, IF receipt = None THEN AfterCheck(p) ELSE "rules",
               Entry(call[p].results, call[p].manifest, "unread", {}, call[p].rules, receipt,
                     call[p].old))
<1>1. call[p] \in Call /\ call \in [Processes -> Call]
  BY DEF TypeOK
<1>2. /\ call' = [q \in Processes |-> call'[q]]
      /\ call'[p] = [call[p] EXCEPT !.receipt = receipt, !.hashed = {}, !.names = "unread"]
      /\ \A q \in Processes : q # p => call'[q] = call[q]
  BY <1>1 DEF ReadReceipt
<1>3. call'[p] = Entry(call[p].results, call[p].manifest, "unread", {}, call[p].rules, receipt,
                       call[p].old)
  BY <1>1, <1>2 DEF Call, Entry
<1>4. /\ pc' = [q \in Processes |-> pc'[q]]
      /\ pc'[p] = IF receipt = None THEN AfterCheck(p) ELSE "rules"
      /\ \A q \in Processes : q # p => pc'[q] = pc[q]
  BY DEF ReadReceipt, Reads, Goto, TypeOK
<1> QED
  BY <1>2, <1>3, <1>4 DEF Moves

LEMMA ValidateMoves ==
  ASSUME TypeOK, NEW p \in Processes, Validate(p)
  PROVE  Moves(p, IF pc[p] = "validate" THEN "stage" ELSE AfterCheck(p),
               Entry(call[p].results, call[p].manifest, call[p].names, {}, call[p].rules,
                     call[p].receipt, call[p].old))
<1>1. call[p] \in Call /\ call \in [Processes -> Call]
  BY DEF TypeOK
<1>2. /\ call' = [q \in Processes |-> call'[q]]
      /\ call'[p] = [call[p] EXCEPT !.hashed = {}]
      /\ \A q \in Processes : q # p => call'[q] = call[q]
  BY <1>1 DEF Validate
<1>3. /\ pc' = [q \in Processes |-> pc'[q]]
      /\ pc'[p] = IF pc[p] = "validate" THEN "stage" ELSE AfterCheck(p)
      /\ \A q \in Processes : q # p => pc'[q] = pc[q]
  BY DEF Validate, Reads, Goto, TypeOK
<1> QED
  BY <1>1, <1>2, <1>3, CallFields DEF Moves

LEMMA LoadMoves ==
  ASSUME TypeOK, NEW p \in Processes, Load(p)
  PROVE  Moves(p, "judge", Entry(call[p].results, manifest, call[p].names, call[p].hashed,
                                 call[p].rules, None, call[p].old))
<1>1. call[p] \in Call /\ call \in [Processes -> Call]
  BY DEF TypeOK
<1>2. /\ call' = [q \in Processes |-> call'[q]]
      /\ call'[p] = [call[p] EXCEPT !.manifest = manifest, !.receipt = None]
      /\ \A q \in Processes : q # p => call'[q] = call[q]
  BY <1>1 DEF Load
<1>3. call'[p] = Entry(call[p].results, manifest, call[p].names, call[p].hashed, call[p].rules,
                       None, call[p].old)
  BY <1>1, <1>2 DEF Call, Entry
<1>4. /\ pc' = [q \in Processes |-> pc'[q]] /\ pc'[p] = "judge"
      /\ \A q \in Processes : q # p => pc'[q] = pc[q]
  BY DEF Load, Reads, Goto, TypeOK
<1> QED
  BY <1>2, <1>3, <1>4 DEF Moves

Made(p) == [rules |-> call[p].rules, base |-> call[p].manifest.files, results |-> call[p].results]

LEMMA MakeReceiptMoves ==
  ASSUME TypeOK, NEW p \in Processes, MakeReceipt(p)
  PROVE  /\ Moves(p, "validate", Entry(call[p].results, call[p].manifest, call[p].names,
                                       call[p].hashed, NoRules, Made(p), call[p].old))
         /\ Made(p) \in Receipt
<1>1. call[p] \in Call /\ call \in [Processes -> Call] /\ pc[p] = "hash"
  BY DEF TypeOK, MakeReceipt
<1>2. /\ call' = [q \in Processes |-> call'[q]]
      /\ call'[p] = [call[p] EXCEPT !.rules = NoRules, !.receipt = Made(p)]
      /\ \A q \in Processes : q # p => call'[q] = call[q]
  BY <1>1 DEF MakeReceipt, Made
<1>3. call'[p] = Entry(call[p].results, call[p].manifest, call[p].names, call[p].hashed, NoRules,
                       Made(p), call[p].old)
  BY <1>1, <1>2 DEF Call, Entry
<1>4. /\ pc' = [q \in Processes |-> pc'[q]] /\ pc'[p] = "validate"
      /\ \A q \in Processes : q # p => pc'[q] = pc[q]
  BY DEF MakeReceipt, Reads, Goto, TypeOK
<1>5. Made(p) \in Receipt
  <2>1. call[p].manifest \in Manifest /\ call[p].results \in Results
    BY <1>1 DEF TypeOK, Preparing
  <2>2. call[p].rules \in [RuleFiles -> Versions]
    BY <1>1 DEF MakeReceipt, Call
  <2> QED
    BY <2>1, <2>2 DEF Made, Receipt, Manifest
<1> QED
  BY <1>2, <1>3, <1>4, <1>5 DEF Moves

LEMMA StageMoves ==
  ASSUME TypeOK, NEW p \in Processes, Stage(p)
  PROVE  Moves(p, "replace", Entry(call[p].results, call[p].manifest, call[p].names,
                                   call[p].hashed, call[p].rules, call[p].receipt, receipt))
<1>1. call[p] \in Call /\ call \in [Processes -> Call]
  BY DEF TypeOK
<1>2. /\ call' = [q \in Processes |-> call'[q]]
      /\ call'[p] = [call[p] EXCEPT !.old = receipt]
      /\ \A q \in Processes : q # p => call'[q] = call[q]
  BY <1>1 DEF Stage
<1>3. /\ pc' = [q \in Processes |-> pc'[q]] /\ pc'[p] = "replace"
      /\ \A q \in Processes : q # p => pc'[q] = pc[q]
  BY DEF Stage, Goto, TypeOK
<1>4. call'[p] = Entry(call[p].results, call[p].manifest, call[p].names, call[p].hashed,
                       call[p].rules, call[p].receipt, receipt)
  BY <1>1, <1>2 DEF Call, Entry
<1> QED
  BY <1>2, <1>3, <1>4 DEF Moves

Remembered(p) ==
  Entry(call[p].results, None, "unread", {}, NoRules, call[p].receipt, None)

LEMMA EndsMove ==
  ASSUME TypeOK, NEW p \in Processes, NEW label
  PROVE  /\ Succeeds(p, label) => Moves(p, label, Remembered(p))
         /\ Fails(p, label) => Moves(p, label, NoCall)
         /\ Forget(p) => Moves(p, "idle", NoCall)
<1>1. call[p] \in Call /\ call \in [Processes -> Call]
  BY DEF TypeOK
<1>2. ASSUME Succeeds(p, label) PROVE Moves(p, label, Remembered(p))
  <2>1. /\ call' = [q \in Processes |-> call'[q]]
        /\ call'[p] = [NoCall EXCEPT !.results = call[p].results, !.receipt = call[p].receipt]
        /\ \A q \in Processes : q # p => call'[q] = call[q]
    BY <1>1, <1>2 DEF Succeeds
  <2>2. call'[p] = Remembered(p)
    BY <2>1 DEF NoCall, Entry, Remembered
  <2>3. /\ pc' = [q \in Processes |-> pc'[q]] /\ pc'[p] = label
        /\ \A q \in Processes : q # p => pc'[q] = pc[q]
    BY <1>2 DEF Succeeds, Goto, TypeOK
  <2> QED
    BY <2>1, <2>2, <2>3 DEF Moves
<1>3. Fails(p, label) => Moves(p, label, NoCall)
  BY <1>1 DEF Fails, Goto, Moves, TypeOK
<1>4. Forget(p) => Moves(p, "idle", NoCall)
  BY <1>1 DEF Forget, Goto, Moves, TypeOK
<1> QED
  BY <1>2, <1>3, <1>4

-----------------------------------------------------------------------------
(* Types *)

Labels == {"idle", "exists"} \cup Checking \cup Preparing \cup Sealing \cup Done

\* What a call k at a label has read.
Fits(label, k, record) ==
  /\ k.results # None => record[k.results] # None
  /\ label \in {"inventory", "rules"} \cup (Preparing \ {"load"}) \cup Sealing =>
       k.manifest \in Manifest
  /\ label \in Preparing \cup Sealing \cup {"sealed"} => k.results \in Results
  /\ label \in {"rules", "validate", "stage", "replace", "sealed"} \cup Sealing =>
       k.receipt \in Receipt

FilesOK ==
  /\ payload \in Content /\ manifest \in Manifest /\ receipt \in Receipt \cup {None}
  /\ scratch \in SUBSET Processes /\ litter \in BOOLEAN
  /\ recorded \in [Results -> Record \cup {None}]
  /\ events \in 0 .. MaxEvents
GhostsOK ==
  /\ DOMAIN before \subseteq Processes /\ overtaken \in SUBSET Results
  /\ held \in [Processes -> [Files -> SUBSET Versions]]

CallsOK ==
  /\ pc \in [Processes -> Labels] /\ call \in [Processes -> Call]
  /\ \A p \in Processes : Fits(pc[p], call[p], recorded)

LEMMA TypeParts ==
  /\ TypeOK <=> FilesOK /\ GhostsOK /\ CallsOK
  /\ TypeOK' <=> FilesOK' /\ GhostsOK' /\ CallsOK'
  BY DEF TypeOK, FilesOK, GhostsOK, CallsOK, Labels, Fits

LEMMA MoveKeepsTypes ==
  ASSUME TypeOK, NEW p \in Processes, NEW label \in Labels, NEW k \in Call,
         Moves(p, label, k), Fits(label, k, recorded), UNCHANGED recorded, FilesOK', GhostsOK'
  PROVE  TypeOK'
<1>1. pc' \in [Processes -> Labels] /\ call' \in [Processes -> Call]
  BY TypeParts DEF Moves, CallsOK
<1>2. \A q \in Processes : Fits(pc'[q], call'[q], recorded')
  <2> SUFFICES ASSUME NEW q \in Processes PROVE Fits(pc'[q], call'[q], recorded)
    OBVIOUS
  <2>1. CASE q = p
    BY <2>1 DEF Moves
  <2>2. CASE q # p
    BY <2>2, TypeParts DEF Moves, CallsOK
  <2> QED
    BY <2>1, <2>2
<1> QED
  BY <1>1, <1>2, TypeParts DEF CallsOK

LEMMA AloneKeepsTypes ==
  ASSUME GhostsOK, NEW S, Alone(S), UNCHANGED <<held, overtaken>>
  PROVE  GhostsOK'
  BY DEF GhostsOK, Alone

LEMMA BecomesKeepsTypes ==
  ASSUME GhostsOK, NEW c \in Content, Becomes(c)
  PROVE  GhostsOK'
<1>1. DOMAIN before' \subseteq Processes /\ overtaken' \in SUBSET Results
  BY DEF GhostsOK, Becomes, Alone
<1>2. held' \in [Processes -> [Files -> SUBSET Versions]]
  BY DEF GhostsOK, Becomes, Content
<1> QED
  BY <1>1, <1>2 DEF GhostsOK

\* The state stays in its types, and a call past a step has what the step read,
\* whatever calls, edits and crashes overlap.
THEOREM TypeCorrect == Spec => []TypeOK
<1> USE EvaluationAssumption
<1>1. Init => TypeOK
  <2> SUFFICES ASSUME Init PROVE TypeOK
    OBVIOUS
  <2>1. NoCall.results = None
    BY NoCallIsCall DEF Entry
  <2>2. FilesOK
    <3>1. manifest \in Manifest /\ recorded \in [Results -> Record \cup {None}]
      BY DEF Init, Manifest
    <3>2. scratch = {} /\ litter = FALSE /\ events = 0
      BY DEF Init
    <3>3. scratch \in SUBSET Processes /\ litter \in BOOLEAN
      BY <3>2
    <3>4. events \in 0 .. MaxEvents
      BY <3>2
    <3> QED
      BY <3>1, <3>3, <3>4 DEF Init, FilesOK
  <2>3. GhostsOK
    <3>1. DOMAIN before = {} /\ overtaken = {}
      BY DEF Init
    <3>2. held \in [Processes -> [Files -> SUBSET Versions]]
      BY DEF Init
    <3> QED
      BY <3>1, <3>2 DEF GhostsOK
  <2>4. pc \in [Processes -> Labels] /\ call \in [Processes -> Call]
    BY NoCallIsCall DEF Init, Labels
  <2>5. ASSUME NEW p \in Processes PROVE Fits(pc[p], call[p], recorded)
    <3>1. pc[p] = "idle" /\ call[p] = NoCall
      BY DEF Init
    <3> QED
      BY <2>1, <3>1 DEF Fits, Preparing, Sealing
  <2> QED
    BY <2>2, <2>3, <2>4, <2>5, TypeParts DEF CallsOK
<1>2. TypeOK /\ [Next]_vars => TypeOK'
  <2> SUFFICES ASSUME TypeOK, [Next]_vars
               PROVE  TypeOK'
    OBVIOUS
  <2>a. /\ FilesOK /\ GhostsOK /\ pc \in [Processes -> Labels] /\ call \in [Processes -> Call]
        /\ \A p \in Processes : Fits(pc[p], call[p], recorded) /\ call[p] \in Call
    BY TypeParts DEF CallsOK
  <2>b. \A p \in Processes :
          /\ call[p].results \in Results \cup {None} /\ call[p].manifest \in Manifest \cup {None}
          /\ call[p].names \in {"unread", "listed", "hashed"} /\ call[p].hashed \in SUBSET Files
          /\ call[p].rules \in [RuleFiles -> Versions \cup {None}]
          /\ call[p].receipt \in Receipt \cup {None} /\ call[p].old \in Receipt \cup {None}
    BY <2>a DEF Call
  <2>c. ASSUME NEW p \in Processes, UNCHANGED <<world, ghosts>>,
               NEW label \in Labels, NEW k \in Call, Moves(p, label, k), Fits(label, k, recorded)
        PROVE  TypeOK'
    <3>1. UNCHANGED <<payload, manifest, receipt, scratch, litter, recorded, events,
                      before, held, overtaken>>
      BY <2>c DEF world, ghosts
    <3>2. FilesOK' /\ GhostsOK'
      BY <2>a, <3>1 DEF FilesOK, GhostsOK
    <3> QED
      BY <2>c, <3>1, <3>2, MoveKeepsTypes
  <2>d. \A p \in Processes : Fits("failed", NoCall, recorded) /\ Fits("idle", NoCall, recorded)
                             /\ Fits("stale", NoCall, recorded) /\ Fits("missing", NoCall, recorded)
                             /\ Fits("unrestored", NoCall, recorded)
    BY NoCallIsCall DEF Fits, Entry, Preparing, Sealing
  <2>e. /\ {"idle", "manifest", "inventory", "rules", "load", "judge", "hash", "validate", "stage",
            "replace", "index", "rollback", "exists", "sealed", "failed", "unrestored", "passed",
            "missing", "stale"} \subseteq Labels
    BY DEF Labels, Checking, Preparing, Sealing, Done
  <2>1. ASSUME NEW p \in Processes, Start(p) PROVE TypeOK'
    <3>1. PICK i \in {None} \cup {j \in Results : recorded[j] # None} :
           /\ Moves(p, "manifest", Entry(i, call[p].manifest, call[p].names, call[p].hashed,
                                         call[p].rules, call[p].receipt, call[p].old))
           /\ before' = IF i = None THEN before
                        ELSE [q \in DOMAIN before \cup {p} |-> IF q = p THEN package ELSE before[q]]
           /\ held' = IF i = None THEN [held EXCEPT ![p] = [f \in Files |-> {payload[f]}]] ELSE held
      BY <2>1, StartMoves
    <3> DEFINE k == Entry(i, call[p].manifest, call[p].names, call[p].hashed,
                          call[p].rules, call[p].receipt, call[p].old)
    <3>2. k \in Call
      BY <2>b, EntryIsCall
    <3>3. Fits("manifest", k, recorded)
      BY <3>1 DEF Fits, Entry, Preparing, Sealing
    <3>4. UNCHANGED <<payload, manifest, receipt, scratch, litter, recorded, events, overtaken>>
      BY <2>1 DEF Start, world
    <3>5. FilesOK'
      BY <2>a, <3>4 DEF FilesOK
    <3>6. GhostsOK'
      <4>1. DOMAIN before' \subseteq Processes
        BY <2>a, <3>1 DEF GhostsOK
      <4>2. held' \in [Processes -> [Files -> SUBSET Versions]]
        <5>1. [f \in Files |-> {payload[f]}] \in [Files -> SUBSET Versions]
          BY <2>a DEF FilesOK, Content
        <5> QED
          BY <2>a, <3>1, <5>1 DEF GhostsOK
      <4> QED
        BY <2>a, <3>4, <4>1, <4>2 DEF GhostsOK
    <3> HIDE DEF k
    <3> QED
      BY <2>e, <3>1, <3>2, <3>3, <3>4, <3>5, <3>6, MoveKeepsTypes DEF k
  <2>2. ASSUME NEW p \in Processes, ReadManifest(p) PROVE TypeOK'
    <3> DEFINE k == Entry(call[p].results, manifest, call[p].names, call[p].hashed,
                          call[p].rules, call[p].receipt, call[p].old)
    <3>1. Moves(p, "inventory", k)
      BY <2>2, ReadManifestMoves
    <3>2. k \in Call
      BY <2>2, <2>a, <2>b, EntryIsCall DEF FilesOK
    <3>3. Fits("inventory", k, recorded) /\ "inventory" \in Labels
      BY <2>2, <2>a, <2>b, <2>e DEF FilesOK, Fits, Entry, Preparing, Sealing
    <3>4. UNCHANGED <<world, ghosts>>
      BY <2>2 DEF ReadManifest, Reads
    <3> HIDE DEF k
    <3> QED
      BY <2>c, <3>1, <3>2, <3>3, <3>4
  <2>3. ASSUME NEW p \in Processes, ListNames(p) PROVE TypeOK'
    <3> DEFINE k == Entry(call[p].results, call[p].manifest, "listed", call[p].hashed,
                          call[p].rules, call[p].receipt, call[p].old)
    <3>1. Moves(p, "inventory", k)
      BY <2>3, NamesMoves
    <3>2. k \in Call
      BY <2>3, <2>a, <2>b, EntryIsCall
    <3>3. Fits("inventory", k, recorded) /\ "inventory" \in Labels
      BY <2>3, <2>a, <2>b, <2>e DEF ListNames, Fits, Entry, Preparing, Sealing
    <3>4. UNCHANGED <<world, ghosts>>
      BY <2>3 DEF ListNames, Reads
    <3> HIDE DEF k
    <3> QED
      BY <2>c, <3>1, <3>2, <3>3, <3>4
  <2>4. ASSUME NEW p \in Processes, HashReceipt(p) PROVE TypeOK'
    <3> DEFINE k == Entry(call[p].results, call[p].manifest, "hashed", call[p].hashed,
                          call[p].rules, call[p].receipt, call[p].old)
    <3>1. Moves(p, "inventory", k)
      BY <2>4, NamesMoves
    <3>2. k \in Call
      BY <2>4, <2>a, <2>b, EntryIsCall
    <3>3. Fits("inventory", k, recorded) /\ "inventory" \in Labels
      BY <2>4, <2>a, <2>b, <2>e DEF HashReceipt, Fits, Entry, Preparing, Sealing
    <3>4. UNCHANGED <<world, ghosts>>
      BY <2>4 DEF HashReceipt, Reads
    <3> HIDE DEF k
    <3> QED
      BY <2>c, <3>1, <3>2, <3>3, <3>4
  <2>5. ASSUME NEW p \in Processes, NEW f \in Files, HashFile(p, f) PROVE TypeOK'
    <3> DEFINE k == Entry(call[p].results, call[p].manifest, call[p].names,
                          call[p].hashed \cup {f}, call[p].rules, call[p].receipt, call[p].old)
    <3>1. Moves(p, "inventory", k)
      BY <2>5, HashingMoves
    <3>2. k \in Call
      <4>1. call[p].hashed \cup {f} \in SUBSET Files
        BY <2>5, <2>b
      <4> QED
        BY <2>b, <4>1, EntryIsCall
    <3>3. Fits("inventory", k, recorded) /\ "inventory" \in Labels
      BY <2>5, <2>a, <2>b, <2>e DEF HashFile, Fits, Entry, Preparing, Sealing
    <3>4. UNCHANGED <<world, ghosts>>
      BY <2>5 DEF HashFile, Reads
    <3> HIDE DEF k
    <3> QED
      BY <2>c, <3>1, <3>2, <3>3, <3>4
  <2>6. ASSUME NEW p \in Processes, ReadReceipt(p) PROVE TypeOK'
    <3> DEFINE k == Entry(call[p].results, call[p].manifest, "unread", {}, call[p].rules,
                          receipt, call[p].old)
    <3>1. Moves(p, (IF receipt = None THEN AfterCheck(p) ELSE "rules"), k)
      BY <2>6, ReadReceiptMoves
    <3>2. k \in Call
      BY <2>6, <2>a, <2>b, EntryIsCall DEF FilesOK
    <3>3. Fits((IF receipt = None THEN AfterCheck(p) ELSE "rules"), k, recorded)
          /\ (IF receipt = None THEN AfterCheck(p) ELSE "rules") \in Labels
      BY <2>6, <2>a, <2>b, <2>e DEF ReadReceipt, AfterCheck, Evaluating, FilesOK, Fits, Entry,
         Preparing, Sealing
    <3>4. UNCHANGED <<world, ghosts>>
      BY <2>6 DEF ReadReceipt, Reads
    <3> HIDE DEF k
    <3> QED
      BY <2>c, <3>1, <3>2, <3>3, <3>4
  <2>7. ASSUME NEW p \in Processes, NEW f \in RuleFiles, CompareRule(p, f) PROVE TypeOK'
    <3> DEFINE k == Entry(call[p].results, call[p].manifest, call[p].names,
                          call[p].hashed \cup {f}, call[p].rules, call[p].receipt, call[p].old)
    <3>1. Moves(p, pc[p], k)
      BY <2>7, HashingMoves
    <3>2. k \in Call
      <4>1. call[p].hashed \cup {f} \in SUBSET Files
        BY <2>7, <2>b, EvaluationAssumption
      <4> QED
        BY <2>b, <4>1, EntryIsCall
    <3>3. Fits(pc[p], k, recorded) /\ pc[p] \in Labels
      BY <2>7, <2>a, <2>b, <2>e DEF CompareRule, Fits, Entry, Preparing, Sealing
    <3>4. UNCHANGED <<world, ghosts>>
      BY <2>7 DEF CompareRule, Reads
    <3> HIDE DEF k
    <3> QED
      BY <2>c, <3>1, <3>2, <3>3, <3>4
  <2>8. ASSUME NEW p \in Processes, Validate(p) PROVE TypeOK'
    <3> DEFINE k == Entry(call[p].results, call[p].manifest, call[p].names, {}, call[p].rules,
                          call[p].receipt, call[p].old)
    <3>1. Moves(p, (IF pc[p] = "validate" THEN "stage" ELSE AfterCheck(p)), k)
      BY <2>8, ValidateMoves
    <3>2. k \in Call
      BY <2>8, <2>a, <2>b, EntryIsCall
    <3>3. Fits((IF pc[p] = "validate" THEN "stage" ELSE AfterCheck(p)), k, recorded)
          /\ (IF pc[p] = "validate" THEN "stage" ELSE AfterCheck(p)) \in Labels
      BY <2>8, <2>a, <2>b, <2>e DEF Validate, AfterCheck, Evaluating, Fits, Entry, Preparing,
         Sealing
    <3>4. UNCHANGED <<world, ghosts>>
      BY <2>8 DEF Validate, Reads
    <3> HIDE DEF k
    <3> QED
      BY <2>c, <3>1, <3>2, <3>3, <3>4
  <2>9. ASSUME NEW p \in Processes, Load(p) PROVE TypeOK'
    <3> DEFINE k == Entry(call[p].results, manifest, call[p].names, call[p].hashed,
                          call[p].rules, None, call[p].old)
    <3>1. Moves(p, "judge", k)
      BY <2>9, LoadMoves
    <3>2. k \in Call
      BY <2>9, <2>a, <2>b, EntryIsCall DEF FilesOK
    <3>3. Fits("judge", k, recorded) /\ "judge" \in Labels
      BY <2>9, <2>a, <2>b, <2>e DEF Load, FilesOK, Fits, Entry, Preparing, Sealing
    <3>4. UNCHANGED <<world, ghosts>>
      BY <2>9 DEF Load, Reads
    <3> HIDE DEF k
    <3> QED
      BY <2>c, <3>1, <3>2, <3>3, <3>4
  <2>10. ASSUME NEW p \in Processes, NEW f \in RuleFiles, HashRule(p, f) PROVE TypeOK'
    <3> DEFINE k == Entry(call[p].results, call[p].manifest, call[p].names, call[p].hashed,
                          [call[p].rules EXCEPT ![f] = payload[f]], call[p].receipt, call[p].old)
    <3>1. Moves(p, "hash", k)
      BY <2>10, HashingMoves
    <3>2. k \in Call
      BY <2>10, <2>a, <2>b, EntryIsCall, EvaluationAssumption DEF FilesOK, Content
    <3>3. Fits("hash", k, recorded) /\ "hash" \in Labels
      BY <2>10, <2>a, <2>b, <2>e DEF HashRule, Fits, Entry, Preparing, Sealing
    <3>4. UNCHANGED <<world, ghosts>>
      BY <2>10 DEF HashRule, Reads
    <3> HIDE DEF k
    <3> QED
      BY <2>c, <3>1, <3>2, <3>3, <3>4
  <2>11. ASSUME NEW p \in Processes, MakeReceipt(p) PROVE TypeOK'
    <3> DEFINE k == Entry(call[p].results, call[p].manifest, call[p].names, call[p].hashed,
                          NoRules, Made(p), call[p].old)
    <3>1. Moves(p, "validate", k)
      BY <2>11, MakeReceiptMoves
    <3>2. k \in Call
      BY <2>11, <2>a, <2>b, EntryIsCall, MakeReceiptMoves DEF NoRules
    <3>3. Fits("validate", k, recorded) /\ "validate" \in Labels
      BY <2>11, <2>a, <2>b, <2>e, MakeReceiptMoves DEF MakeReceipt, Fits, Entry, Preparing, Sealing
    <3>4. UNCHANGED <<world, ghosts>>
      BY <2>11 DEF MakeReceipt, Reads
    <3> HIDE DEF k
    <3> QED
      BY <2>c, <3>1, <3>2, <3>3, <3>4
  <2>12. ASSUME NEW p \in Processes, Judge(p) \/ ManifestFails(p) PROVE TypeOK'
    <3>1. /\ UNCHANGED <<payload, manifest, receipt, scratch, litter, recorded, events,
                         before, held, overtaken, call>>
          /\ \/ pc[p] = "judge" /\ pc' = [pc EXCEPT ![p] = "hash"]
             \/ pc[p] = "index" /\ pc' = [pc EXCEPT ![p] = "rollback"]
      BY <2>12 DEF Judge, ManifestFails, Reads, Goto, world, ghosts
    <3>2. FilesOK' /\ GhostsOK' /\ call' \in [Processes -> Call]
      BY <2>a, <3>1 DEF FilesOK, GhostsOK
    <3>4. pc' \in [Processes -> Labels]
      BY <2>a, <2>e, <3>1
    <3>3. ASSUME NEW q \in Processes PROVE Fits(pc'[q], call'[q], recorded')
      BY <2>a, <3>1 DEF Fits, Preparing, Sealing
    <3> QED
      BY <3>2, <3>3, <3>4, TypeParts DEF CallsOK
  <2>13. ASSUME NEW p \in Processes, FindStale(p) PROVE TypeOK'
    <3>1. Moves(p, "stale", NoCall) /\ UNCHANGED <<world, ghosts>>
      BY <2>13, EndsMove DEF FindStale
    <3> QED
      BY <2>c, <2>d, <2>e, <3>1, NoCallIsCall
  <2>14. ASSUME NEW p \in Processes, Answer(p) PROVE TypeOK'
    <3>1. UNCHANGED <<world, ghosts>>
      BY <2>14 DEF Answer
    <3>2. CASE Moves(p, "passed", Remembered(p))
      <4>1. Remembered(p) \in Call
        BY <2>b, EntryIsCall DEF Remembered, NoRules
      <4>2. Fits("passed", Remembered(p), recorded)
        BY <2>a DEF Fits, Remembered, Entry, Preparing, Sealing
      <4> QED
        BY <2>c, <2>e, <3>1, <3>2, <4>1, <4>2
    <3>3. CASE Moves(p, "missing", NoCall)
      BY <2>c, <2>d, <2>e, <3>1, <3>3, NoCallIsCall
    <3> QED
      BY <2>14, <3>2, <3>3, EndsMove DEF Answer
  <2>15. ASSUME NEW p \in Processes, Stage(p) PROVE TypeOK'
    <3> DEFINE k == Entry(call[p].results, call[p].manifest, call[p].names,
                          call[p].hashed, call[p].rules, call[p].receipt, receipt)
    <3>1. Moves(p, "replace", k)
      BY <2>15, StageMoves
    <3>2. k \in Call
      BY <2>a, <2>b, EntryIsCall DEF FilesOK
    <3>3. Fits("replace", k, recorded)
      BY <2>15, <2>a DEF Stage, Fits, Entry, Preparing, Sealing
    <3>4. FilesOK' /\ UNCHANGED recorded
      BY <2>15, <2>a DEF Stage, FilesOK, package
    <3>5. GhostsOK'
      BY <2>15, <2>a, AloneKeepsTypes DEF Stage, Disturbs
    <3> HIDE DEF k
    <3> QED
      BY <2>e, <3>1, <3>2, <3>3, <3>4, <3>5, MoveKeepsTypes
  <2>16. ASSUME NEW p \in Processes, ReplaceReceipt(p) PROVE TypeOK'
    <3>1. pc[p] = "replace" /\ receipt' = call[p].receipt /\ call[p].receipt \in Receipt
      BY <2>16, <2>a DEF ReplaceReceipt, Fits
    <3>2. FilesOK' /\ UNCHANGED <<recorded, call>>
      BY <2>16, <2>a, <3>1 DEF ReplaceReceipt, FilesOK
    <3>3. GhostsOK'
      BY <2>16, <2>a, AloneKeepsTypes DEF ReplaceReceipt, Disturbs
    <3>4. pc' = [pc EXCEPT ![p] = "index"]
      BY <2>16 DEF ReplaceReceipt, Goto
    <3>5. pc' \in [Processes -> Labels]
      BY <2>a, <2>e, <3>4
    <3>6. ASSUME NEW q \in Processes PROVE Fits(pc'[q], call'[q], recorded')
      BY <2>a, <3>1, <3>2, <3>4 DEF Fits, Preparing, Sealing
    <3> QED
      BY <2>a, <3>2, <3>3, <3>5, <3>6, TypeParts DEF CallsOK
  <2>17. ASSUME NEW p \in Processes, ReplaceManifest(p) PROVE TypeOK'
    <3>1. Moves(p, "sealed", Remembered(p))
      BY <2>17, EndsMove DEF ReplaceManifest
    <3>2. Remembered(p) \in Call
      BY <2>b, EntryIsCall DEF Remembered, NoRules
    <3>3. /\ call[p].manifest \in Manifest /\ call[p].receipt \in Receipt
          /\ call[p].results \in Results
      BY <2>17, <2>a DEF ReplaceManifest, Fits, Sealing
    <3>4. Fits("sealed", Remembered(p), recorded)
      BY <2>a, <3>3 DEF Fits, Remembered, Entry, Preparing, Sealing
    <3>5. manifest' \in Manifest
      BY <2>17, <3>3 DEF ReplaceManifest, Manifest
    <3>6. FilesOK' /\ UNCHANGED recorded
      BY <2>17, <2>a, <3>5 DEF ReplaceManifest, FilesOK
    <3>7. GhostsOK'
      BY <2>17, <2>a, AloneKeepsTypes DEF ReplaceManifest, Disturbs
    <3> QED
      BY <2>e, <3>1, <3>2, <3>4, <3>6, <3>7, MoveKeepsTypes
  <2>18. ASSUME NEW p \in Processes, RollBack(p) PROVE TypeOK'
    <3>1. Moves(p, "failed", NoCall)
      BY <2>18, EndsMove DEF RollBack
    <3>2. FilesOK' /\ UNCHANGED recorded
      BY <2>18, <2>a, <2>b DEF RollBack, FilesOK
    <3>3. GhostsOK'
      BY <2>18, <2>a, AloneKeepsTypes DEF RollBack, Disturbs
    <3> QED
      BY <2>d, <2>e, <3>1, <3>2, <3>3, NoCallIsCall, MoveKeepsTypes
  <2>19. ASSUME NEW p \in Processes, RollBackFails(p) PROVE TypeOK'
    <3>1. Moves(p, "unrestored", NoCall)
      BY <2>19, EndsMove DEF RollBackFails
    <3>2. FilesOK' /\ UNCHANGED recorded
      BY <2>19, <2>a DEF RollBackFails, FilesOK, package
    <3>3. GhostsOK'
      BY <2>19, <2>a, AloneKeepsTypes DEF RollBackFails, Disturbs
    <3> QED
      BY <2>d, <2>e, <3>1, <3>2, <3>3, NoCallIsCall, MoveKeepsTypes
  <2>20. ASSUME NEW p \in Processes, Fail(p) PROVE TypeOK'
    <3>1. Moves(p, "failed", NoCall)
      BY <2>20, EndsMove DEF Fail
    <3>2. FilesOK' /\ UNCHANGED recorded
      BY <2>20, <2>a DEF Fail, FilesOK, package
    <3>3. GhostsOK'
      BY <2>20, <2>a, AloneKeepsTypes DEF Fail
    <3> QED
      BY <2>d, <2>e, <3>1, <3>2, <3>3, NoCallIsCall, MoveKeepsTypes
  <2>21. ASSUME NEW p \in Processes, End(p) \/ Crash(p) PROVE TypeOK'
    <3>1. Moves(p, "idle", NoCall)
      BY <2>21, EndsMove DEF End, Crash
    <3>2. FilesOK' /\ UNCHANGED recorded
      <4>1. CASE End(p)
        BY <4>1, <2>a DEF End, FilesOK, world
      <4>2. CASE Crash(p)
        BY <4>2, <2>a DEF Crash, FilesOK
      <4> QED
        BY <2>21, <4>1, <4>2
    <3>3. DOMAIN before' \subseteq Processes /\ overtaken' = overtaken
      BY <2>21, <2>a DEF End, Crash, Alone, GhostsOK
    <3>4. held' \in [Processes -> [Files -> SUBSET Versions]]
      BY <2>21, <2>a DEF End, Crash, Forget, GhostsOK
    <3>5. GhostsOK'
      BY <2>a, <3>3, <3>4 DEF GhostsOK
    <3> QED
      BY <2>d, <2>e, <3>1, <3>2, <3>5, NoCallIsCall, MoveKeepsTypes
  <2>f. ASSUME UNCHANGED <<pc, call>>, FilesOK', GhostsOK',
               \A j \in Results : recorded[j] # None => recorded'[j] # None
        PROVE  TypeOK'
    <3>1. ASSUME NEW q \in Processes PROVE Fits(pc'[q], call'[q], recorded')
      BY <2>a, <2>b, <2>f DEF Fits
    <3> QED
      BY <2>a, <2>f, <3>1, TypeParts DEF CallsOK
  <2>22. ASSUME NEW i \in Results, Evaluate(i) PROVE TypeOK'
    <3>1. PICK outcome \in [Scenarios -> States] :
            recorded' = [recorded EXCEPT ![i] =
              [manifest |-> manifest, outcome |-> outcome, of |-> payload]]
      BY <2>22 DEF Evaluate
    <3>2. [manifest |-> manifest, outcome |-> outcome, of |-> payload] \in Record
      BY <2>a DEF Record, FilesOK
    <3>3. /\ recorded' \in [Results -> Record \cup {None}] /\ recorded[i] = None
          /\ \A j \in Results : recorded[j] # None => recorded'[j] = recorded[j]
      BY <2>22, <2>a, <3>1, <3>2 DEF Evaluate, FilesOK
    <3>4. UNCHANGED <<payload, manifest, receipt, litter, scratch, pc, call, before, held, overtaken>>
      BY <2>22 DEF Evaluate, package, ghosts
    <3>5. events' \in 0 .. MaxEvents
      BY <2>22, <2>a, EvaluationAssumption DEF Evaluate, Happens, FilesOK
    <3>6. FilesOK' /\ GhostsOK'
      BY <2>a, <3>3, <3>4, <3>5 DEF FilesOK, GhostsOK
    <3> QED
      BY <2>f, <3>3, <3>4, <3>6
  <2>23. ASSUME NEW f \in Files, NEW v \in Versions, Edit(f, v) PROVE TypeOK'
    <3>1. [payload EXCEPT ![f] = v] \in Content
      BY <2>a DEF FilesOK, Content
    <3>2. Becomes([payload EXCEPT ![f] = v])
      BY <2>23 DEF Edit
    <3>3. GhostsOK' /\ payload' \in Content
      BY <2>a, <3>1, <3>2, BecomesKeepsTypes DEF Becomes
    <3>4. events' \in 0 .. MaxEvents
      BY <2>23, <2>a, EvaluationAssumption DEF Edit, Happens, FilesOK
    <3>5. FilesOK' /\ UNCHANGED <<recorded, pc, call>>
      BY <2>23, <2>a, <3>3, <3>4 DEF Edit, FilesOK
    <3> QED
      BY <2>f, <3>3, <3>5
  <2>24. ASSUME NEW c \in Content, Generate(c) PROVE TypeOK'
    <3>1. GhostsOK' /\ payload' \in Content
      BY <2>24, <2>a, BecomesKeepsTypes DEF Generate, Becomes
    <3>2. manifest' \in Manifest
      BY <2>24 DEF Generate, Manifest
    <3>3. events' \in 0 .. MaxEvents
      BY <2>24, <2>a, EvaluationAssumption DEF Generate, Happens, FilesOK
    <3>4. scratch' = {} /\ litter' = FALSE /\ receipt' = None /\ UNCHANGED <<recorded, pc, call>>
      BY <2>24 DEF Generate
    <3>5. FilesOK'
      BY <2>a, <3>1, <3>2, <3>3, <3>4 DEF FilesOK
    <3> QED
      BY <2>f, <3>1, <3>4, <3>5
  <2>25. CASE Relist
    <3>1. manifest' \in Manifest
      BY <2>25, <2>a DEF Relist, Manifest, FilesOK
    <3>2. events' \in 0 .. MaxEvents
      BY <2>25, <2>a, EvaluationAssumption DEF Relist, Happens, FilesOK
    <3>3. FilesOK' /\ UNCHANGED <<recorded, pc, call>>
      BY <2>25, <2>a, <3>1, <3>2 DEF Relist, FilesOK
    <3>4. GhostsOK'
      BY <2>25, <2>a, AloneKeepsTypes DEF Relist
    <3> QED
      BY <2>f, <3>3, <3>4
  <2>26. CASE UNCHANGED vars
    <3>1. UNCHANGED <<payload, manifest, receipt, scratch, litter, recorded, events, pc, call,
                      before, held, overtaken>>
      BY <2>26 DEF vars, world, ghosts
    <3>2. FilesOK' /\ GhostsOK'
      BY <2>a, <3>1 DEF FilesOK, GhostsOK
    <3> QED
      BY <2>f, <3>1, <3>2
  <2> QED
    BY <2>1, <2>2, <2>3, <2>4, <2>5, <2>6, <2>7, <2>8, <2>9, <2>10, <2>11, <2>12, <2>13,
       <2>14, <2>15, <2>16, <2>17, <2>18, <2>19, <2>20, <2>21, <2>22, <2>23, <2>24, <2>25,
       <2>26 DEF Next
<1> QED
  BY <1>1, <1>2, PTL DEF Spec

-----------------------------------------------------------------------------
(* Receipts name results that were observed on the files they list *)

\* What the results i show of scenarios v, unless they were overtaken.
Meets(i, v, record, late) == Passes(record[i].outcome, v) \/ i \in late

Genuine(r, record, late) ==
  /\ record[r.results] # None
  /\ record[r.results].of = r.base
  /\ Meets(r.results, r.rules[ScenarioFile], record, late)

\* A call k at a label keeps genuine receipts; between judging and hashing, its results
\* meet the scenarios that were hashed, or else that are there.
Honest(label, k, record, late, content) ==
  /\ k.receipt # None => Genuine(k.receipt, record, late)
  /\ k.old # None => Genuine(k.old, record, late)
  /\ label # "hash" => k.rules = NoRules
  /\ label = "hash" =>
       /\ k.manifest = record[k.results].manifest
       /\ k.rules[ScenarioFile] = None => Meets(k.results, content[ScenarioFile], record, late)
       /\ k.rules[ScenarioFile] # None => Meets(k.results, k.rules[ScenarioFile], record, late)

ReceiptInv ==
  /\ receipt # None => Genuine(receipt, recorded, overtaken)
  /\ \A i \in Results : recorded[i] # None => recorded[i].of = recorded[i].manifest.files
  /\ \A p \in Processes : Honest(pc[p], call[p], recorded, overtaken, payload)

\* Results are recorded once, and stay overtaken.
LEMMA RecordsStay ==
  ASSUME TypeOK, [Next]_vars
  PROVE  /\ \A i \in Results : recorded[i] # None => recorded'[i] = recorded[i]
         /\ overtaken \subseteq overtaken'
<1>1. CASE \E j \in Results : Evaluate(j)
  BY <1>1 DEF Evaluate, TypeOK, ghosts
<1>2. CASE UNCHANGED <<recorded, overtaken>>
  BY <1>2
<1>3. CASE UNCHANGED recorded /\ \E c : Becomes(c)
  BY <1>3 DEF Becomes
<1>4. ASSUME NEW p \in Processes, NEW f, HashFile(p, f) \/ CompareRule(p, f) \/ HashRule(p, f)
      PROVE  UNCHANGED <<recorded, overtaken>>
  BY <1>4 DEF HashFile, CompareRule, HashRule, Reads, world, ghosts
<1>5. ASSUME NEW p \in Processes,
             \/ Start(p) \/ ReadManifest(p) \/ ListNames(p) \/ HashReceipt(p) \/ ReadReceipt(p)
             \/ Validate(p) \/ FindStale(p) \/ Answer(p) \/ Load(p) \/ Judge(p) \/ MakeReceipt(p)
             \/ ManifestFails(p)
      PROVE  UNCHANGED <<recorded, overtaken>>
  BY <1>5 DEF Start, ReadManifest, ListNames, HashReceipt, ReadReceipt, Validate, FindStale, Answer,
     Load, Judge, MakeReceipt, ManifestFails, Reads, world, ghosts
<1>6. ASSUME NEW p \in Processes,
             \/ Stage(p) \/ ReplaceReceipt(p) \/ ReplaceManifest(p)
             \/ RollBack(p) \/ RollBackFails(p) \/ Fail(p) \/ End(p) \/ Crash(p)
      PROVE  UNCHANGED <<recorded, overtaken>>
  BY <1>6 DEF Stage, ReplaceReceipt, ReplaceManifest, RollBack, RollBackFails, Fail, End, Crash,
     world
<1>7. CASE (\E f \in Files, v \in Versions : Edit(f, v)) \/ \E c \in Content : Generate(c)
  BY <1>3, <1>7 DEF Edit, Generate
<1>8. CASE Relist \/ UNCHANGED vars
  BY <1>2, <1>8 DEF Relist, vars, world, ghosts
<1> QED
  BY <1>1, <1>2, <1>4, <1>5, <1>6, <1>7, <1>8 DEF Next

LEMMA GenuineStays ==
  ASSUME TypeOK, [Next]_vars, NEW r \in Receipt, Genuine(r, recorded, overtaken)
  PROVE  Genuine(r, recorded', overtaken')
<1>1. r.results \in Results
  BY DEF Receipt
<1> QED
  BY <1>1, RecordsStay DEF Genuine, Meets

LEMMA MoveKeepsHonest ==
  ASSUME ReceiptInv, NEW p \in Processes, NEW label, NEW k, Moves(p, label, k),
         UNCHANGED <<payload, recorded, overtaken>>,
         receipt' # None => Genuine(receipt', recorded, overtaken),
         Honest(label, k, recorded, overtaken, payload)
  PROVE  ReceiptInv'
<1>1. \A q \in Processes : Honest(pc'[q], call'[q], recorded, overtaken, payload)
  BY DEF ReceiptInv, Moves
<1> QED
  BY <1>1 DEF ReceiptInv

\* Files change or results are recorded, and no call moves.
LEMMA OthersKeepHonest ==
  ASSUME TypeOK, ReceiptInv, [Next]_vars, UNCHANGED <<pc, call>>,
         receipt' = receipt \/ receipt' = None,
         \A i \in Results : recorded'[i] # None => recorded'[i].of = recorded'[i].manifest.files,
         payload' # payload => \A p \in Processes :
           pc[p] = "hash" /\ call[p].rules[ScenarioFile] = None => call[p].results \in overtaken'
  PROVE  ReceiptInv'
<1>1. \A r \in Receipt : Genuine(r, recorded, overtaken) => Genuine(r, recorded', overtaken')
  BY GenuineStays
<1>2. receipt' # None => Genuine(receipt', recorded', overtaken')
  BY <1>1 DEF ReceiptInv, TypeOK
<1>3. ASSUME NEW p \in Processes
      PROVE  Honest(pc'[p], call'[p], recorded', overtaken', payload')
  <2>1. call[p] \in Call /\ Honest(pc[p], call[p], recorded, overtaken, payload)
    BY DEF ReceiptInv, TypeOK
  <2>2. /\ call[p].receipt # None => Genuine(call[p].receipt, recorded', overtaken')
        /\ call[p].old # None => Genuine(call[p].old, recorded', overtaken')
    BY <1>1, <2>1 DEF Honest, Call
  <2>3. ASSUME pc[p] = "hash"
        PROVE  /\ call[p].manifest = recorded'[call[p].results].manifest
               /\ call[p].rules[ScenarioFile] = None =>
                    Meets(call[p].results, payload'[ScenarioFile], recorded', overtaken')
               /\ call[p].rules[ScenarioFile] # None =>
                    Meets(call[p].results, call[p].rules[ScenarioFile], recorded', overtaken')
    <3>1. call[p].results \in Results /\ recorded[call[p].results] # None
      BY <2>3, EvaluationAssumption DEF TypeOK, Preparing
    <3>2. recorded'[call[p].results] = recorded[call[p].results] /\ overtaken \subseteq overtaken'
      BY <3>1, RecordsStay
    <3> QED
      BY <2>1, <2>3, <3>2 DEF Honest, Meets
  <2> QED
    BY <2>1, <2>2, <2>3 DEF Honest
<1> QED
  BY <1>2, <1>3 DEF ReceiptInv

LEMMA ReceiptStep ==
  ASSUME TypeOK, TypeOK', ReceiptInv, [Next]_vars
  PROVE  ReceiptInv'
<1> USE DEF Honest
<1>1. /\ receipt # None => Genuine(receipt, recorded, overtaken)
      /\ \A p \in Processes : /\ Honest(pc[p], call[p], recorded, overtaken, payload)
                              /\ call[p] \in Call
  BY DEF ReceiptInv, TypeOK
<1>2. ASSUME NEW p \in Processes, NEW label, NEW k, Moves(p, label, k), UNCHANGED <<world, ghosts>>,
             Honest(label, k, recorded, overtaken, payload)
      PROVE  ReceiptInv'
  BY <1>1, <1>2, MoveKeepsHonest DEF world, ghosts
<1>3. ASSUME NEW p \in Processes, NEW label, label # "hash",
             Moves(p, label, NoCall) \/ (Moves(p, label, Remembered(p)) /\ pc[p] # "hash"),
             UNCHANGED <<payload, recorded, overtaken>>,
             receipt' # None => Genuine(receipt', recorded, overtaken)
      PROVE  ReceiptInv'
  <2>1. Honest(label, NoCall, recorded, overtaken, payload)
    BY <1>3, NoCallIsCall DEF Entry
  <2>2. Honest(label, Remembered(p), recorded, overtaken, payload)
    BY <1>1, <1>3 DEF Remembered, Entry
  <2> QED
    BY <1>3, <2>1, <2>2, MoveKeepsHonest
<1>4. ASSUME NEW p \in Processes, Start(p) PROVE ReceiptInv'
  <2>1. PICK i \in {None} \cup {j \in Results : recorded[j] # None} :
          Moves(p, "manifest", Entry(i, call[p].manifest, call[p].names, call[p].hashed,
                                     call[p].rules, call[p].receipt, call[p].old))
    BY <1>4, StartMoves
  <2>2. pc[p] = "idle" /\ UNCHANGED <<payload, recorded, receipt, overtaken>>
    BY <1>4 DEF Start, world
  <2>3. Honest("manifest", Entry(i, call[p].manifest, call[p].names, call[p].hashed, call[p].rules,
                                 call[p].receipt, call[p].old), recorded, overtaken, payload)
    BY <1>1, <2>2 DEF Entry
  <2> QED
    BY <1>1, <2>1, <2>2, <2>3, MoveKeepsHonest
<1>5. ASSUME NEW p \in Processes, ReadManifest(p) PROVE ReceiptInv'
  <2>1. pc[p] = "manifest" /\ UNCHANGED <<world, ghosts>>
    BY <1>5 DEF ReadManifest, Reads
  <2>2. Honest("inventory", Entry(call[p].results, manifest, call[p].names, call[p].hashed,
                                  call[p].rules, call[p].receipt, call[p].old),
               recorded, overtaken, payload)
    BY <1>1, <2>1 DEF Entry
  <2> QED
    BY <1>2, <1>5, <2>1, <2>2, ReadManifestMoves
<1>6. ASSUME NEW p \in Processes, ListNames(p) \/ HashReceipt(p) PROVE ReceiptInv'
  <2>1. pc[p] = "inventory" /\ UNCHANGED <<world, ghosts>>
    BY <1>6 DEF ListNames, HashReceipt, Reads
  <2>2. \A n : Honest("inventory", Entry(call[p].results, call[p].manifest, n, call[p].hashed,
                                  call[p].rules, call[p].receipt, call[p].old),
               recorded, overtaken, payload)
    BY <1>1, <2>1 DEF Entry
  <2>3. \E n \in {"listed", "hashed"} :
          Moves(p, "inventory", Entry(call[p].results, call[p].manifest, n, call[p].hashed,
                                      call[p].rules, call[p].receipt, call[p].old))
    BY <1>6, NamesMoves
  <2> QED
    BY <1>2, <2>1, <2>2, <2>3
<1>7. ASSUME NEW p \in Processes, NEW f \in Files,
             HashFile(p, f) \/ (f \in RuleFiles /\ CompareRule(p, f))
      PROVE  ReceiptInv'
  <2> DEFINE k == Entry(call[p].results, call[p].manifest, call[p].names, call[p].hashed \cup {f},
                        call[p].rules, call[p].receipt, call[p].old)
  <2>1. pc[p] # "hash" /\ UNCHANGED <<world, ghosts>>
    BY <1>7 DEF HashFile, CompareRule, Reads
  <2>2. \A label : label # "hash" => Honest(label, k, recorded, overtaken, payload)
    BY <1>1, <2>1 DEF Entry
  <2>3. Moves(p, "inventory", k) \/ Moves(p, pc[p], k)
    BY <1>7, HashingMoves
  <2> HIDE DEF k
  <2> QED
    BY <1>2, <2>1, <2>2, <2>3
<1>8. ASSUME NEW p \in Processes, ReadReceipt(p) PROVE ReceiptInv'
  <2> DEFINE k == Entry(call[p].results, call[p].manifest, "unread", {}, call[p].rules, receipt,
                        call[p].old)
  <2>1. pc[p] = "inventory" /\ UNCHANGED <<world, ghosts>>
    BY <1>8 DEF ReadReceipt, Reads
  <2>2. \A label : label # "hash" => Honest(label, k, recorded, overtaken, payload)
    BY <1>1, <2>1 DEF Entry
  <2>3. \E label \in {"rules", "load", "exists"} : Moves(p, label, k)
    BY <1>8, ReadReceiptMoves DEF AfterCheck
  <2> HIDE DEF k
  <2> QED
    BY <1>2, <2>1, <2>2, <2>3
<1>9. ASSUME NEW p \in Processes, Validate(p) PROVE ReceiptInv'
  <2> DEFINE k == Entry(call[p].results, call[p].manifest, call[p].names, {}, call[p].rules,
                        call[p].receipt, call[p].old)
  <2>1. pc[p] # "hash" /\ UNCHANGED <<world, ghosts>>
    BY <1>9 DEF Validate, Reads
  <2>2. \A label : label # "hash" => Honest(label, k, recorded, overtaken, payload)
    BY <1>1, <2>1 DEF Entry
  <2>3. \E label \in {"stage", "load", "exists"} : Moves(p, label, k)
    BY <1>9, ValidateMoves DEF AfterCheck
  <2> HIDE DEF k
  <2> QED
    BY <1>2, <2>1, <2>2, <2>3
<1>10. ASSUME NEW p \in Processes, FindStale(p) PROVE ReceiptInv'
  <2>1. Moves(p, "stale", NoCall) /\ UNCHANGED <<payload, recorded, overtaken, receipt>>
    BY <1>10, EndsMove DEF FindStale, world, ghosts
  <2> QED
    BY <1>1, <1>3, <2>1
<1>11. ASSUME NEW p \in Processes, Answer(p) PROVE ReceiptInv'
  <2>1. /\ Moves(p, "passed", Remembered(p)) \/ Moves(p, "missing", NoCall)
        /\ pc[p] = "exists" /\ UNCHANGED <<payload, recorded, overtaken, receipt>>
    BY <1>11, EndsMove DEF Answer, world, ghosts
  <2> QED
    BY <1>1, <1>3, <2>1
<1>12. ASSUME NEW p \in Processes, Load(p) PROVE ReceiptInv'
  <2>1. pc[p] = "load" /\ UNCHANGED <<world, ghosts>>
    BY <1>12 DEF Load, Reads
  <2>2. Honest("judge", Entry(call[p].results, manifest, call[p].names, call[p].hashed,
                              call[p].rules, None, call[p].old), recorded, overtaken, payload)
    BY <1>1, <2>1 DEF Entry
  <2> QED
    BY <1>2, <1>12, <2>1, <2>2, LoadMoves
<1>13. ASSUME NEW p \in Processes, Judge(p) PROVE ReceiptInv'
  <2>1. /\ UNCHANGED <<world, ghosts>> /\ pc[p] = "judge" /\ UNCHANGED call
        /\ recorded[call[p].results].manifest = call[p].manifest
        /\ Passes(recorded[call[p].results].outcome, payload[ScenarioFile])
    BY <1>13 DEF Judge, Reads
  <2>2. Moves(p, "hash", call[p])
    BY <1>13 DEF Judge, Reads, Goto, TypeOK, Moves
  <2>3. call[p].rules[ScenarioFile] = None
    BY <1>1, <2>1, EvaluationAssumption DEF NoRules
  <2>4. Honest("hash", call[p], recorded, overtaken, payload)
    BY <1>1, <2>1, <2>3 DEF Meets
  <2> QED
    BY <1>2, <2>1, <2>2, <2>4
<1>14. ASSUME NEW p \in Processes, NEW f \in RuleFiles, HashRule(p, f) PROVE ReceiptInv'
  <2> DEFINE k == Entry(call[p].results, call[p].manifest, call[p].names, call[p].hashed,
                        [call[p].rules EXCEPT ![f] = payload[f]], call[p].receipt, call[p].old)
  <2>1. /\ pc[p] = "hash" /\ UNCHANGED <<world, ghosts>> /\ call[p].rules[f] = None
        /\ Moves(p, "hash", k)
    BY <1>14, HashingMoves DEF HashRule, Reads
  <2>2. call[p].rules \in [RuleFiles -> Versions \cup {None}] /\ payload[f] # None
    BY <1>1, EvaluationAssumption DEF Call, TypeOK, Content
  <2>3. /\ k.rules[ScenarioFile] =
             IF f = ScenarioFile THEN payload[f] ELSE call[p].rules[ScenarioFile]
        /\ k.manifest = call[p].manifest /\ k.results = call[p].results
        /\ k.receipt = call[p].receipt /\ k.old = call[p].old
    BY <2>2, EvaluationAssumption DEF Entry
  <2> HIDE DEF k
  <2>4. Honest("hash", k, recorded, overtaken, payload)
    BY <1>1, <2>1, <2>2, <2>3
  <2> QED
    BY <1>2, <2>1, <2>4
<1>15. ASSUME NEW p \in Processes, MakeReceipt(p) PROVE ReceiptInv'
  <2> DEFINE k == Entry(call[p].results, call[p].manifest, call[p].names, call[p].hashed, NoRules,
                        Made(p), call[p].old)
  <2>1. /\ pc[p] = "hash" /\ UNCHANGED <<world, ghosts>> /\ Moves(p, "validate", k)
        /\ \A f \in RuleFiles : call[p].rules[f] # None
    BY <1>15, MakeReceiptMoves DEF MakeReceipt, Reads
  <2>2. call[p].results \in Results /\ recorded[call[p].results] # None
    BY <2>1, EvaluationAssumption DEF TypeOK, Preparing
  <2>3. Genuine(Made(p), recorded, overtaken)
    <3>1. /\ recorded[call[p].results].of = call[p].manifest.files
          /\ Meets(call[p].results, call[p].rules[ScenarioFile], recorded, overtaken)
      BY <1>1, <2>1, <2>2, EvaluationAssumption DEF ReceiptInv
    <3> QED
      BY <2>2, <3>1 DEF Genuine, Made
  <2>4. Honest("validate", k, recorded, overtaken, payload)
    BY <1>1, <2>3 DEF Entry
  <2> HIDE DEF k
  <2> QED
    BY <1>2, <2>1, <2>4
<1>16. ASSUME NEW p \in Processes, Stage(p) PROVE ReceiptInv'
  <2>1. pc[p] = "stage" /\ UNCHANGED <<payload, receipt, recorded, overtaken>>
    BY <1>16 DEF Stage, package
  <2>2. Honest("replace", Entry(call[p].results, call[p].manifest, call[p].names, call[p].hashed,
                                call[p].rules, call[p].receipt, receipt),
               recorded, overtaken, payload)
    BY <1>1, <2>1 DEF Entry
  <2> QED
    BY <1>1, <1>16, <2>1, <2>2, StageMoves, MoveKeepsHonest
<1>17. ASSUME NEW p \in Processes, ReplaceReceipt(p) \/ ManifestFails(p) PROVE ReceiptInv'
  <2>1. /\ pc[p] \in {"replace", "index"} /\ UNCHANGED <<payload, recorded, overtaken, call>>
        /\ receipt' \in {receipt, call[p].receipt}
    BY <1>17 DEF ReplaceReceipt, ManifestFails, Reads, world, ghosts
  <2>2. \E label \in {"index", "rollback"} : Moves(p, label, call[p])
    BY <1>17 DEF ReplaceReceipt, ManifestFails, Reads, Goto, TypeOK, Moves
  <2>3. \A label \in {"index", "rollback"} : Honest(label, call[p], recorded, overtaken, payload)
    BY <1>1, <2>1
  <2>4. receipt' # None => Genuine(receipt', recorded, overtaken)
    BY <1>1, <2>1
  <2> QED
    BY <2>1, <2>2, <2>3, <2>4, MoveKeepsHonest
<1>18. ASSUME NEW p \in Processes, ReplaceManifest(p) PROVE ReceiptInv'
  <2>1. /\ Moves(p, "sealed", Remembered(p)) /\ pc[p] = "index"
        /\ UNCHANGED <<payload, recorded, overtaken, receipt>>
    BY <1>18, EndsMove DEF ReplaceManifest
  <2> QED
    BY <1>1, <1>3, <2>1
<1>19. ASSUME NEW p \in Processes, RollBack(p) PROVE ReceiptInv'
  <2>1. /\ Moves(p, "failed", NoCall) /\ receipt' = call[p].old
        /\ UNCHANGED <<payload, recorded, overtaken>>
    BY <1>19, EndsMove DEF RollBack
  <2> QED
    BY <1>1, <1>3, <2>1
<1>20. ASSUME NEW p \in Processes, RollBackFails(p) \/ Fail(p) \/ End(p) \/ Crash(p)
       PROVE  ReceiptInv'
  <2>1. UNCHANGED <<payload, recorded, overtaken, receipt>>
    BY <1>20 DEF RollBackFails, Fail, End, Crash, package, world
  <2>2. \E label \in {"unrestored", "failed", "idle"} : Moves(p, label, NoCall)
    BY <1>20, EndsMove DEF RollBackFails, Fail, End, Crash
  <2> QED
    BY <1>1, <1>3, <2>1, <2>2
<1>21. ASSUME NEW i \in Results, Evaluate(i) PROVE ReceiptInv'
  <2>1. PICK outcome \in [Scenarios -> States] :
          recorded' = [recorded EXCEPT ![i] =
            [manifest |-> manifest, outcome |-> outcome, of |-> payload]]
    BY <1>21 DEF Evaluate
  <2>2. manifest.files = payload /\ UNCHANGED <<payload, receipt, pc, call>>
    BY <1>21 DEF Evaluate, Whole, package
  <2>3. \A j \in Results : recorded'[j] # None => recorded'[j].of = recorded'[j].manifest.files
    BY <2>1, <2>2 DEF ReceiptInv, TypeOK
  <2> QED
    BY <2>2, <2>3, OthersKeepHonest
<1>22. ASSUME NEW c, Becomes(c), UNCHANGED <<recorded, pc, call>>,
              receipt' = receipt \/ receipt' = None
       PROVE  ReceiptInv'
  <2>1. \A p \in Processes :
          pc[p] = "hash" /\ call[p].rules[ScenarioFile] = None => call[p].results \in overtaken'
    BY <1>22, EvaluationAssumption DEF Becomes, TypeOK, Preparing
  <2>2. \A i \in Results : recorded'[i] # None => recorded'[i].of = recorded'[i].manifest.files
    BY <1>22 DEF ReceiptInv
  <2> QED
    BY <1>22, <2>1, <2>2, OthersKeepHonest
<1>23. CASE (\E f \in Files, v \in Versions : Edit(f, v)) \/ \E c \in Content : Generate(c)
  BY <1>22, <1>23 DEF Edit, Generate
<1>24. CASE Relist \/ UNCHANGED vars
  <2>1. UNCHANGED <<payload, receipt, recorded, call, pc>>
    BY <1>24 DEF Relist, vars, world
  <2>2. \A i \in Results : recorded'[i] # None => recorded'[i].of = recorded'[i].manifest.files
    BY <2>1 DEF ReceiptInv
  <2> QED
    BY <2>1, <2>2, OthersKeepHonest
<1> QED
  BY <1>4, <1>5, <1>6, <1>7, <1>8, <1>9, <1>10, <1>11, <1>12, <1>13, <1>14, <1>15, <1>16, <1>17,
     <1>18, <1>19, <1>20, <1>21, <1>23, <1>24, EvaluationAssumption DEF Next

LEMMA ReceiptHolds == Spec => []ReceiptInv
<1>1. Init => ReceiptInv
  <2> SUFFICES ASSUME Init PROVE ReceiptInv
    OBVIOUS
  <2>1. /\ receipt = None /\ \A i \in Results : recorded[i] = None
        /\ \A p \in Processes : pc[p] = "idle" /\ call[p] = NoCall
    BY DEF Init
  <2>2. NoCall.receipt = None /\ NoCall.old = None /\ NoCall.rules = NoRules
    BY NoCallIsCall DEF Entry
  <2> QED
    BY <2>1, <2>2 DEF ReceiptInv, Honest
<1>2. TypeOK /\ TypeOK' /\ ReceiptInv /\ [Next]_vars => ReceiptInv'
  BY ReceiptStep
<1> QED
  BY <1>1, <1>2, TypeCorrect, PTL DEF Spec

\* A package that passes its check with a receipt was evaluated as it is, with the
\* expected results, for any number of overlapping evaluations, crashes, failures and
\* edits, but for results whose scenarios were edited between the two times that
\* evaluate reads them.
THEOREM PassedWasEvaluatedHolds == Spec => []PassedWasEvaluated
<1>1. TypeOK /\ ReceiptInv => PassedWasEvaluated
  <2> SUFFICES ASSUME TypeOK, ReceiptInv, Whole, receipt # None
               PROVE  PassedWasEvaluated
    BY DEF PassedWasEvaluated
  <2>1. Genuine(receipt, recorded, overtaken)
    BY DEF ReceiptInv
  <2>2. receipt.rules[ScenarioFile] = payload[ScenarioFile] /\ receipt.base = payload
    BY EvaluationAssumption DEF Whole, BaseFits
  <2> QED
    BY <2>1, <2>2 DEF Genuine, Meets, PassedWasEvaluated
<1> QED
  BY <1>1, ReceiptHolds, TypeCorrect, PTL DEF Spec

-----------------------------------------------------------------------------
(* A call that nobody disturbs is atomic *)

Untouched == Checking \cup Preparing \cup {"exists", "failed"}
Compared == {"rules"} \cup Preparing

\* What call p can rely on while nobody else changes the package.
Undisturbed(p) ==
  /\ pc[p] # "idle"
  /\ pc[p] \in Untouched => package = before[p]
  /\ pc[p] \in Untouched \ {"replace"} => p \notin scratch
  /\ pc[p] = "inventory" =>
       /\ \A f \in call[p].hashed : payload[f] = manifest.files[f]
       /\ call[p].names # "unread" => scratch = {} /\ ~litter
       /\ call[p].names = "hashed" => receipt = manifest.receipt
  /\ pc[p] \in Compared \cup Sealing => scratch \subseteq {p} /\ ~litter /\ manifest.files = payload
  /\ pc[p] \in Compared => manifest.receipt = receipt
  /\ pc[p] \in {"inventory", "rules"} \cup (Preparing \ {"load"}) \cup Sealing =>
       call[p].manifest = manifest
  /\ pc[p] = "hash" => \A f \in RuleFiles : call[p].rules[f] \in {None, payload[f]}
  /\ pc[p] \in {"validate", "stage", "replace"} \cup Sealing =>
       /\ call[p].receipt.results = call[p].results
       /\ BaseFits(call[p].receipt, manifest)
       /\ \A f \in RuleFiles : call[p].receipt.rules[f] = payload[f]
  /\ pc[p] = "replace" => call[p].old = receipt
  /\ pc[p] \in Sealing =>
       receipt = call[p].receipt /\ before[p] = <<payload, manifest, call[p].old, litter>>
  /\ pc[p] = "sealed" => Whole /\ receipt.results = call[p].results

\* A call begins with nothing read.
Fresh(label, k) == label \in {"idle", "manifest"} => k.hashed = {} /\ k.names = "unread"

AtomicInv ==
  /\ \A p \in Processes : Fresh(pc[p], call[p])
  /\ \A p \in scratch : pc[p] \in {"replace"} \cup Sealing
  /\ \A p \in DOMAIN before : Undisturbed(p)

\* A call relies on nothing that a step of another changes.
LEMMA OthersStayUndisturbed ==
  ASSUME NEW q \in Processes, Undisturbed(q),
         UNCHANGED <<payload, manifest, receipt, litter, scratch>>,
         call'[q] = call[q], pc'[q] = pc[q], before'[q] = before[q]
  PROVE  Undisturbed(q)'
  BY DEF Undisturbed, package, Whole, BaseFits

LEMMA MoveKeepsAtomic ==
  ASSUME TypeOK, TypeOK', AtomicInv, NEW p \in Processes, NEW label, NEW k, Moves(p, label, k),
         \/ /\ UNCHANGED <<payload, manifest, receipt, litter, scratch>>
            /\ \A q \in DOMAIN before' : q # p => q \in DOMAIN before /\ before'[q] = before[q]
         \/ DOMAIN before' \subseteq {p},
         scratch' \subseteq scratch \cup {p}, p \in scratch' => label \in {"replace"} \cup Sealing,
         Fresh(label, k), p \in DOMAIN before' => Undisturbed(p)'
  PROVE  AtomicInv'
<1>1. \A q \in Processes : Fresh(pc'[q], call'[q])
  BY DEF AtomicInv, Moves
<1>2. \A q \in scratch' : pc'[q] \in {"replace"} \cup Sealing
  BY DEF AtomicInv, Moves, TypeOK
<1>3. ASSUME NEW q \in DOMAIN before' PROVE Undisturbed(q)'
  <2>1. CASE q = p
    BY <2>1
  <2>2. CASE q # p
    <3>1. q \in Processes
      BY DEF TypeOK
    <3> QED
      BY <2>2, <3>1, OthersStayUndisturbed DEF AtomicInv, Moves
  <2> QED
    BY <2>1, <2>2
<1> QED
  BY <1>1, <1>2, <1>3 DEF AtomicInv

\* A step that only reads.
LEMMA ReadKeepsAtomic ==
  ASSUME TypeOK, TypeOK', AtomicInv, NEW p \in Processes, NEW label, NEW k, Moves(p, label, k),
         UNCHANGED <<world, ghosts>>, pc[p] \notin {"replace"} \cup Sealing, Fresh(label, k),
         p \in DOMAIN before => Undisturbed(p)'
  PROVE  AtomicInv'
<1>1. UNCHANGED <<payload, manifest, receipt, litter, scratch, before>>
  BY DEF world, ghosts
<1>2. p \notin scratch
  BY DEF AtomicInv
<1> QED
  BY <1>1, <1>2, MoveKeepsAtomic

LEMMA AtomicStep ==
  ASSUME TypeOK, TypeOK', ReceiptInv, AtomicInv, [Next]_vars
  PROVE  AtomicInv'
<1> USE EvaluationAssumption
<1>1. \A p \in Processes : /\ Fresh(pc[p], call[p]) /\ call[p] \in Call
                           /\ p \in scratch => pc[p] \in {"replace"} \cup Sealing
                           /\ p \in DOMAIN before => Undisturbed(p)
  BY DEF AtomicInv, TypeOK
<1>2. ASSUME UNCHANGED <<world, ghosts>>
      PROVE  UNCHANGED <<payload, manifest, receipt, litter, scratch, before>>
  BY <1>2 DEF world, ghosts
<1>3. ASSUME NEW p \in Processes, Start(p) PROVE AtomicInv'
  <2>1. PICK i \in {None} \cup {j \in Results : recorded[j] # None} :
           /\ Moves(p, "manifest", Entry(i, call[p].manifest, call[p].names, call[p].hashed,
                                         call[p].rules, call[p].receipt, call[p].old))
           /\ before' = IF i = None THEN before
                        ELSE [q \in DOMAIN before \cup {p} |-> IF q = p THEN package ELSE before[q]]
    BY <1>3, StartMoves
  <2>2. pc[p] = "idle" /\ UNCHANGED <<payload, manifest, receipt, litter, scratch>>
    BY <1>3 DEF Start, world
  <2>3. p \notin DOMAIN before /\ p \notin scratch
    BY <1>1, <2>2 DEF Undisturbed, Sealing
  <2>4. p \in DOMAIN before' => before'[p] = package
    BY <2>1, <2>3
  <2>5. \A q \in DOMAIN before' : q # p => q \in DOMAIN before /\ before'[q] = before[q]
    BY <2>1
  <2>6. pc'[p] = "manifest"
    BY <2>1 DEF Moves
  <2>7. p \in DOMAIN before' => Undisturbed(p)'
    BY <2>2, <2>3, <2>4, <2>6 DEF Undisturbed, Untouched, Compared, Checking, Preparing, Sealing,
       package
  <2>8. Fresh("manifest", Entry(i, call[p].manifest, call[p].names, call[p].hashed,
                                call[p].rules, call[p].receipt, call[p].old))
    BY <1>1, <2>2 DEF Fresh, Entry
  <2> QED
    BY <2>1, <2>2, <2>3, <2>5, <2>7, <2>8, MoveKeepsAtomic
<1>4. ASSUME NEW p \in Processes, ReadManifest(p) PROVE AtomicInv'
  <2> DEFINE k == Entry(call[p].results, manifest, call[p].names, call[p].hashed,
                        call[p].rules, call[p].receipt, call[p].old)
  <2>1. Moves(p, "inventory", k) /\ pc[p] = "manifest" /\ UNCHANGED <<world, ghosts>>
    BY <1>4, ReadManifestMoves DEF ReadManifest, Reads
  <2>2. k.manifest = manifest /\ k.hashed = {} /\ k.names = "unread"
    BY <1>1, <2>1 DEF Entry, Fresh
  <2> HIDE DEF k
  <2>3. p \in DOMAIN before => Undisturbed(p)'
    BY <1>1, <1>2, <2>1, <2>2 DEF Moves, Undisturbed, Untouched, Compared, Checking, Preparing,
       Sealing, package
  <2> QED
    BY <2>1, <2>3, ReadKeepsAtomic DEF Fresh, Sealing
<1>5. ASSUME NEW p \in Processes, ListNames(p) PROVE AtomicInv'
  <2> DEFINE k == Entry(call[p].results, call[p].manifest, "listed", call[p].hashed,
                        call[p].rules, call[p].receipt, call[p].old)
  <2>1. /\ Moves(p, "inventory", k) /\ pc[p] = "inventory" /\ UNCHANGED <<world, ghosts>>
        /\ scratch = {} /\ ~litter
    BY <1>5, NamesMoves DEF ListNames, Reads
  <2>2. k.manifest = call[p].manifest /\ k.hashed = call[p].hashed /\ k.names = "listed"
    BY DEF Entry
  <2> HIDE DEF k
  <2>3. p \in DOMAIN before => Undisturbed(p)'
    BY <1>1, <1>2, <2>1, <2>2 DEF Moves, Undisturbed, Untouched, Compared, Checking, Preparing,
       Sealing, package
  <2> QED
    BY <2>1, <2>3, ReadKeepsAtomic DEF Fresh, Sealing
<1>6. ASSUME NEW p \in Processes, HashReceipt(p) PROVE AtomicInv'
  <2> DEFINE k == Entry(call[p].results, call[p].manifest, "hashed", call[p].hashed,
                        call[p].rules, call[p].receipt, call[p].old)
  <2>1. /\ Moves(p, "inventory", k) /\ pc[p] = "inventory" /\ UNCHANGED <<world, ghosts>>
        /\ call[p].names = "listed" /\ receipt = call[p].manifest.receipt
    BY <1>6, NamesMoves DEF HashReceipt, Reads
  <2>2. k.manifest = call[p].manifest /\ k.hashed = call[p].hashed /\ k.names = "hashed"
    BY DEF Entry
  <2> HIDE DEF k
  <2>3. p \in DOMAIN before => Undisturbed(p)'
    BY <1>1, <1>2, <2>1, <2>2 DEF Moves, Undisturbed, Untouched, Compared, Checking, Preparing,
       Sealing, package
  <2> QED
    BY <2>1, <2>3, ReadKeepsAtomic DEF Fresh, Sealing
<1>7. ASSUME NEW p \in Processes, NEW f \in Files, HashFile(p, f) PROVE AtomicInv'
  <2> DEFINE k == Entry(call[p].results, call[p].manifest, call[p].names, call[p].hashed \cup {f},
                        call[p].rules, call[p].receipt, call[p].old)
  <2>1. /\ Moves(p, "inventory", k) /\ pc[p] = "inventory" /\ UNCHANGED <<world, ghosts>>
        /\ payload[f] = call[p].manifest.files[f]
    BY <1>7, HashingMoves DEF HashFile, Reads
  <2>2. /\ k.manifest = call[p].manifest /\ k.hashed = call[p].hashed \cup {f}
        /\ k.names = call[p].names
    BY DEF Entry
  <2> HIDE DEF k
  <2>3. p \in DOMAIN before => Undisturbed(p)'
    BY <1>1, <1>2, <2>1, <2>2 DEF Moves, Undisturbed, Untouched, Compared, Checking, Preparing,
       Sealing, package
  <2> QED
    BY <2>1, <2>3, ReadKeepsAtomic DEF Fresh, Sealing
<1>8. ASSUME NEW p \in Processes, ReadReceipt(p) PROVE AtomicInv'
  <2> DEFINE k == Entry(call[p].results, call[p].manifest, "unread", {}, call[p].rules, receipt,
                        call[p].old)
  <2>1. PICK label \in {"rules", "load", "exists"} : Moves(p, label, k)
    BY <1>8, ReadReceiptMoves DEF AfterCheck
  <2>2. /\ pc[p] = "inventory" /\ UNCHANGED <<world, ghosts>>
        /\ call[p].hashed = Files /\ call[p].names = "hashed"
    BY <1>8 DEF ReadReceipt, Reads
  <2>3. k.manifest = call[p].manifest
    BY DEF Entry
  <2>4. p \in DOMAIN before => manifest.files = payload
    BY <1>1, <2>2 DEF Undisturbed, TypeOK, Manifest, Content
  <2> HIDE DEF k
  <2>5. p \in DOMAIN before => Undisturbed(p)'
    BY <1>1, <1>2, <2>1, <2>2, <2>3, <2>4 DEF Moves, Undisturbed, Untouched, Compared, Checking,
       Preparing, Sealing, package
  <2> QED
    BY <2>1, <2>2, <2>5, ReadKeepsAtomic DEF Fresh, Sealing
<1>9. ASSUME NEW p \in Processes, NEW f \in RuleFiles, CompareRule(p, f) PROVE AtomicInv'
  <2> DEFINE k == Entry(call[p].results, call[p].manifest, call[p].names, call[p].hashed \cup {f},
                        call[p].rules, call[p].receipt, call[p].old)
  <2>1. Moves(p, pc[p], k) /\ pc[p] \in {"rules", "validate"} /\ UNCHANGED <<world, ghosts>>
    BY <1>9, HashingMoves DEF CompareRule, Reads
  <2>2. /\ k.manifest = call[p].manifest /\ k.receipt = call[p].receipt
        /\ k.results = call[p].results
    BY DEF Entry
  <2> HIDE DEF k
  <2>3. p \in DOMAIN before => Undisturbed(p)'
    BY <1>1, <1>2, <2>1, <2>2 DEF Moves, Undisturbed, Untouched, Compared, Checking, Preparing,
       Sealing, package, BaseFits
  <2> QED
    BY <2>1, <2>3, ReadKeepsAtomic DEF Fresh, Sealing
<1>10. ASSUME NEW p \in Processes, Validate(p) PROVE AtomicInv'
  <2> DEFINE k == Entry(call[p].results, call[p].manifest, call[p].names, {}, call[p].rules,
                        call[p].receipt, call[p].old)
  <2>1. PICK label \in {"stage", "load", "exists"} :
          Moves(p, label, k) /\ (label = "stage" <=> pc[p] = "validate")
    BY <1>10, ValidateMoves DEF AfterCheck
  <2>2. pc[p] \in {"rules", "validate"} /\ UNCHANGED <<world, ghosts>>
    BY <1>10 DEF Validate, Reads
  <2>3. /\ k.manifest = call[p].manifest /\ k.receipt = call[p].receipt
        /\ k.results = call[p].results
    BY DEF Entry
  <2> HIDE DEF k
  <2>4. p \in DOMAIN before => Undisturbed(p)'
    BY <1>1, <1>2, <2>1, <2>2, <2>3 DEF Moves, Undisturbed, Untouched, Compared, Checking,
       Preparing, Sealing, package, BaseFits
  <2> QED
    BY <2>1, <2>2, <2>4, ReadKeepsAtomic DEF Fresh, Sealing
<1>11. ASSUME NEW p \in Processes, FindStale(p) PROVE AtomicInv'
  <2>1. Moves(p, "stale", NoCall) /\ UNCHANGED <<world, ghosts>> /\ pc[p] = "rules"
    BY <1>11, EndsMove DEF FindStale
  <2>2. p \in DOMAIN before => Undisturbed(p)'
    BY <2>1 DEF Moves, Undisturbed, Untouched, Compared, Checking, Preparing, Sealing
  <2> QED
    BY <2>1, <2>2, ReadKeepsAtomic DEF Fresh, Sealing
<1>12. ASSUME NEW p \in Processes, Answer(p) PROVE AtomicInv'
  <2>1. PICK label \in {"passed", "missing"} : \E k : Moves(p, label, k)
    BY <1>12, EndsMove DEF Answer
  <2>2. UNCHANGED <<world, ghosts>> /\ pc[p] = "exists"
    BY <1>12 DEF Answer
  <2>3. p \in DOMAIN before => Undisturbed(p)'
    BY <2>1 DEF Moves, Undisturbed, Untouched, Compared, Checking, Preparing, Sealing
  <2> QED
    BY <2>1, <2>2, <2>3, ReadKeepsAtomic DEF Fresh, Sealing
<1>13. ASSUME NEW p \in Processes, Load(p) PROVE AtomicInv'
  <2> DEFINE k == Entry(call[p].results, manifest, call[p].names, call[p].hashed,
                        call[p].rules, None, call[p].old)
  <2>1. Moves(p, "judge", k) /\ pc[p] = "load" /\ UNCHANGED <<world, ghosts>>
    BY <1>13, LoadMoves DEF Load, Reads
  <2>2. k.manifest = manifest
    BY DEF Entry
  <2> HIDE DEF k
  <2>3. p \in DOMAIN before => Undisturbed(p)'
    BY <1>1, <1>2, <2>1, <2>2 DEF Moves, Undisturbed, Untouched, Compared, Checking, Preparing,
       Sealing, package
  <2> QED
    BY <2>1, <2>3, ReadKeepsAtomic DEF Fresh, Sealing
<1>14. ASSUME NEW p \in Processes, Judge(p) PROVE AtomicInv'
  <2>1. UNCHANGED <<world, ghosts, call>> /\ pc[p] = "judge"
    BY <1>14 DEF Judge, Reads
  <2>2. Moves(p, "hash", call[p])
    BY <1>14 DEF Judge, Reads, Goto, TypeOK, Moves
  <2>3. call[p].rules = NoRules
    BY <2>1 DEF ReceiptInv, Honest
  <2>4. p \in DOMAIN before => Undisturbed(p)'
    BY <1>1, <1>2, <2>1, <2>2, <2>3 DEF Moves, NoRules, Undisturbed, Untouched, Compared,
       Checking, Preparing, Sealing, package
  <2> QED
    BY <2>1, <2>2, <2>4, ReadKeepsAtomic DEF Fresh, Sealing
<1>15. ASSUME NEW p \in Processes, NEW f \in RuleFiles, HashRule(p, f) PROVE AtomicInv'
  <2> DEFINE k == Entry(call[p].results, call[p].manifest, call[p].names, call[p].hashed,
                        [call[p].rules EXCEPT ![f] = payload[f]], call[p].receipt, call[p].old)
  <2>1. Moves(p, "hash", k) /\ pc[p] = "hash" /\ UNCHANGED <<world, ghosts>>
    BY <1>15, HashingMoves DEF HashRule, Reads
  <2>2. call[p].rules \in [RuleFiles -> Versions \cup {None}]
    BY <1>1 DEF Call
  <2>3. /\ k.manifest = call[p].manifest
        /\ \A g \in RuleFiles : k.rules[g] = IF g = f THEN payload[g] ELSE call[p].rules[g]
    BY <2>2 DEF Entry
  <2> HIDE DEF k
  <2>4. p \in DOMAIN before => Undisturbed(p)'
    BY <1>1, <1>2, <2>1, <2>3 DEF Moves, Undisturbed, Untouched, Compared, Checking, Preparing,
       Sealing, package
  <2> QED
    BY <2>1, <2>4, ReadKeepsAtomic DEF Fresh, Sealing
<1>16. ASSUME NEW p \in Processes, MakeReceipt(p) PROVE AtomicInv'
  <2> DEFINE k == Entry(call[p].results, call[p].manifest, call[p].names, call[p].hashed, NoRules,
                        Made(p), call[p].old)
  <2>1. /\ Moves(p, "validate", k) /\ pc[p] = "hash" /\ UNCHANGED <<world, ghosts>>
        /\ \A f \in RuleFiles : call[p].rules[f] # None
    BY <1>16, MakeReceiptMoves DEF MakeReceipt, Reads
  <2>2. /\ k.manifest = call[p].manifest /\ k.results = call[p].results
        /\ k.receipt.rules = call[p].rules /\ k.receipt.base = call[p].manifest.files
        /\ k.receipt.results = call[p].results
    BY DEF Entry, Made
  <2> HIDE DEF k
  <2>3. p \in DOMAIN before => Undisturbed(p)'
    BY <1>1, <1>2, <2>1, <2>2 DEF Moves, Undisturbed, Untouched, Compared, Checking, Preparing,
       Sealing, package, BaseFits
  <2> QED
    BY <2>1, <2>3, ReadKeepsAtomic DEF Fresh, Sealing
<1>17. ASSUME NEW p \in Processes, Stage(p) PROVE AtomicInv'
  <2> DEFINE k == Entry(call[p].results, call[p].manifest, call[p].names,
                        call[p].hashed, call[p].rules, call[p].receipt, receipt)
  <2>1. /\ Moves(p, "replace", k) /\ pc[p] = "stage" /\ scratch' = scratch \cup {p}
        /\ UNCHANGED <<payload, manifest, receipt, litter>> /\ Alone({p})
    BY <1>17, StageMoves DEF Stage, package, Disturbs
  <2>2. /\ DOMAIN before' \subseteq {p}
        /\ p \in DOMAIN before' => p \in DOMAIN before /\ before'[p] = before[p]
    BY <2>1 DEF Alone
  <2>3. /\ k.manifest = call[p].manifest /\ k.results = call[p].results
        /\ k.receipt = call[p].receipt /\ k.old = receipt
    BY DEF Entry
  <2> HIDE DEF k
  <2>4. p \in DOMAIN before' => Undisturbed(p)'
    <3> SUFFICES ASSUME p \in DOMAIN before' PROVE Undisturbed(p)'
      OBVIOUS
    <3>1. /\ package = before[p] /\ scratch \subseteq {p} /\ ~litter /\ manifest.files = payload
          /\ manifest.receipt = receipt /\ call[p].manifest = manifest
          /\ call[p].receipt.results = call[p].results /\ BaseFits(call[p].receipt, manifest)
          /\ \A f \in RuleFiles : call[p].receipt.rules[f] = payload[f]
      BY <1>1, <2>1, <2>2 DEF Undisturbed, Untouched, Compared, Preparing
    <3>2. pc'[p] = "replace" /\ call'[p] = k
      BY <2>1 DEF Moves
    <3> QED
      BY <2>1, <2>2, <2>3, <3>1, <3>2 DEF Undisturbed, Untouched, Compared, Checking, Preparing,
         Sealing, package, BaseFits
  <2> QED
    BY <2>1, <2>2, <2>4, MoveKeepsAtomic DEF Fresh
<1>18. ASSUME NEW p \in Processes, ReplaceReceipt(p) PROVE AtomicInv'
  <2>1. /\ pc[p] = "replace" /\ receipt' = call[p].receipt
        /\ UNCHANGED <<payload, manifest, litter, scratch, call>> /\ Alone({p})
    BY <1>18 DEF ReplaceReceipt, Disturbs
  <2>2. Moves(p, "index", call[p])
    BY <1>18 DEF ReplaceReceipt, Goto, TypeOK, Moves
  <2>3. /\ DOMAIN before' \subseteq {p}
        /\ p \in DOMAIN before' => p \in DOMAIN before /\ before'[p] = before[p]
    BY <2>1 DEF Alone
  <2>4. p \in DOMAIN before' => Undisturbed(p)'
    <3> SUFFICES ASSUME p \in DOMAIN before' PROVE Undisturbed(p)'
      OBVIOUS
    <3>1. /\ package = before[p] /\ scratch \subseteq {p} /\ ~litter /\ manifest.files = payload
          /\ call[p].old = receipt /\ call[p].manifest = manifest
          /\ call[p].receipt.results = call[p].results /\ BaseFits(call[p].receipt, manifest)
          /\ \A f \in RuleFiles : call[p].receipt.rules[f] = payload[f]
      BY <1>1, <2>1, <2>3 DEF Undisturbed, Untouched, Compared, Preparing
    <3>2. pc'[p] = "index" /\ call'[p] = call[p]
      BY <2>2 DEF Moves
    <3> QED
      BY <2>1, <2>3, <3>1, <3>2 DEF Undisturbed, Untouched, Compared, Checking, Preparing,
         Sealing, package, BaseFits
  <2> QED
    BY <2>1, <2>2, <2>3, <2>4, MoveKeepsAtomic DEF Fresh, Sealing
<1>19. ASSUME NEW p \in Processes, ReplaceManifest(p) PROVE AtomicInv'
  <2>1. /\ Moves(p, "sealed", Remembered(p)) /\ pc[p] = "index" /\ scratch' = scratch \ {p}
        /\ manifest' = [call[p].manifest EXCEPT !.receipt = call[p].receipt]
        /\ UNCHANGED <<payload, receipt, litter>> /\ Alone({p})
    BY <1>19, EndsMove DEF ReplaceManifest, Disturbs
  <2>2. /\ DOMAIN before' \subseteq {p}
        /\ p \in DOMAIN before' => p \in DOMAIN before /\ before'[p] = before[p]
    BY <2>1 DEF Alone
  <2>3. p \in DOMAIN before' => Undisturbed(p)'
    <3> SUFFICES ASSUME p \in DOMAIN before' PROVE Undisturbed(p)'
      OBVIOUS
    <3>1. /\ scratch \subseteq {p} /\ ~litter /\ call[p].manifest = manifest /\ manifest.files = payload
          /\ receipt = call[p].receipt /\ BaseFits(receipt, manifest)
          /\ receipt.results = call[p].results /\ \A f \in RuleFiles : receipt.rules[f] = payload[f]
      BY <1>1, <2>1, <2>2 DEF Undisturbed, Sealing
    <3>2. manifest' = [files |-> payload, receipt |-> receipt]
      BY <2>1, <3>1 DEF TypeOK, Manifest
    <3>3. Whole'
      BY <2>1, <3>1, <3>2 DEF Whole, BaseFits
    <3>4. call'[p].results = call[p].results /\ pc'[p] = "sealed" /\ p \notin scratch'
      BY <2>1 DEF Moves, Remembered, Entry
    <3> QED
      BY <2>1, <3>1, <3>3, <3>4 DEF Undisturbed, Untouched, Compared, Checking, Preparing, Sealing
  <2> QED
    BY <2>1, <2>2, <2>3, MoveKeepsAtomic DEF Fresh
<1>20. ASSUME NEW p \in Processes, ManifestFails(p) PROVE AtomicInv'
  <2>1. UNCHANGED <<world, ghosts, call>> /\ pc[p] = "index"
    BY <1>20 DEF ManifestFails, Reads
  <2>2. Moves(p, "rollback", call[p])
    BY <1>20 DEF ManifestFails, Reads, Goto, TypeOK, Moves
  <2>3. p \in DOMAIN before => Undisturbed(p)'
    BY <1>1, <1>2, <2>1, <2>2 DEF Moves, Undisturbed, Untouched, Compared, Checking, Preparing,
       Sealing, package, BaseFits
  <2> QED
    BY <1>2, <2>1, <2>2, <2>3, MoveKeepsAtomic DEF Fresh, Sealing
<1>21. ASSUME NEW p \in Processes, RollBack(p) PROVE AtomicInv'
  <2>1. /\ Moves(p, "failed", NoCall) /\ pc[p] = "rollback" /\ scratch' = scratch \ {p}
        /\ receipt' = call[p].old /\ UNCHANGED <<payload, manifest, litter>> /\ Alone({p})
    BY <1>21, EndsMove DEF RollBack, Disturbs
  <2>2. /\ DOMAIN before' \subseteq {p}
        /\ p \in DOMAIN before' => p \in DOMAIN before /\ before'[p] = before[p]
    BY <2>1 DEF Alone
  <2>3. p \in DOMAIN before' => Undisturbed(p)'
    BY <1>1, <2>1, <2>2 DEF Moves, Undisturbed, Untouched, Compared, Checking, Preparing,
       Sealing, package
  <2> QED
    BY <2>1, <2>2, <2>3, MoveKeepsAtomic DEF Fresh
<1>22. ASSUME NEW p \in Processes, RollBackFails(p) PROVE AtomicInv'
  <2>1. Moves(p, "unrestored", NoCall) /\ scratch' = scratch \ {p} /\ Alone({p})
    BY <1>22, EndsMove DEF RollBackFails, Disturbs
  <2>2. DOMAIN before' \subseteq {p}
    BY <2>1 DEF Alone
  <2>3. Undisturbed(p)'
    BY <2>1 DEF Moves, Undisturbed, Untouched, Compared, Checking, Preparing, Sealing
  <2> QED
    BY <2>1, <2>2, <2>3, MoveKeepsAtomic DEF Fresh
<1>23. ASSUME NEW p \in Processes, Fail(p) PROVE AtomicInv'
  <2>1. /\ Moves(p, "failed", NoCall) /\ scratch' = scratch \ {p}
        /\ pc[p] \in Checking \cup Preparing \cup {"exists"}
        /\ Alone(IF p \in scratch THEN {p} ELSE Processes)
        /\ UNCHANGED <<payload, manifest, receipt, litter>>
    BY <1>23, EndsMove DEF Fail, package
  <2>2. /\ DOMAIN before' = (IF p \in scratch THEN {p} ELSE Processes) \cap DOMAIN before
        /\ \A q \in DOMAIN before' : before'[q] = before[q]
    BY <2>1 DEF Alone
  <2>3. p \in DOMAIN before' => Undisturbed(p)'
    BY <1>1, <2>1, <2>2 DEF Moves, Undisturbed, Untouched, Compared, Checking, Preparing,
       Sealing, package
  <2>4. p \notin scratch => UNCHANGED scratch
    BY <2>1
  <2> QED
    BY <2>1, <2>2, <2>3, <2>4, MoveKeepsAtomic DEF Fresh
<1>24. ASSUME NEW p \in Processes, End(p) PROVE AtomicInv'
  <2>1. /\ Moves(p, "idle", NoCall) /\ pc[p] \in Done /\ Alone(Processes \ {p})
        /\ UNCHANGED <<payload, manifest, receipt, litter, scratch>>
    BY <1>24, EndsMove DEF End, world
  <2>2. /\ p \notin DOMAIN before' /\ DOMAIN before' \subseteq DOMAIN before
        /\ \A q \in DOMAIN before' : before'[q] = before[q]
    BY <2>1 DEF Alone
  <2>3. p \notin scratch
    BY <1>1, <2>1 DEF Done, Sealing
  <2> QED
    BY <2>1, <2>2, <2>3, MoveKeepsAtomic, NoCallIsCall DEF Fresh, Entry
<1>25. ASSUME NEW p \in Processes, Crash(p) PROVE AtomicInv'
  <2>1. /\ Moves(p, "idle", NoCall) /\ scratch' = scratch \ {p}
        /\ Alone(IF p \in scratch THEN {} ELSE Processes \ {p})
        /\ UNCHANGED <<payload, manifest, receipt>> /\ litter' = (litter \/ p \in scratch)
    BY <1>25, EndsMove DEF Crash
  <2>2. /\ DOMAIN before' = (IF p \in scratch THEN {} ELSE Processes \ {p}) \cap DOMAIN before
        /\ \A q \in DOMAIN before' : before'[q] = before[q]
    BY <2>1 DEF Alone
  <2>3. CASE p \in scratch
    <3>1. DOMAIN before' \subseteq {p} /\ p \notin DOMAIN before'
      BY <2>2, <2>3
    <3> QED
      BY <2>1, <3>1, MoveKeepsAtomic, NoCallIsCall DEF Fresh, Entry
  <2>4. CASE p \notin scratch
    <3>1. UNCHANGED <<scratch, litter>> /\ p \notin DOMAIN before'
      BY <2>1, <2>2, <2>4 DEF TypeOK
    <3> QED
      BY <2>1, <2>2, <2>4, <3>1, MoveKeepsAtomic, NoCallIsCall DEF Fresh, Entry
  <2> QED
    BY <2>3, <2>4
<1>26. ASSUME UNCHANGED <<pc, call>>, scratch' \subseteq scratch,
              \/ DOMAIN before' = {}
              \/ UNCHANGED <<payload, manifest, receipt, litter, scratch, before>>
       PROVE  AtomicInv'
  <2>1. ASSUME NEW q \in DOMAIN before' PROVE Undisturbed(q)'
    <3>1. UNCHANGED <<payload, manifest, receipt, litter, scratch, before>> /\ q \in Processes
      BY <1>26, <2>1 DEF TypeOK
    <3> QED
      BY <1>1, <1>26, <2>1, <3>1, OthersStayUndisturbed
  <2>2. \A q \in Processes : Fresh(pc'[q], call'[q])
    BY <1>1, <1>26
  <2>3. \A q \in scratch' : pc'[q] \in {"replace"} \cup Sealing
    BY <1>26 DEF AtomicInv
  <2> QED
    BY <2>1, <2>2, <2>3 DEF AtomicInv
<1>27. CASE \E i \in Results : Evaluate(i)
  BY <1>26, <1>27 DEF Evaluate, package, ghosts
<1>28. CASE (\E f \in Files, v \in Versions : Edit(f, v)) \/ (\E c \in Content : Generate(c)) \/ Relist
  <2>1. UNCHANGED <<pc, call>> /\ scratch' \subseteq scratch /\ Alone({})
    BY <1>28 DEF Edit, Generate, Relist, Becomes
  <2>2. DOMAIN before' = {}
    BY <2>1 DEF Alone
  <2> QED
    BY <1>26, <2>1, <2>2
<1>29. CASE UNCHANGED vars
  BY <1>2, <1>26, <1>29 DEF vars, world, ghosts
<1> QED
  BY <1>3, <1>4, <1>5, <1>6, <1>7, <1>8, <1>9, <1>10, <1>11, <1>12, <1>13, <1>14, <1>15, <1>16,
     <1>17, <1>18, <1>19, <1>20, <1>21, <1>22, <1>23, <1>24, <1>25, <1>27, <1>28, <1>29 DEF Next

LEMMA AtomicHolds == Spec => []AtomicInv
<1>1. Init => AtomicInv
  BY NoCallIsCall DEF Init, AtomicInv, Fresh, Entry
<1>2. TypeOK /\ TypeOK' /\ ReceiptInv /\ AtomicInv /\ [Next]_vars => AtomicInv'
  BY AtomicStep
<1> QED
  BY <1>1, <1>2, TypeCorrect, ReceiptHolds, PTL DEF Spec

\* An evaluate that nobody disturbs changes the package completely or not at all, but for a
\* crash and for a rollback that failed and is reported.
THEOREM CallIsAtomicHolds == Spec => []CallIsAtomic
<1>1. AtomicInv => CallIsAtomic
  BY DEF AtomicInv, Undisturbed, CallIsAtomic, Untouched
<1> QED
  BY <1>1, AtomicHolds, PTL

-----------------------------------------------------------------------------
(* The verdict of delivery-check *)

\* What a delivery check k at a label has hashed and compared are versions h that the
\* files have had since it began.
Grounded(label, k, h, content) ==
  /\ label \in {"exists", "passed"} => k.results = None
  /\ label \in Checking \cup {"exists", "passed"} /\ k.results = None =>
       /\ \A f \in Files : content[f] \in h[f]
       /\ label = "inventory" => \A f \in k.hashed : k.manifest.files[f] \in h[f]
       /\ label = "rules" => /\ \A f \in Files : k.manifest.files[f] \in h[f]
                             /\ \A f \in k.hashed : k.receipt.rules[f] \in h[f]
       /\ label \in {"exists", "passed"} /\ k.receipt # None =>
            /\ \A f \in Files : k.receipt.base[f] \in h[f]
            /\ k.receipt.rules[ScenarioFile] \in h[ScenarioFile]

HeldInv == \A p \in Processes : Grounded(pc[p], call[p], held[p], payload)

LEMMA MoveKeepsHeld ==
  ASSUME HeldInv, NEW p \in Processes, NEW label, NEW k, Moves(p, label, k), UNCHANGED payload,
         \A q \in Processes : q # p => held'[q] = held[q], Grounded(label, k, held'[p], payload)
  PROVE  HeldInv'
BY DEF HeldInv, Moves

LEMMA HeldStep ==
  ASSUME TypeOK, AtomicInv, HeldInv, [Next]_vars
  PROVE  HeldInv'
<1> USE EvaluationAssumption DEF Grounded, Checking
<1>1. \A p \in Processes : /\ Grounded(pc[p], call[p], held[p], payload) /\ Fresh(pc[p], call[p])
                           /\ call[p] \in Call
  BY DEF HeldInv, AtomicInv, TypeOK
<1>2. ASSUME NEW p \in Processes, NEW label, NEW k, Moves(p, label, k), UNCHANGED <<world, ghosts>>,
             Grounded(label, k, held[p], payload)
      PROVE  HeldInv'
  BY <1>2, MoveKeepsHeld DEF world, ghosts
<1>3. ASSUME NEW p \in Processes, NEW k,
             NEW label \in Preparing \cup Sealing \cup {"idle", "sealed", "failed", "unrestored",
                                                         "missing", "stale"},
             Moves(p, label, k), UNCHANGED payload, \A q \in Processes : q # p => held'[q] = held[q]
      PROVE  HeldInv'
  BY <1>3, MoveKeepsHeld DEF Preparing, Sealing
<1>4. ASSUME NEW p \in Processes, Start(p) PROVE HeldInv'
  <2>1. PICK i \in {None} \cup {j \in Results : recorded[j] # None} :
           /\ Moves(p, "manifest", Entry(i, call[p].manifest, call[p].names, call[p].hashed,
                                         call[p].rules, call[p].receipt, call[p].old))
           /\ held' = IF i = None THEN [held EXCEPT ![p] = [f \in Files |-> {payload[f]}]] ELSE held
    BY <1>4, StartMoves
  <2>2. UNCHANGED payload /\ \A q \in Processes : q # p => held'[q] = held[q]
    BY <1>4, <2>1 DEF Start, world, TypeOK
  <2>3. i = None => \A f \in Files : payload[f] \in held'[p][f]
    BY <2>1 DEF TypeOK
  <2>4. Grounded("manifest", Entry(i, call[p].manifest, call[p].names, call[p].hashed,
                                   call[p].rules, call[p].receipt, call[p].old), held'[p], payload)
    BY <2>3 DEF Entry
  <2> QED
    BY <2>1, <2>2, <2>4, MoveKeepsHeld
<1>5. ASSUME NEW p \in Processes, ReadManifest(p) PROVE HeldInv'
  <2>1. pc[p] = "manifest" /\ UNCHANGED <<world, ghosts>>
    BY <1>5 DEF ReadManifest, Reads
  <2>2. Grounded("inventory", Entry(call[p].results, manifest, call[p].names, call[p].hashed,
                                    call[p].rules, call[p].receipt, call[p].old), held[p], payload)
    BY <1>1, <2>1 DEF Entry, Fresh
  <2> QED
    BY <1>2, <1>5, <2>1, <2>2, ReadManifestMoves
<1>6. ASSUME NEW p \in Processes, ListNames(p) \/ HashReceipt(p) PROVE HeldInv'
  <2>1. pc[p] = "inventory" /\ UNCHANGED <<world, ghosts>>
    BY <1>6 DEF ListNames, HashReceipt, Reads
  <2>2. \A n : Grounded("inventory", Entry(call[p].results, call[p].manifest, n, call[p].hashed,
                                  call[p].rules, call[p].receipt, call[p].old), held[p], payload)
    BY <1>1, <2>1 DEF Entry
  <2>3. \E n \in {"listed", "hashed"} :
          Moves(p, "inventory", Entry(call[p].results, call[p].manifest, n, call[p].hashed,
                                      call[p].rules, call[p].receipt, call[p].old))
    BY <1>6, NamesMoves
  <2> QED
    BY <1>2, <2>1, <2>2, <2>3
<1>7. ASSUME NEW p \in Processes, NEW f \in Files, HashFile(p, f) PROVE HeldInv'
  <2>1. /\ pc[p] = "inventory" /\ UNCHANGED <<world, ghosts>>
        /\ payload[f] = call[p].manifest.files[f]
    BY <1>7 DEF HashFile, Reads
  <2>2. Grounded("inventory", Entry(call[p].results, call[p].manifest, call[p].names,
                   call[p].hashed \cup {f}, call[p].rules, call[p].receipt, call[p].old),
                 held[p], payload)
    BY <1>1, <2>1 DEF Entry
  <2> QED
    BY <1>2, <1>7, <2>1, <2>2, HashingMoves
<1>8. ASSUME NEW p \in Processes, ReadReceipt(p) PROVE HeldInv'
  <2> DEFINE k == Entry(call[p].results, call[p].manifest, "unread", {}, call[p].rules, receipt,
                        call[p].old)
  <2>1. PICK label \in {"rules", "load", "exists"} :
          /\ Moves(p, label, k)
          /\ label = (IF receipt = None THEN AfterCheck(p) ELSE "rules")
    BY <1>8, ReadReceiptMoves DEF AfterCheck
  <2>2. pc[p] = "inventory" /\ UNCHANGED <<world, ghosts>> /\ call[p].hashed = Files
    BY <1>8 DEF ReadReceipt, Reads
  <2>3. Grounded(label, k, held[p], payload)
    BY <1>1, <2>1, <2>2 DEF Entry, AfterCheck, Evaluating
  <2> HIDE DEF k
  <2> QED
    BY <1>2, <2>1, <2>2, <2>3
<1>9. ASSUME NEW p \in Processes, NEW f \in RuleFiles, CompareRule(p, f) PROVE HeldInv'
  <2>1. /\ pc[p] \in {"rules", "validate"} /\ UNCHANGED <<world, ghosts>>
        /\ payload[f] = call[p].receipt.rules[f]
    BY <1>9 DEF CompareRule, Reads
  <2>2. Grounded(pc[p], Entry(call[p].results, call[p].manifest, call[p].names,
                   call[p].hashed \cup {f}, call[p].rules, call[p].receipt, call[p].old),
                 held[p], payload)
    BY <1>1, <2>1 DEF Entry
  <2> QED
    BY <1>2, <1>9, <2>1, <2>2, HashingMoves
<1>10. ASSUME NEW p \in Processes, Validate(p) PROVE HeldInv'
  <2> DEFINE k == Entry(call[p].results, call[p].manifest, call[p].names, {}, call[p].rules,
                        call[p].receipt, call[p].old)
  <2>1. PICK label \in {"stage", "load", "exists"} :
          /\ Moves(p, label, k)
          /\ label = (IF pc[p] = "validate" THEN "stage" ELSE AfterCheck(p))
    BY <1>10, ValidateMoves DEF AfterCheck
  <2>2. /\ pc[p] \in {"rules", "validate"} /\ UNCHANGED <<world, ghosts>>
        /\ call[p].hashed = RuleFiles /\ call[p].receipt.base = call[p].manifest.files
    BY <1>10 DEF Validate, Reads, BaseFits
  <2>3. Grounded(label, k, held[p], payload)
    BY <1>1, <2>1, <2>2 DEF Entry, AfterCheck, Evaluating
  <2> HIDE DEF k
  <2> QED
    BY <1>2, <2>1, <2>2, <2>3
<1>11. ASSUME NEW p \in Processes, Answer(p) PROVE HeldInv'
  <2>1. pc[p] = "exists" /\ UNCHANGED <<world, ghosts>>
    BY <1>11 DEF Answer
  <2>2. CASE Moves(p, "passed", Remembered(p))
    <3>1. Grounded("passed", Remembered(p), held[p], payload)
      BY <1>1, <2>1 DEF Remembered, Entry
    <3> QED
      BY <1>2, <2>1, <2>2, <3>1
  <2>3. CASE Moves(p, "missing", NoCall)
    BY <1>3, <2>1, <2>3 DEF world, ghosts
  <2> QED
    BY <1>11, <2>2, <2>3, EndsMove DEF Answer
<1>12. ASSUME NEW p \in Processes,
              \/ FindStale(p) \/ Load(p) \/ MakeReceipt(p) \/ (\E f \in RuleFiles : HashRule(p, f))
       PROVE  HeldInv'
  <2>1. UNCHANGED <<payload, held>>
    BY <1>12 DEF FindStale, Load, MakeReceipt, HashRule, Reads, world, ghosts
  <2>2. \E label \in {"stale", "judge", "validate", "hash"} : \E k : Moves(p, label, k)
    BY <1>12, EndsMove, LoadMoves, MakeReceiptMoves, HashingMoves DEF FindStale
  <2> QED
    BY <1>3, <2>1, <2>2 DEF Preparing
<1>13. ASSUME NEW p \in Processes,
              Judge(p) \/ ManifestFails(p) \/ ReplaceReceipt(p)
       PROVE  HeldInv'
  <2>1. UNCHANGED <<payload, held>>
    BY <1>13 DEF Judge, ManifestFails, ReplaceReceipt, Reads, world, ghosts
  <2>2. \E label \in {"hash", "rollback", "index"} : Moves(p, label, call[p])
    BY <1>13 DEF Judge, ManifestFails, ReplaceReceipt, Reads, Goto, TypeOK, Moves
  <2> QED
    BY <1>3, <2>1, <2>2 DEF Preparing, Sealing
<1>14. ASSUME NEW p \in Processes,
              \/ Stage(p) \/ ReplaceManifest(p) \/ RollBack(p) \/ RollBackFails(p) \/ Fail(p)
       PROVE  HeldInv'
  <2>1. UNCHANGED <<payload, held>>
    BY <1>14 DEF Stage, ReplaceManifest, RollBack, RollBackFails, Fail, package
  <2>2. \E label \in {"replace", "sealed", "failed", "unrestored"} : \E k : Moves(p, label, k)
    BY <1>14, StageMoves, EndsMove DEF ReplaceManifest, RollBack, RollBackFails, Fail
  <2> QED
    BY <1>3, <2>1, <2>2 DEF Preparing
<1>15. ASSUME NEW p \in Processes, End(p) \/ Crash(p) PROVE HeldInv'
  <2>1. UNCHANGED payload /\ \A q \in Processes : q # p => held'[q] = held[q]
    BY <1>15 DEF End, Crash, Forget, world, TypeOK
  <2>2. Moves(p, "idle", NoCall)
    BY <1>15, EndsMove DEF End, Crash
  <2> QED
    BY <1>3, <2>1, <2>2
<1>16. ASSUME NEW c, Becomes(c), UNCHANGED <<pc, call>> PROVE HeldInv'
  <2>1. ASSUME NEW p \in Processes PROVE Grounded(pc'[p], call'[p], held'[p], payload')
    <3>1. CASE pc[p] \in Checking \cup {"exists", "passed"} /\ call[p].results = None
      <4>1. \A f \in Files : held'[p][f] = held[p][f] \cup {payload'[f]}
        BY <1>16, <3>1 DEF Becomes, Evaluating
      <4>2. call[p].hashed \subseteq Files
        BY <1>1 DEF Call
      <4> QED
        BY <1>1, <1>16, <3>1, <4>1, <4>2
    <3>2. CASE ~(pc[p] \in Checking \cup {"exists", "passed"} /\ call[p].results = None)
      BY <1>1, <1>16, <3>2
    <3> QED
      BY <3>1, <3>2
  <2> QED
    BY <2>1 DEF HeldInv
<1>17. CASE (\E f \in Files, v \in Versions : Edit(f, v)) \/ \E c \in Content : Generate(c)
  BY <1>16, <1>17 DEF Edit, Generate
<1>18. CASE (\E i \in Results : Evaluate(i)) \/ Relist \/ UNCHANGED vars
  BY <1>1, <1>18 DEF Evaluate, Relist, vars, world, ghosts, package, HeldInv
<1> QED
  BY <1>4, <1>5, <1>6, <1>7, <1>8, <1>9, <1>10, <1>11, <1>12, <1>13, <1>14, <1>15, <1>17, <1>18
     DEF Next

\* When delivery-check says "passed" of a receipt it has read, the results this names
\* were observed on files each of which the package has had during the check, for any
\* number of files, calls, edits and replacements between the check's reads.
THEOREM VerdictWasEvaluatedHolds == Spec => []VerdictWasEvaluated
<1>1. Init => HeldInv
  BY DEF Init, HeldInv, Grounded, Checking
<1>2. TypeOK /\ AtomicInv /\ HeldInv /\ [Next]_vars => HeldInv'
  BY HeldStep
<1>3. TypeOK /\ ReceiptInv /\ HeldInv => VerdictWasEvaluated
  <2> SUFFICES ASSUME TypeOK, ReceiptInv, HeldInv,
                      NEW p \in Processes, pc[p] = "passed", call[p].receipt # None
               PROVE  LET r == recorded[call[p].receipt.results] IN
                        /\ r # None /\ \A f \in Files : r.of[f] \in held[p][f]
                        /\ \/ \E v \in held[p][ScenarioFile] : Passes(r.outcome, v)
                           \/ call[p].receipt.results \in overtaken
    BY DEF VerdictWasEvaluated
  <2>1. Genuine(call[p].receipt, recorded, overtaken)
    BY DEF ReceiptInv, Honest
  <2>2. /\ \A f \in Files : call[p].receipt.base[f] \in held[p][f]
        /\ call[p].receipt.rules[ScenarioFile] \in held[p][ScenarioFile]
    BY DEF HeldInv, Grounded
  <2> QED
    BY <2>1, <2>2 DEF Genuine, Meets
<1> QED
  BY <1>1, <1>2, <1>3, TypeCorrect, ReceiptHolds, AtomicHolds, PTL DEF Spec
=============================================================================
