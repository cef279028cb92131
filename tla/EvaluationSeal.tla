---------------------------- MODULE EvaluationSeal ----------------------------
(***************************************************************************)
(* The evaluation of one package (harness_factory/evaluation.py): results  *)
(* that an evaluator recorded for a manifest are validated and sealed into *)
(* the package as a receipt, by replacing first the receipt and then the   *)
(* manifest; delivery-check reads the package and says whether it was      *)
(* evaluated.  Several calls run at once, fail and die, and read the files *)
(* one after the other; users edit files, list them anew in the manifest   *)
(* and generate the package again at any time, as nothing is locked.       *)
(*                                                                         *)
(* A digest is what it is the digest of.  RuleFiles are the files whose    *)
(* digests the receipt repeats: the workflow, the scenarios, the skills.   *)
(***************************************************************************)
EXTENDS Naturals

CONSTANTS
  Processes,     \* calls of evaluate and delivery-check
  Files,         \* the files the manifest lists, but the receipt
  RuleFiles,     \* those whose digests are in the receipt too
  ScenarioFile,  \* scenarios.json
  RootFiles,     \* those in the top directory
  Versions,      \* contents of a file
  Scenarios,     \* scenario ids
  States,        \* what a scenario may end in; one without a result is in an unexpected one
  Expected,      \* what each version of scenarios.json expects of each scenario
  Results,       \* files of results, each recorded once
  None,          \* no receipt, no version, no results
  MaxEvents      \* bound on what users and evaluators do

ASSUME EvaluationAssumption ==
  /\ RuleFiles \subseteq Files /\ RootFiles \subseteq Files /\ ScenarioFile \in RuleFiles
  /\ Expected \in [Versions -> [Scenarios -> States]]
  /\ MaxEvents \in Nat
  /\ None \notin Results \cup Versions

VARIABLES
  payload,    \* the content of each file
  manifest,   \* what the manifest lists
  receipt,    \* the file evaluation.json
  scratch,    \* calls whose staged files are in the package
  litter,     \* whether a call died and left staged files
  recorded,   \* the results that were recorded, each for a manifest
  pc,         \* where each call is
  call,       \* its results, and what it has read
  before,     \* the package when an evaluate began, while nobody else changes it
  held,       \* what each file has been since the delivery check began
  overtaken,  \* results judged by scenarios that were edited before they were hashed
  events      \* how many events there were

package == <<payload, manifest, receipt, litter>>
ghosts == <<before, held, overtaken>>
world == <<payload, manifest, receipt, scratch, litter, recorded, events>>
vars == <<world, pc, call, ghosts>>

-----------------------------------------------------------------------------
Content == [Files -> Versions]
Receipt == [rules: [RuleFiles -> Versions], base: Content, results: Results]
Manifest == [files: Content, receipt: Receipt \cup {None}]
Record == [manifest: Manifest, outcome: [Scenarios -> States], of: Content]
Call == [results: Results \cup {None}, manifest: Manifest \cup {None},
         names: {"unread", "listed", "hashed"}, hashed: SUBSET Files,
         rules: [RuleFiles -> Versions \cup {None}],
         receipt: Receipt \cup {None}, old: Receipt \cup {None}]
NoRules == [f \in RuleFiles |-> None]
NoCall == [results |-> None, manifest |-> None, names |-> "unread", hashed |-> {},
           rules |-> NoRules, receipt |-> None, old |-> None]

Checking == {"manifest", "inventory", "rules"}
Preparing == {"load", "judge", "hash", "validate", "stage", "replace"}
Sealing == {"index", "rollback"}
Done == {"sealed", "failed", "unrestored", "passed", "missing", "stale"}

\* The variables range over their types, and a call has read what its next step uses.
TypeOK ==
  /\ payload \in Content /\ manifest \in Manifest /\ receipt \in Receipt \cup {None}
  /\ scratch \in SUBSET Processes /\ litter \in BOOLEAN
  /\ recorded \in [Results -> Record \cup {None}]
  /\ pc \in [Processes -> {"idle", "exists"} \cup Checking \cup Preparing \cup Sealing \cup Done]
  /\ call \in [Processes -> Call]
  /\ DOMAIN before \subseteq Processes /\ overtaken \in SUBSET Results
  /\ held \in [Processes -> [Files -> SUBSET Versions]]
  /\ events \in 0 .. MaxEvents
  /\ \A p \in Processes :
       /\ call[p].results # None => recorded[call[p].results] # None
       /\ pc[p] \in {"inventory", "rules"} \cup (Preparing \ {"load"}) \cup Sealing =>
            call[p].manifest \in Manifest
       /\ pc[p] \in Preparing \cup Sealing \cup {"sealed"} => call[p].results \in Results
       /\ pc[p] \in {"rules", "validate", "stage", "replace", "sealed"} \cup Sealing =>
            call[p].receipt \in Receipt

Evaluating(p) == call[p].results # None

\* Mutant of BaseFits: the listed files are not compared with the receipt's.
BaseFitsAny(r, m) == TRUE
\* The digest of the manifest without the receipt is the one in the receipt.
BaseFits(r, m) == r.base = m.files

\* validate_results: every scenario has the result that the version expects.
Passes(outcome, version) == outcome = Expected[version]

\* check_package on a package that nobody changes: the files listed and no others;
\* the receipt, if there is one, is valid.
Whole ==
  /\ manifest = [files |-> payload, receipt |-> receipt]
  /\ scratch = {} /\ ~litter
  /\ receipt # None =>
       BaseFits(receipt, manifest) /\ \A f \in RuleFiles : receipt.rules[f] = payload[f]

-----------------------------------------------------------------------------
(* check_package, read by read *)

Goto(p, label) == pc' = [pc EXCEPT ![p] = label]

\* From now on only the evaluates in S are alone with the package.
Alone(S) == before' = [q \in S \cap DOMAIN before |-> before[q]]

\* Call p changes the package.
Disturbs(p) == Alone({p})

\* A step of p that only reads.
Reads(p, label) == Goto(p, label) /\ UNCHANGED <<world, ghosts>>

\* The call has succeeded: its results, or the receipt it has read, are remembered.
Succeeds(p, label) ==
  /\ Goto(p, label)
  /\ call' = [call EXCEPT ![p] =
       [NoCall EXCEPT !.results = call[p].results, !.receipt = call[p].receipt]]

\* The call has not.
Fails(p, label) ==
  /\ Goto(p, label)
  /\ call' = [call EXCEPT ![p] = NoCall]

\* A call begins with check_package: evaluate with a file of results.
Start(p) ==
  /\ pc[p] = "idle"
  /\ \E i \in {None} \cup {j \in Results : recorded[j] # None} :
       /\ call' = [call EXCEPT ![p].results = i]
       /\ before' = IF i = None THEN before
                    ELSE [q \in DOMAIN before \cup {p} |-> IF q = p THEN package ELSE before[q]]
       /\ held' = IF i = None THEN [held EXCEPT ![p] = [f \in Files |-> {payload[f]}]] ELSE held
  /\ Goto(p, "manifest")
  /\ UNCHANGED <<world, overtaken>>

ReadManifest(p) ==
  /\ pc[p] = "manifest"
  /\ call' = [call EXCEPT ![p].manifest = manifest]
  /\ Reads(p, "inventory")

\* inventory: the names in .harness, where staged files would be and the receipt is
\* or is not, are the listed ones.
ListNames(p) ==
  /\ pc[p] = "inventory" /\ call[p].names = "unread" /\ RootFiles \subseteq call[p].hashed
  /\ scratch = {} /\ ~litter
  /\ receipt = None <=> call[p].manifest.receipt = None
  /\ call' = [call EXCEPT ![p].names = "listed"]
  /\ Reads(p, "inventory")

\* inventory hashes one file, which is as listed.  os.walk comes to the top directory
\* first, and then to the others in any order; the names of a directory come before
\* its files, so those of .harness before the scenarios.
HashFile(p, f) ==
  /\ pc[p] = "inventory" /\ f \notin call[p].hashed
  /\ f \notin RootFiles => RootFiles \subseteq call[p].hashed
  /\ f = ScenarioFile => call[p].names # "unread"
  /\ payload[f] = call[p].manifest.files[f]
  /\ call' = [call EXCEPT ![p].hashed = @ \cup {f}]
  /\ Reads(p, "inventory")

\* So does the receipt, once its name was listed.
HashReceipt(p) ==
  /\ pc[p] = "inventory" /\ call[p].names = "listed"
  /\ receipt = call[p].manifest.receipt
  /\ call' = [call EXCEPT ![p].names = "hashed"]
  /\ Reads(p, "inventory")

\* Mutant of AfterCheck: a delivery check goes on as evaluate does.
AfterCheckSeal(p) == "load"
AfterCheck(p) == IF Evaluating(p) THEN "load" ELSE "exists"

\* The receipt is read, which is not what was hashed if somebody replaced it.
ReadReceipt(p) ==
  /\ pc[p] = "inventory" /\ call[p].hashed = Files /\ call[p].names = "hashed"
  /\ call' = [call EXCEPT ![p].receipt = receipt, ![p].hashed = {}, ![p].names = "unread"]
  /\ Reads(p, IF receipt = None THEN AfterCheck(p) ELSE "rules")

\* validate_receipt, of the receipt there is and of the one evaluate has made: a rule
\* file, read again, is as the receipt says.
CompareRule(p, f) ==
  /\ pc[p] \in {"rules", "validate"} /\ f \in RuleFiles \ call[p].hashed
  /\ payload[f] = call[p].receipt.rules[f]
  /\ call' = [call EXCEPT ![p].hashed = @ \cup {f}]
  /\ Reads(p, pc[p])

\* So are the listed files: the receipt is valid.
Validate(p) ==
  /\ pc[p] \in {"rules", "validate"} /\ call[p].hashed = RuleFiles
  /\ BaseFits(call[p].receipt, call[p].manifest)
  /\ call' = [call EXCEPT ![p].hashed = {}]
  /\ Reads(p, IF pc[p] = "validate" THEN "stage" ELSE AfterCheck(p))

\* _evaluation_failure: the message says "stale" or "mismatch".
FindStale(p) ==
  /\ pc[p] = "rules" /\ ~Evaluating(p)
  /\ \/ \E f \in RuleFiles \ call[p].hashed : payload[f] # call[p].receipt.rules[f]
     \/ ~BaseFits(call[p].receipt, call[p].manifest)
  /\ Fails(p, "stale")
  /\ UNCHANGED <<world, ghosts>>

\* delivery_check after check_package: evaluation.json exists or not.
Answer(p) ==
  /\ pc[p] = "exists"
  /\ IF receipt # None THEN Succeeds(p, "passed") ELSE Fails(p, "missing")
  /\ UNCHANGED <<world, ghosts>>

-----------------------------------------------------------------------------
(* seal_evaluation *)

\* The manifest is read again.
Load(p) ==
  /\ pc[p] = "load"
  /\ call' = [call EXCEPT ![p].manifest = manifest, ![p].receipt = None]
  /\ Reads(p, "judge")

\* Mutant of Judge: the results are not compared with the manifest.
JudgeUnbound(p) ==
  /\ pc[p] = "judge"
  /\ Passes(recorded[call[p].results].outcome, payload[ScenarioFile])
  /\ UNCHANGED call
  /\ Reads(p, "hash")

\* Then the scenarios; validate_results judges the results by them and binds them to
\* the manifest.
Judge(p) ==
  /\ pc[p] = "judge"
  /\ recorded[call[p].results].manifest = call[p].manifest
  /\ Passes(recorded[call[p].results].outcome, payload[ScenarioFile])
  /\ UNCHANGED call
  /\ Reads(p, "hash")

\* Then the rule files, one after the other, for their digests.
HashRule(p, f) ==
  /\ pc[p] = "hash" /\ call[p].rules[f] = None
  /\ call' = [call EXCEPT ![p].rules[f] = payload[f]]
  /\ Reads(p, "hash")

\* The receipt made of them is validated next.
MakeReceipt(p) ==
  /\ pc[p] = "hash" /\ \A f \in RuleFiles : call[p].rules[f] # None
  /\ call' = [call EXCEPT ![p].rules = NoRules,
       ![p].receipt = [rules |-> call[p].rules, base |-> call[p].manifest.files,
                       results |-> call[p].results]]
  /\ Reads(p, "validate")

\* The receipt there is, for a rollback, and _stage: the scratch files lie in the package.
Stage(p) ==
  /\ pc[p] = "stage"
  /\ call' = [call EXCEPT ![p].old = receipt]
  /\ scratch' = scratch \cup {p}
  /\ Disturbs(p)
  /\ Goto(p, "replace")
  /\ UNCHANGED <<package, recorded, events, held, overtaken>>

ReplaceReceipt(p) ==
  /\ pc[p] = "replace" /\ p \in scratch
  /\ receipt' = call[p].receipt
  /\ Disturbs(p)
  /\ Goto(p, "index")
  /\ UNCHANGED <<payload, manifest, scratch, litter, recorded, events, call, held, overtaken>>

\* The manifest names the new receipt; the scratch files are removed.
ReplaceManifest(p) ==
  /\ pc[p] = "index" /\ p \in scratch
  /\ manifest' = [call[p].manifest EXCEPT !.receipt = call[p].receipt]
  /\ scratch' = scratch \ {p}
  /\ Disturbs(p)
  /\ Succeeds(p, "sealed")
  /\ UNCHANGED <<payload, receipt, litter, recorded, events, held, overtaken>>

ManifestFails(p) ==
  /\ pc[p] = "index"
  /\ UNCHANGED call
  /\ Reads(p, "rollback")

\* Mutant of RollBack: the new receipt is removed, and no old one restored.
RemoveReceipt(p) ==
  /\ pc[p] = "rollback" /\ receipt # None
  /\ receipt' = None
  /\ scratch' = scratch \ {p}
  /\ Disturbs(p)
  /\ Fails(p, "failed")
  /\ UNCHANGED <<payload, manifest, litter, recorded, events, held, overtaken>>

\* The old receipt replaces the new one, or whatever is there by now.
RollBack(p) ==
  /\ pc[p] = "rollback"
  /\ IF call[p].old = None THEN receipt # None ELSE p \in scratch
  /\ receipt' = call[p].old
  /\ scratch' = scratch \ {p}
  /\ Disturbs(p)
  /\ Fails(p, "failed")
  /\ UNCHANGED <<payload, manifest, litter, recorded, events, held, overtaken>>

\* "manifest replace failed and receipt rollback failed"
RollBackFails(p) ==
  /\ pc[p] = "rollback"
  /\ scratch' = scratch \ {p}
  /\ Disturbs(p)
  /\ Fails(p, "unrestored")
  /\ UNCHANGED <<package, recorded, events, held, overtaken>>

\* Any error before the receipt is replaced; staged files are removed.
Fail(p) ==
  /\ pc[p] \in Checking \cup Preparing \cup {"exists"}
  /\ scratch' = scratch \ {p}
  /\ Alone(IF p \in scratch THEN {p} ELSE Processes)
  /\ Fails(p, "failed")
  /\ UNCHANGED <<package, recorded, events, held, overtaken>>

\* What is kept of the call is forgotten.
Forget(p) ==
  /\ call' = [call EXCEPT ![p] = NoCall]
  /\ held' = [held EXCEPT ![p] = [f \in Files |-> {}]]
  /\ Goto(p, "idle")

End(p) ==
  /\ pc[p] \in Done
  /\ Alone(Processes \ {p})
  /\ Forget(p)
  /\ UNCHANGED <<world, overtaken>>

\* The process is killed: its staged files stay.
Crash(p) ==
  /\ pc[p] \in Preparing \cup Sealing
  /\ litter' = (litter \/ p \in scratch)
  /\ scratch' = scratch \ {p}
  /\ Alone(IF p \in scratch THEN {} ELSE Processes \ {p})
  /\ Forget(p)
  /\ UNCHANGED <<payload, manifest, receipt, recorded, events, overtaken>>

-----------------------------------------------------------------------------
(* Users and evaluators *)

\* One of the events that MaxEvents bounds.
Happens == events < MaxEvents /\ events' = events + 1

\* An evaluator observes the scenarios on a package that was checked, and records
\* what they ended in for its manifest.
Evaluate(i) ==
  /\ Happens /\ Whole /\ recorded[i] = None
  /\ \E outcome \in [Scenarios -> States] :
       recorded' = [recorded EXCEPT ![i] =
         [manifest |-> manifest, outcome |-> outcome, of |-> payload]]
  /\ UNCHANGED <<package, scratch, pc, call, ghosts>>

\* The files are c from now on: nobody is alone, delivery checks have had c, and who
\* has judged results by the scenarios but not hashed them is overtaken.
Becomes(c) ==
  /\ payload' = c
  /\ Alone({})
  /\ held' = [p \in Processes |-> [f \in Files |->
       IF pc[p] = "idle" \/ Evaluating(p) THEN held[p][f] ELSE held[p][f] \cup {c[f]}]]
  /\ overtaken' = overtaken \cup
       {i \in Results : \E p \in Processes :
          call[p].results = i /\ pc[p] = "hash" /\ call[p].rules[ScenarioFile] = None}

\* A file is edited.
Edit(f, v) ==
  /\ Happens /\ v # payload[f]
  /\ Becomes([payload EXCEPT ![f] = v])
  /\ UNCHANGED <<manifest, receipt, scratch, litter, recorded, pc, call>>

\* Somebody lists the edited files in the manifest by hand.
Relist ==
  /\ Happens /\ manifest.files # payload
  /\ manifest' = [manifest EXCEPT !.files = payload]
  /\ Alone({})
  /\ UNCHANGED <<payload, receipt, scratch, litter, recorded, pc, call, held, overtaken>>

\* The package is removed, with all that is in it, and generated again.
Generate(c) ==
  /\ Happens
  /\ Becomes(c)
  /\ manifest' = [files |-> c, receipt |-> None]
  /\ receipt' = None
  /\ scratch' = {} /\ litter' = FALSE
  /\ UNCHANGED <<recorded, pc, call>>

Init ==
  /\ payload \in Content
  /\ manifest = [files |-> payload, receipt |-> None]
  /\ receipt = None
  /\ scratch = {} /\ litter = FALSE
  /\ recorded = [i \in Results |-> None]
  /\ pc = [p \in Processes |-> "idle"]
  /\ call = [p \in Processes |-> NoCall]
  /\ before = [p \in {} |-> package] /\ overtaken = {}
  /\ held = [p \in Processes |-> [f \in Files |-> {}]]
  /\ events = 0

Next ==
  \/ \E p \in Processes :
       \/ Start(p) \/ ReadManifest(p) \/ ListNames(p) \/ HashReceipt(p) \/ ReadReceipt(p)
       \/ \E f \in Files : HashFile(p, f)
       \/ \E f \in RuleFiles : CompareRule(p, f) \/ HashRule(p, f)
       \/ Validate(p) \/ FindStale(p) \/ Answer(p) \/ Load(p) \/ Judge(p) \/ MakeReceipt(p)
       \/ Stage(p) \/ ReplaceReceipt(p) \/ ReplaceManifest(p) \/ ManifestFails(p)
       \/ RollBack(p) \/ RollBackFails(p) \/ Fail(p) \/ End(p) \/ Crash(p)
  \/ \E i \in Results : Evaluate(i)
  \/ \E f \in Files, v \in Versions : Edit(f, v)
  \/ \E c \in Content : Generate(c)
  \/ Relist

Spec == Init /\ [][Next]_vars

-----------------------------------------------------------------------------
(* Properties *)

\* A package that passes its check with a receipt was evaluated as it is: the results
\* the receipt names were observed on these very files and meet the expectation of
\* every scenario, whatever evaluations overlapped, failed or died and whoever edited
\* what meanwhile; only results whose scenarios were edited between the two times that
\* evaluate reads them may have been judged by others.
PassedWasEvaluated ==
  Whole /\ receipt # None =>
    LET r == recorded[receipt.results] IN
    /\ r # None /\ r.of = payload
    /\ Passes(r.outcome, payload[ScenarioFile]) \/ receipt.results \in overtaken

\* Unless somebody else changed the package meanwhile, evaluate either fails and
\* leaves it as it was or ends with a whole package that names its own results;
\* a failed rollback is reported as such.
CallIsAtomic ==
  \A p \in DOMAIN before :
    /\ pc[p] = "failed" => package = before[p] /\ p \notin scratch
    /\ pc[p] = "sealed" => Whole /\ receipt.results = call[p].results

\* Although delivery-check reads the manifest, the files, the receipt and the rules one
\* after the other, its "passed" rests on evaluated files: if it read a receipt, the
\* results this names were observed on files each of which the package has had during
\* the check, and meet the expectations of scenarios it has had during the check.
VerdictWasEvaluated ==
  \A p \in Processes : pc[p] = "passed" /\ call[p].receipt # None =>
    LET r == recorded[call[p].receipt.results] IN
    /\ r # None /\ \A f \in Files : r.of[f] \in held[p][f]
    /\ \/ \E v \in held[p][ScenarioFile] : Passes(r.outcome, v)
       \/ call[p].receipt.results \in overtaken
=============================================================================
