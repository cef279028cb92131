---------------------------- MODULE PackageInstall ----------------------------
(***************************************************************************)
(* Installing published packages into one workspace: the command line      *)
(* (hf_cli/install.py) resolves a version in the registry, takes its       *)
(* package from a cache or downloads it (hf_cli/cache.py), and previews or *)
(* applies the installation (harness_factory/install.py).  Several calls,  *)
(* of one or more users, run at once; the users edit the workspace.        *)
(*                                                                         *)
(* The managed files of the workspace are numbered in the order in which   *)
(* they are written; the last one, Receipt, is the manifest, which names   *)
(* the package; the packages own the same directories.  A preview's digest *)
(* is the package and the content of every managed file.                   *)
(***************************************************************************)
EXTENDS Naturals

CONSTANTS
  Processes,  \* calls of the command line
  Packages,   \* published versions
  N,          \* number of managed files beside the manifest
  Contents,   \* contents of files
  NoFile,     \* a file that does not exist
  Payload,    \* the content of each file in each package
  MaxCalls,   \* bound on the number of calls
  MaxEvents   \* bound on edits, damaged cache entries, revocations and their reversal

Receipt == N + 1
Files == 1 .. Receipt

ASSUME PayloadAssumption ==
  /\ N \in Nat /\ MaxCalls \in Nat /\ MaxEvents \in Nat
  /\ Payload \in [Packages -> [1 .. N -> Contents \cup {NoFile}]]
  /\ NoFile \notin Packages \cup Contents /\ Packages \cap Contents = {}

VARIABLES
  published,  \* versions the registry delivers
  cache,      \* the cache entry of each package
  target,     \* the managed files of the workspace
  edited,     \* files whose content a user wrote
  unseen,     \* those each user's preview is older than
  pc,         \* where each call is
  call,       \* its package, and whether it applies a preview
  preview,    \* the last preview each user was shown
  next,       \* the file a call is about to hash, replace or check
  seen,       \* the manifest the final check has read
  warned,     \* whether the user's last installation ended incomplete
  calls,      \* how many calls there were
  events      \* how many of those events there were

vars == <<published, cache, target, edited, unseen, pc, call, preview, next, seen, warned, calls, events>>

-----------------------------------------------------------------------------
Snapshot == [Files -> Contents \cup Packages \cup {NoFile}]
NoPreview == [package |-> NoFile, files |-> [i \in Files |-> NoFile]]
Preview == [package: Packages, files: Snapshot]
Call == [package: Packages \cup {NoFile}, apply: BOOLEAN]
NoCall == [package |-> NoFile, apply |-> FALSE]

Reading == {"resolve", "cache", "staged", "cached", "plan", "recheck"}
Writing == {"write", "replace", "check"}

\* The variables range over their types; a call past its start has a package,
\* and one that applies has the preview it was approved with.
TypeOK ==
  /\ published \in SUBSET Packages
  /\ cache \in [Packages -> {"absent", "whole", "damaged"}]
  /\ target \in Snapshot /\ target[Receipt] \in Packages \cup {NoFile}
  /\ edited \in SUBSET (1 .. N) /\ unseen \in [Processes -> SUBSET (1 .. N)]
  /\ pc \in [Processes -> {"idle"} \cup Reading \cup Writing]
  /\ call \in [Processes -> Call]
  /\ preview \in [Processes -> Preview \cup {NoPreview}]
  /\ next \in [Processes -> 0 .. N + 2]
  /\ seen \in [Processes -> Contents \cup Packages \cup {NoFile}]
  /\ warned \in [Processes -> BOOLEAN]
  /\ calls \in 0 .. MaxCalls /\ events \in 0 .. MaxEvents
  /\ \A w \in Processes :
       /\ pc[w] # "idle" => call[w].package \in Packages
       /\ pc[w] \in Writing \cup {"recheck"} =>
            preview[w] \in Preview /\ preview[w].package = call[w].package
       /\ pc[w] \in Writing => next[w] >= 1
       /\ pc[w] \in {"replace", "check"} => next[w] <= Receipt

\* The managed files as package p leaves them.
Installed(p) == [i \in Files |-> IF i = Receipt THEN p ELSE Payload[p][i]]

\* "unlisted files collide with newly owned directories"
Collides(p) == \E i \in 1 .. N : target[i] # NoFile /\ Payload[p][i] = NoFile

\* _plan: what the digest of a preview binds.
Plan(p) == [package |-> p, files |-> target]

-----------------------------------------------------------------------------
(* install_workflow and materialize_package *)

Goto(w, label) == pc' = [pc EXCEPT ![w] = label]

\* A call returns; what it was about is forgotten.
Return(w) ==
  /\ Goto(w, "idle")
  /\ call' = [call EXCEPT ![w] = NoCall]
  /\ next' = [next EXCEPT ![w] = 0]
  /\ seen' = [seen EXCEPT ![w] = NoFile]

\* A user asks for a preview of package p, or applies the one shown before.
Start(w) ==
  /\ pc[w] = "idle" /\ calls < MaxCalls
  /\ calls' = calls + 1
  /\ \E p \in Packages, apply \in BOOLEAN :
       /\ apply => preview[w].package = p
       /\ call' = [call EXCEPT ![w] = [package |-> p, apply |-> apply]]
  /\ Goto(w, "resolve")
  /\ UNCHANGED <<published, cache, target, edited, unseen, preview, next, seen, warned, events>>

\* _resolve_delivery: the version is published now, also for an apply.
Resolve(w) ==
  /\ pc[w] = "resolve" /\ call[w].package \in published
  /\ Goto(w, "cache")
  /\ UNCHANGED <<published, cache, target, edited, unseen, call, preview, next, seen, warned, calls, events>>

\* Mutant of Download: the archive is extracted into the cache entry itself.
DownloadInPlace(w) ==
  /\ pc[w] = "cache" /\ cache[call[w].package] = "absent"
  /\ call[w].package \in published
  /\ cache' = [cache EXCEPT ![call[w].package] = "partial"]
  /\ Goto(w, "cached")
  /\ UNCHANGED <<published, target, edited, unseen, call, preview, next, seen, warned, calls, events>>

\* The archive is downloaded, verified and extracted in a private directory; the
\* registry looks at the version again.
Download(w) ==
  /\ pc[w] = "cache" /\ cache[call[w].package] = "absent"
  /\ call[w].package \in published
  /\ Goto(w, "staged")
  /\ UNCHANGED <<published, cache, target, edited, unseen, call, preview, next, seen, warned, calls, events>>

\* os.replace(staging, entry), which fails if another call was faster.
Promote(w) ==
  /\ pc[w] = "staged" /\ cache[call[w].package] = "absent"
  /\ cache' = [cache EXCEPT ![call[w].package] = "whole"]
  /\ Goto(w, "cached")
  /\ UNCHANGED <<published, target, edited, unseen, call, preview, next, seen, warned, calls, events>>

\* _validate_cached
Validate(w) ==
  /\ pc[w] \in {"cache", "cached"} /\ cache[call[w].package] = "whole"
  /\ Goto(w, "plan")
  /\ UNCHANGED <<published, cache, target, edited, unseen, call, preview, next, seen, warned, calls, events>>

-----------------------------------------------------------------------------
(* plan_install and apply_install *)

\* check_package(source) and the collisions: otherwise there is no plan.
Plannable(p) == cache[p] = "whole" /\ ~Collides(p)

\* The user is shown the plan.
ShowPreview(w) ==
  /\ pc[w] = "plan" /\ ~call[w].apply /\ Plannable(call[w].package)
  /\ preview' = [preview EXCEPT ![w] = Plan(call[w].package)]
  /\ unseen' = [unseen EXCEPT ![w] = {}]
  /\ Return(w)
  /\ UNCHANGED <<published, cache, target, edited, warned, calls, events>>

Approved(w) == Plannable(call[w].package) /\ preview[w] = Plan(call[w].package)

\* "stale or incorrect digest; preview again"
PlanApply(w) ==
  /\ pc[w] = "plan" /\ call[w].apply /\ Approved(w)
  /\ Goto(w, "recheck")
  /\ UNCHANGED <<published, cache, target, edited, unseen, call, preview, next, seen, warned, calls, events>>

\* The files of the package have been read into memory; the plan is made again.
PlanAgain(w) ==
  /\ pc[w] = "recheck" /\ Approved(w)
  /\ Goto(w, "write")
  /\ next' = [next EXCEPT ![w] = 1]
  /\ UNCHANGED <<published, cache, target, edited, unseen, call, preview, seen, warned, calls, events>>

\* A call that has not written yet ends with an error.
Refuse(w) ==
  /\ pc[w] \in Reading
  /\ Return(w)
  /\ UNCHANGED <<published, cache, target, edited, unseen, preview, warned, calls, events>>

Wanted(w) == Installed(call[w].package)[next[w]]

\* The next file already has its content, or is not part of the package.
Skip(w) ==
  /\ pc[w] = "write" /\ next[w] <= Receipt
  /\ Wanted(w) # NoFile => target[next[w]] = preview[w].files[next[w]]
  /\ Wanted(w) \in {NoFile, target[next[w]]}
  /\ next' = [next EXCEPT ![w] = @ + 1]
  /\ UNCHANGED <<published, cache, target, edited, unseen, pc, call, preview, seen, warned, calls, events>>

\* The next file is as the preview showed it, and is to be replaced.
Hash(w) ==
  /\ pc[w] = "write" /\ next[w] <= Receipt
  /\ target[next[w]] = preview[w].files[next[w]]
  /\ Wanted(w) \notin {NoFile, target[next[w]]}
  /\ Goto(w, "replace")
  /\ UNCHANGED <<published, cache, target, edited, unseen, call, preview, next, seen, warned, calls, events>>

\* atomic_write: whatever the file holds by now.
Replace(w) ==
  /\ pc[w] = "replace"
  /\ target' = [target EXCEPT ![next[w]] = Wanted(w)]
  /\ edited' = edited \ {next[w]}
  /\ next' = [next EXCEPT ![w] = @ + 1]
  /\ Goto(w, "write")
  /\ UNCHANGED <<published, cache, unseen, call, preview, seen, warned, calls, events>>

\* check_package(target) reads the manifest first; it may be another call's.
CheckReceipt(w) ==
  /\ pc[w] = "write" /\ next[w] = Receipt + 1
  /\ target[Receipt] \in Packages
  /\ seen' = [seen EXCEPT ![w] = target[Receipt]]
  /\ next' = [next EXCEPT ![w] = 1]
  /\ Goto(w, "check")
  /\ UNCHANGED <<published, cache, target, edited, unseen, call, preview, warned, calls, events>>

CheckFile(w) ==
  /\ pc[w] = "check" /\ next[w] \in 1 .. N
  /\ target[next[w]] = Payload[seen[w]][next[w]]
  /\ next' = [next EXCEPT ![w] = @ + 1]
  /\ UNCHANGED <<published, cache, target, edited, unseen, pc, call, preview, seen, warned, calls, events>>

\* Mutant of Succeed: the target is not checked.
SucceedUnchecked(w) ==
  /\ pc[w] = "write" /\ next[w] = Receipt + 1
  /\ Return(w)
  /\ warned' = [warned EXCEPT ![w] = FALSE]
  /\ UNCHANGED <<published, cache, target, edited, unseen, preview, calls, events>>

Succeed(w) ==
  /\ pc[w] = "check" /\ next[w] = Receipt
  /\ Return(w)
  /\ warned' = [warned EXCEPT ![w] = FALSE]
  /\ UNCHANGED <<published, cache, target, edited, unseen, preview, calls, events>>

\* "partial install (no rollback ...)", or the process dies.
Abandon(w) ==
  /\ pc[w] \in Writing
  /\ Return(w)
  /\ warned' = [warned EXCEPT ![w] = TRUE]
  /\ UNCHANGED <<published, cache, target, edited, unseen, preview, calls, events>>

-----------------------------------------------------------------------------
(* The surroundings *)

\* One of the events that MaxEvents bounds.
Happens == events < MaxEvents /\ events' = events + 1

\* A version is revoked, or published again by a request that read it before (see
\* AssetRegistry).
Revoke(p) ==
  /\ p \in published /\ Happens
  /\ published' = published \ {p}
  /\ UNCHANGED <<cache, target, edited, unseen, pc, call, preview, next, seen, warned, calls>>

Republish(p) ==
  /\ p \notin published /\ Happens
  /\ published' = published \cup {p}
  /\ UNCHANGED <<cache, target, edited, unseen, pc, call, preview, next, seen, warned, calls>>

\* Something changes a cached package; the user removes the entry, as told.
Damage(p) ==
  /\ cache[p] = "whole" /\ Happens
  /\ cache' = [cache EXCEPT ![p] = "damaged"]
  /\ UNCHANGED <<published, target, edited, unseen, pc, call, preview, next, seen, warned, calls>>

Remove(p) ==
  /\ cache[p] = "damaged"
  /\ cache' = [cache EXCEPT ![p] = "absent"]
  /\ UNCHANGED <<published, target, edited, unseen, pc, call, preview, next, seen, warned, calls, events>>

\* An edit between the hash of a file and its replacement is lost: the two are
\* not one operation.
Edit(i) ==
  /\ Happens
  /\ \E c \in Contents \cup {NoFile} : c # target[i] /\ target' = [target EXCEPT ![i] = c]
  /\ edited' = edited \cup {i}
  /\ unseen' = [w \in Processes |->
       IF pc[w] = "replace" /\ next[w] = i THEN unseen[w] \ {i} ELSE unseen[w] \cup {i}]
  /\ UNCHANGED <<published, cache, pc, call, preview, next, seen, warned, calls>>

Init ==
  /\ published = Packages
  /\ cache = [p \in Packages |-> "absent"]
  /\ target = [i \in Files |-> NoFile]
  /\ edited = {}
  /\ unseen = [w \in Processes |-> {}]
  /\ pc = [w \in Processes |-> "idle"]
  /\ call = [w \in Processes |-> NoCall]
  /\ preview = [w \in Processes |-> NoPreview]
  /\ next = [w \in Processes |-> 0]
  /\ seen = [w \in Processes |-> NoFile]
  /\ warned = [w \in Processes |-> FALSE]
  /\ calls = 0 /\ events = 0

Next ==
  \/ \E w \in Processes :
       \/ Start(w) \/ Resolve(w) \/ Download(w) \/ Promote(w) \/ Validate(w)
       \/ ShowPreview(w) \/ PlanApply(w) \/ PlanAgain(w) \/ Refuse(w)
       \/ Skip(w) \/ Hash(w) \/ Replace(w) \/ CheckReceipt(w) \/ CheckFile(w)
       \/ Succeed(w) \/ Abandon(w)
  \/ \E p \in Packages : Revoke(p) \/ Republish(p) \/ Damage(p) \/ Remove(p)
  \/ \E i \in 1 .. N : Edit(i)

Spec == Init /\ [][Next]_vars

-----------------------------------------------------------------------------
(* Properties *)

\* When every call is over, a workspace whose manifest names a package holds that
\* package, but for files users edited, unless some user's last installation
\* ended with a warning: a mixture of packages is never left without one.
MixtureIsKnown ==
  (\A w \in Processes : pc[w] \notin Writing /\ ~warned[w]) =>
    \A i \in Files \ edited :
      target[Receipt] # NoFile => target[i] = Installed(target[Receipt])[i]

\* An installation replaces what a user wrote into a file only if its preview
\* showed that content, whatever other installations do in between.
EditsAreShown ==
  \A w \in Processes :
    pc[w] = "replace" /\ next[w] \in unseen[w] \cap edited =>
      target[next[w]] = preview[w].files[next[w]]
=============================================================================
