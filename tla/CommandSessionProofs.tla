------------------------- MODULE CommandSessionProofs -------------------------
(***************************************************************************)
(* What holds of CommandSession for any number of logins, logouts and      *)
(* other commands, and any registries.  Each action is first reduced to    *)
(* what it does to the process that takes it, for the others keep theirs.  *)
(***************************************************************************)
EXTENDS CommandSession, TLAPS

USE ProcessesAssumption, RegistriesAssumption

-----------------------------------------------------------------------------
(* The steps *)

\* The other processes stay where they are, with what they have.
OthersKeep(p) ==
  \A q \in Processes \ {p} : pc'[q] = pc[q] /\ using'[q] = using[q] /\ cached'[q] = cached[q]

\* The session stored for r is now s; the others are as they were.
Stores(r, s) ==
  /\ keyring' \in [Registries -> Logins \cup {None}]
  /\ keyring'[r] = s
  /\ \A x \in Registries \ {r} : keyring'[x] = keyring[x]

\* From now on, s is held by a process.
Holding(s) ==
  /\ safe' \in [Processes -> SUBSET Logins]
  /\ \A q \in Processes : safe'[q] = safe[q] \ {s}

\* p learns its registry r, and which of its sessions only the keyring holds.
Learns(p, r) ==
  /\ r \in Registries /\ using'[p] = r
  /\ safe' \in [Processes -> SUBSET Logins]
  /\ safe'[p] = Unheld(r)
  /\ \A q \in Processes \ {p} : safe'[q] = safe[q]

\* The parts of TypeOK that are no more than the range of a variable.
RangesOK ==
  /\ config \in Stored /\ scratch \in Stored
  /\ handle \in [Processes -> {"none", "scratch", "config", "lost"}]
  /\ keyring \in [Registries -> Logins \cup {None}]
  /\ pc \in [Processes -> Stages \cup {"idle", "ok", "failed"}]
  /\ using \in [Processes -> Registries \cup {None}]
  /\ cached \in [Processes -> Logins \cup {None}]
  /\ answered \in SUBSET Logins /\ ended \in SUBSET Logins /\ alone \in SUBSET Logins
  /\ safe \in [Processes -> SUBSET Logins] /\ overlapped \in BOOLEAN

LEMMA Sorts ==
  /\ Logins \subseteq Processes /\ Logouts \subseteq Processes /\ Commands \subseteq Processes
  /\ \A p \in Processes : p \in Logins \cup Logouts \cup Commands
  /\ Registries \subseteq Stored /\ None \in Stored /\ Torn \in Stored
  BY DEF Processes, Stored

\* What is stripped is a registry of its own, of the same sort, that stays as it is.
LEMMA StrippedIs ==
  \A r \in Registries : /\ Stripped[r] \in Registries /\ Stripped[Stripped[r]] = Stripped[r]
                        /\ Stripped[r] \in Development <=> r \in Development
  BY StrippedAssumption

LEMMA Ranges == TypeInv => RangesOK
  BY DEF TypeInv, TypeOK, RangesOK

\* Where a process can go.
LEMMA GotoEffect ==
  ASSUME RangesOK, NEW p \in Processes, NEW label \in Stages \cup {"idle", "ok", "failed"},
         Goto(p, label)
  PROVE  /\ pc'[p] = label /\ \A q \in Processes \ {p} : pc'[q] = pc[q]
         /\ pc' \in [Processes -> Stages \cup {"idle", "ok", "failed"}]
  BY DEF RangesOK, Goto

LEMMA HeldEffect ==
  ASSUME RangesOK, NEW s, Held(s)
  PROVE  Holding(s)
  BY DEF RangesOK, Held, Holding

LEMMA BeginEffect ==
  ASSUME RangesOK, NEW p \in Processes, Begin(p)
  PROVE  /\ alone' \in SUBSET Logins
         /\ (\E q \in Processes : Running(q)) /\ p \in Commands =>
              \A q \in alone' : q \in alone /\ ~ Running(q)
         /\ (\E q \in Processes : Running(q)) /\ p \notin Commands => alone' = {}
         /\ (\A q \in Processes : ~ Running(q)) =>
              alone' = IF p \in Commands THEN alone ELSE {p} \cap Logins
<1>1. alone \subseteq Processes
  BY Sorts DEF RangesOK
<1> QED
  BY <1>1 DEF RangesOK, Begin

LEMMA FinishEffect ==
  ASSUME RangesOK, NEW p \in Processes, Finish(p)
  PROVE  /\ pc'[p] \in {"ok", "failed"} /\ \A q \in Processes \ {p} : pc'[q] = pc[q]
         /\ pc' \in [Processes -> Stages \cup {"idle", "ok", "failed"}]
         /\ ended' \in {ended, ended \cup safe[p]} /\ ended' \in SUBSET Logins
<1>1. CASE Goto(p, "ok") /\ ended' = ended \cup safe[p]
  BY <1>1, GotoEffect DEF RangesOK
<1>2. CASE Goto(p, "failed") /\ UNCHANGED ended
  BY <1>2, GotoEffect DEF RangesOK
<1> QED
  BY <1>1, <1>2 DEF Finish

LEMMA StartLoginEffect ==
  ASSUME TypeInv, NEW p \in Logins, StartLogin(p)
  PROVE  /\ pc[p] = "idle" /\ OthersKeep(p) /\ Begin(p)
         /\ \E r \in Registries :
              Learns(p, r) /\ pc'[p] = IF r \in Development THEN "headers" ELSE "flow"
         /\ RangesOK'
         /\ UNCHANGED <<config, scratch, handle, keyring, cached, answered, ended, overlapped>>
<1>1. RangesOK /\ p \in Processes
  BY Ranges, Sorts
<1>2. PICK r \in Registries :
        /\ using' = [using EXCEPT ![p] = r]
        /\ safe' = [safe EXCEPT ![p] = Unheld(r)]
        /\ Goto(p, IF r \in Development THEN "headers" ELSE "flow")
  BY DEF StartLogin
<1>3. /\ pc' \in [Processes -> Stages \cup {"idle", "ok", "failed"}]
      /\ pc'[p] = IF r \in Development THEN "headers" ELSE "flow"
      /\ \A q \in Processes \ {p} : pc'[q] = pc[q]
  BY <1>1, <1>2, GotoEffect DEF Stages
<1>4. Unheld(r) \in SUBSET Logins
  BY DEF Unheld
<1>5. /\ using' \in [Processes -> Registries \cup {None}] /\ using'[p] = r
      /\ safe' \in [Processes -> SUBSET Logins] /\ safe'[p] = Unheld(r)
      /\ \A q \in Processes \ {p} : using'[q] = using[q] /\ safe'[q] = safe[q]
  BY <1>1, <1>2, <1>4 DEF RangesOK
<1>6. /\ pc[p] = "idle" /\ Begin(p)
      /\ UNCHANGED <<config, scratch, handle, keyring, cached, answered, ended, overlapped>>
  BY DEF StartLogin, files
<1>7. RangesOK' /\ OthersKeep(p)
  BY <1>1, <1>3, <1>5, <1>6, BeginEffect DEF RangesOK, OthersKeep
<1> QED
  BY <1>3, <1>5, <1>6, <1>7 DEF Learns

LEMMA DeviceFlowEffect ==
  ASSUME TypeInv, NEW p \in Logins, DeviceFlow(p)
  PROVE  /\ pc[p] = "flow" /\ pc'[p] = "persist" /\ OthersKeep(p) /\ RangesOK'
         /\ UNCHANGED <<config, scratch, handle, keyring, using, cached, ghosts>>
<1>1. RangesOK /\ p \in Processes
  BY Ranges, Sorts
<1>2. /\ pc[p] = "flow" /\ Goto(p, "persist")
      /\ UNCHANGED <<config, scratch, handle, keyring, using, cached, ghosts>>
  BY DEF DeviceFlow, files
<1>3. /\ pc' \in [Processes -> Stages \cup {"idle", "ok", "failed"}]
      /\ pc'[p] = "persist" /\ \A q \in Processes \ {p} : pc'[q] = pc[q]
  BY <1>1, <1>2, GotoEffect DEF Stages
<1> QED
  BY <1>1, <1>2, <1>3 DEF RangesOK, OthersKeep, ghosts

LEMMA PersistEffect ==
  ASSUME TypeInv, NEW p \in Logins, Persist(p)
  PROVE  /\ pc[p] = "persist" /\ pc'[p] = "headers" /\ OthersKeep(p) /\ RangesOK'
         /\ using[p] \in Registries \ Development /\ cached'[p] = p
         /\ Stores(using[p], p) /\ Holding(p)
         /\ UNCHANGED <<config, scratch, handle, using, answered, ended, alone, overlapped>>
<1>1. RangesOK /\ p \in Processes
  BY Ranges, Sorts
<1>2. /\ pc[p] = "persist" /\ Goto(p, "headers") /\ Held(p)
      /\ keyring' = [keyring EXCEPT ![using[p]] = p]
      /\ cached' = [cached EXCEPT ![p] = p]
      /\ UNCHANGED <<config, scratch, handle, using, answered, ended, alone, overlapped>>
  BY DEF Persist, files
<1>3. /\ pc' \in [Processes -> Stages \cup {"idle", "ok", "failed"}]
      /\ pc'[p] = "headers" /\ \A q \in Processes \ {p} : pc'[q] = pc[q]
  BY <1>1, <1>2, GotoEffect DEF Stages
<1>4. using[p] \in Registries \ Development
  BY <1>1, <1>2 DEF TypeInv, Place, Stages
<1>5. /\ cached' \in [Processes -> Logins \cup {None}] /\ cached'[p] = p
      /\ \A q \in Processes \ {p} : cached'[q] = cached[q]
      /\ Stores(using[p], p)
  BY <1>1, <1>2, <1>4 DEF RangesOK, Stores
<1>6. Holding(p)
  BY <1>1, <1>2, HeldEffect
<1>7. RangesOK' /\ OthersKeep(p)
  BY <1>1, <1>2, <1>3, <1>5, <1>6 DEF RangesOK, OthersKeep, Stores, Holding
<1> QED
  BY <1>2, <1>3, <1>4, <1>5, <1>6, <1>7

LEMMA OpenEffect ==
  ASSUME TypeInv, NEW p \in Logins, Open(p)
  PROVE  /\ pc[p] = "open" /\ pc'[p] = "write" /\ OthersKeep(p) /\ RangesOK'
         /\ scratch' = Torn /\ handle'[p] = "scratch"
         /\ \A q \in Processes \ {p} : handle'[q] = handle[q]
         /\ overlapped' = (overlapped \/ \E q \in Logins \ {p} : pc[q] \in {"write", "replace"})
         /\ UNCHANGED <<config, keyring, using, cached, answered, safe, ended, alone>>
<1>1. RangesOK /\ p \in Processes
  BY Ranges, Sorts
<1>2. /\ pc[p] = "open" /\ Goto(p, "write")
      /\ scratch' = Torn /\ handle' = [handle EXCEPT ![p] = "scratch"]
      /\ overlapped' = (overlapped \/ \E q \in Logins \ {p} : pc[q] \in {"write", "replace"})
      /\ UNCHANGED <<config, keyring, using, cached, answered, safe, ended, alone>>
  BY DEF Open
<1>3. /\ pc' \in [Processes -> Stages \cup {"idle", "ok", "failed"}]
      /\ pc'[p] = "write" /\ \A q \in Processes \ {p} : pc'[q] = pc[q]
  BY <1>1, <1>2, GotoEffect DEF Stages
<1>4. /\ handle' \in [Processes -> {"none", "scratch", "config", "lost"}]
      /\ handle'[p] = "scratch" /\ \A q \in Processes \ {p} : handle'[q] = handle[q]
  BY <1>1, <1>2 DEF RangesOK
<1>5. overlapped' \in BOOLEAN
  BY <1>2
<1>6. RangesOK' /\ OthersKeep(p)
  BY <1>1, <1>2, <1>3, <1>4, <1>5, Sorts DEF RangesOK, OthersKeep
<1> QED
  BY <1>2, <1>3, <1>4, <1>6

LEMMA WriteEffect ==
  ASSUME TypeInv, NEW p \in Logins, Write(p)
  PROVE  /\ pc[p] = "write" /\ pc'[p] = "replace" /\ OthersKeep(p) /\ RangesOK'
         /\ using[p] \in Registries /\ p \in answered
         /\ Stripped[using[p]] \in Registries
         /\ scratch' \in {scratch, Stripped[using[p]], Torn}
         /\ config' \in {config, Stripped[using[p]], Torn}
         /\ handle[p] = "scratch" =>
              config' = config /\ (scratch = Torn => scratch' = Stripped[using[p]])
         /\ handle'[p] = "none" /\ \A q \in Processes \ {p} : handle'[q] = handle[q]
         /\ UNCHANGED <<keyring, using, cached, ghosts>>
<1>1. RangesOK /\ p \in Processes
  BY Ranges, Sorts
<1>2. /\ pc[p] = "write" /\ Goto(p, "replace")
      /\ IF handle[p] = "scratch" THEN scratch' \in Overwritten(scratch, using[p])
                                  ELSE UNCHANGED scratch
      /\ IF handle[p] = "config" THEN config' \in Overwritten(config, using[p])
                                 ELSE UNCHANGED config
      /\ handle' = [handle EXCEPT ![p] = "none"]
      /\ UNCHANGED <<keyring, using, cached, ghosts>>
  BY DEF Write
<1>3. /\ pc' \in [Processes -> Stages \cup {"idle", "ok", "failed"}]
      /\ pc'[p] = "replace" /\ \A q \in Processes \ {p} : pc'[q] = pc[q]
  BY <1>1, <1>2, GotoEffect DEF Stages
<1>4. using[p] \in Registries /\ p \in answered /\ Stripped[using[p]] \in Registries
  BY <1>1, <1>2, StrippedIs DEF TypeInv, Place, Stages
<1>5. /\ handle' \in [Processes -> {"none", "scratch", "config", "lost"}]
      /\ handle'[p] = "none" /\ \A q \in Processes \ {p} : handle'[q] = handle[q]
  BY <1>1, <1>2 DEF RangesOK
<1>6. /\ scratch' \in {scratch, Stripped[using[p]], Torn}
      /\ config' \in {config, Stripped[using[p]], Torn}
      /\ handle[p] = "scratch" =>
           config' = config /\ (scratch = Torn => scratch' = Stripped[using[p]])
  BY <1>2 DEF Overwritten
<1>7. config' \in Stored /\ scratch' \in Stored
  BY <1>1, <1>4, <1>6, Sorts DEF RangesOK
<1>8. RangesOK' /\ OthersKeep(p)
  BY <1>1, <1>2, <1>3, <1>5, <1>7 DEF RangesOK, OthersKeep, ghosts
<1> QED
  BY <1>2, <1>3, <1>4, <1>5, <1>6, <1>8

LEMMA ReplaceEffect ==
  ASSUME TypeInv, NEW p \in Logins, Replace(p)
  PROVE  /\ pc[p] = "replace" /\ pc'[p] \in {"ok", "failed"} /\ OthersKeep(p) /\ RangesOK'
         /\ cached'[p] = None /\ ended' \in {ended, ended \cup safe[p]}
         /\ scratch # None /\ config' = scratch /\ scratch' = None
         /\ \A q \in Processes : handle'[q] # "none" => handle[q] # "none"
         /\ UNCHANGED <<keyring, using, answered, safe, alone, overlapped>>
<1>1. RangesOK /\ p \in Processes
  BY Ranges, Sorts
<1>2. /\ pc[p] = "replace" /\ Finish(p)
      /\ scratch # None /\ config' = scratch /\ scratch' = None
      /\ handle' = [q \in Processes |->
           CASE handle[q] = "scratch" -> "config" [] handle[q] = "config" -> "lost"
             [] OTHER -> handle[q]]
      /\ cached' = [cached EXCEPT ![p] = None]
      /\ UNCHANGED <<keyring, using, answered, safe, alone, overlapped>>
  BY DEF Replace
<1>3. /\ handle' \in [Processes -> {"none", "scratch", "config", "lost"}]
      /\ \A q \in Processes : handle'[q] # "none" => handle[q] # "none"
  BY <1>1, <1>2 DEF RangesOK
<1>4. /\ cached' \in [Processes -> Logins \cup {None}] /\ cached'[p] = None
      /\ \A q \in Processes \ {p} : cached'[q] = cached[q]
  BY <1>1, <1>2 DEF RangesOK
<1>5. /\ pc'[p] \in {"ok", "failed"} /\ \A q \in Processes \ {p} : pc'[q] = pc[q]
      /\ pc' \in [Processes -> Stages \cup {"idle", "ok", "failed"}]
      /\ ended' \in {ended, ended \cup safe[p]} /\ ended' \in SUBSET Logins
  BY <1>1, <1>2, FinishEffect
<1>6. RangesOK' /\ OthersKeep(p)
  BY <1>1, <1>2, <1>3, <1>4, <1>5, Sorts DEF RangesOK, OthersKeep
<1> QED
  BY <1>2, <1>3, <1>4, <1>5, <1>6

LEMMA StartEffect ==
  ASSUME TypeInv, NEW p \in Logouts \cup Commands, Start(p)
  PROVE  /\ pc[p] = "idle" /\ pc'[p] = "load" /\ OthersKeep(p) /\ RangesOK' /\ Begin(p)
         /\ UNCHANGED <<config, scratch, handle, keyring, using, cached, answered, safe, ended,
                        overlapped>>
<1>1. RangesOK /\ p \in Processes
  BY Ranges, Sorts
<1>2. /\ pc[p] = "idle" /\ Goto(p, "load") /\ Begin(p)
      /\ UNCHANGED <<config, scratch, handle, keyring, using, cached, answered, safe, ended,
                     overlapped>>
  BY DEF Start, files
<1>3. /\ pc' \in [Processes -> Stages \cup {"idle", "ok", "failed"}]
      /\ pc'[p] = "load" /\ \A q \in Processes \ {p} : pc'[q] = pc[q]
  BY <1>1, <1>2, GotoEffect DEF Stages
<1> QED
  BY <1>1, <1>2, <1>3, BeginEffect DEF RangesOK, OthersKeep

LEMMA LoadConfigEffect ==
  ASSUME TypeInv, NEW p \in Logouts \cup Commands, LoadConfig(p)
  PROVE  /\ pc[p] = "load" /\ OthersKeep(p) /\ RangesOK'
         /\ config \in Registries /\ Learns(p, Stripped[config])
         /\ p \in Logouts => pc'[p] = "look"
         /\ p \in Commands => pc'[p] = IF config \in Development THEN "headers" ELSE "read"
         /\ UNCHANGED <<config, scratch, handle, keyring, cached, answered, ended, alone,
                        overlapped>>
<1>1. RangesOK /\ p \in Processes
  BY Ranges, Sorts
<1> DEFINE label == IF p \in Logouts THEN "look"
                    ELSE IF config \in Development THEN "headers" ELSE "read"
<1>2. /\ pc[p] = "load" /\ config \in Registries
      /\ using' = [using EXCEPT ![p] = Stripped[config]]
      /\ safe' = [safe EXCEPT ![p] = Unheld(Stripped[config])]
      /\ UNCHANGED <<config, scratch, handle, keyring, cached, answered, ended, alone,
                     overlapped>>
  BY DEF LoadConfig, files
<1>3. Goto(p, label)
  BY DEF LoadConfig
<1>4. /\ pc' \in [Processes -> Stages \cup {"idle", "ok", "failed"}]
      /\ pc'[p] = label /\ \A q \in Processes \ {p} : pc'[q] = pc[q]
  BY <1>1, <1>3, GotoEffect DEF Stages
<1>5. Unheld(Stripped[config]) \in SUBSET Logins
  BY DEF Unheld
<1>6. /\ Stripped[config] \in Registries
      /\ using' \in [Processes -> Registries \cup {None}] /\ using'[p] = Stripped[config]
      /\ safe' \in [Processes -> SUBSET Logins] /\ safe'[p] = Unheld(Stripped[config])
      /\ \A q \in Processes \ {p} : using'[q] = using[q] /\ safe'[q] = safe[q]
  BY <1>1, <1>2, <1>5, StrippedIs DEF RangesOK
<1>7. RangesOK' /\ OthersKeep(p)
  BY <1>1, <1>2, <1>4, <1>6 DEF RangesOK, OthersKeep
<1> QED
  BY <1>2, <1>4, <1>6, <1>7 DEF Learns

LEMMA ReadSessionEffect ==
  ASSUME TypeInv, NEW p \in Commands, ReadSession(p)
  PROVE  /\ pc[p] = "read" /\ pc'[p] = "headers" /\ OthersKeep(p) /\ RangesOK'
         /\ using[p] \in Registries \ Development
         /\ cached'[p] = keyring[using[p]] /\ Holding(keyring[using[p]])
         /\ UNCHANGED <<config, scratch, handle, keyring, using, answered, ended, alone,
                        overlapped>>
<1>1. RangesOK /\ p \in Processes
  BY Ranges, Sorts
<1>2. /\ pc[p] = "read" /\ Goto(p, "headers") /\ Held(keyring[using[p]])
      /\ cached' = [cached EXCEPT ![p] = keyring[using[p]]]
      /\ UNCHANGED <<config, scratch, handle, keyring, using, answered, ended, alone, overlapped>>
  BY DEF ReadSession, files
<1>3. /\ pc' \in [Processes -> Stages \cup {"idle", "ok", "failed"}]
      /\ pc'[p] = "headers" /\ \A q \in Processes \ {p} : pc'[q] = pc[q]
  BY <1>1, <1>2, GotoEffect DEF Stages
<1>4. using[p] \in Registries \ Development
  BY <1>1, <1>2 DEF TypeInv, Place, Stages
<1>5. /\ cached' \in [Processes -> Logins \cup {None}] /\ cached'[p] = keyring[using[p]]
      /\ \A q \in Processes \ {p} : cached'[q] = cached[q]
  BY <1>1, <1>2, <1>4 DEF RangesOK
<1>6. Holding(keyring[using[p]])
  BY <1>1, <1>2, HeldEffect
<1>7. RangesOK' /\ OthersKeep(p)
  BY <1>1, <1>2, <1>3, <1>5, <1>6 DEF RangesOK, OthersKeep, Holding
<1> QED
  BY <1>2, <1>3, <1>4, <1>5, <1>6, <1>7

LEMMA HeadersEffect ==
  ASSUME TypeInv, NEW p \in Logins \cup Commands, Headers(p)
  PROVE  /\ pc[p] = "headers" /\ pc'[p] = "request" /\ OthersKeep(p) /\ RangesOK'
         /\ using[p] \in Registries /\ (using[p] \notin Development => cached[p] # None)
         /\ UNCHANGED keyring \/ (using[p] \notin Development /\ Stores(using[p], cached[p]))
         /\ UNCHANGED <<config, scratch, handle, using, cached, ghosts>>
<1>1. RangesOK /\ p \in Processes
  BY Ranges, Sorts
<1>2. /\ pc[p] = "headers" /\ Goto(p, "request")
      /\ using[p] \notin Development => cached[p] # None
      /\ \/ UNCHANGED keyring
         \/ using[p] \notin Development /\ keyring' = [keyring EXCEPT ![using[p]] = cached[p]]
      /\ UNCHANGED <<config, scratch, handle, using, cached, ghosts>>
  BY DEF Headers, files
<1>3. /\ pc' \in [Processes -> Stages \cup {"idle", "ok", "failed"}]
      /\ pc'[p] = "request" /\ \A q \in Processes \ {p} : pc'[q] = pc[q]
  BY <1>1, <1>2, GotoEffect DEF Stages
<1>4. using[p] \in Registries
  BY <1>1, <1>2 DEF TypeInv, Place, Stages
<1>5. /\ keyring' \in [Registries -> Logins \cup {None}]
      /\ UNCHANGED keyring \/ (using[p] \notin Development /\ Stores(using[p], cached[p]))
  <2>1. CASE UNCHANGED keyring
    BY <1>1, <2>1 DEF RangesOK
  <2>2. CASE using[p] \notin Development /\ keyring' = [keyring EXCEPT ![using[p]] = cached[p]]
    <3>1. cached[p] \in Logins \cup {None} /\ keyring \in [Registries -> Logins \cup {None}]
      BY <1>1 DEF RangesOK
    <3>2. Stores(using[p], cached[p])
      BY <1>4, <2>2, <3>1 DEF Stores
    <3> QED
      BY <2>2, <3>2 DEF Stores
  <2> QED
    BY <1>2, <2>1, <2>2
<1>6. RangesOK' /\ OthersKeep(p)
  BY <1>1, <1>2, <1>3, <1>5 DEF RangesOK, OthersKeep, ghosts
<1> QED
  BY <1>2, <1>3, <1>4, <1>5, <1>6

LEMMA RespondEffect ==
  ASSUME TypeInv, NEW p \in Logins \cup Commands, Respond(p)
  PROVE  /\ pc[p] = "request" /\ OthersKeep(p) /\ RangesOK'
         /\ answered' = answered \cup ({p} \cap Logins)
         /\ p \in Logins => pc'[p] = "open" /\ cached'[p] = cached[p]
         /\ p \notin Logins => \/ pc'[p] = "headers" /\ cached'[p] = cached[p]
                               \/ pc'[p] = "ok" /\ cached'[p] = None
         /\ UNCHANGED <<config, scratch, handle, keyring, using, safe, ended, alone, overlapped>>
<1>1. RangesOK /\ p \in Processes
  BY Ranges, Sorts
<1>2. /\ pc[p] = "request" /\ answered' = answered \cup ({p} \cap Logins)
      /\ UNCHANGED <<config, scratch, handle, keyring, using, safe, ended, alone, overlapped>>
  BY DEF Respond, files
<1>3. ASSUME NEW label \in {"open", "headers"}, Goto(p, label), UNCHANGED cached,
             p \in Logins <=> label = "open"
      PROVE  /\ OthersKeep(p) /\ RangesOK' /\ cached'[p] = cached[p] /\ pc'[p] = label
  <2>1. /\ pc' \in [Processes -> Stages \cup {"idle", "ok", "failed"}]
        /\ pc'[p] = label /\ \A q \in Processes \ {p} : pc'[q] = pc[q]
    BY <1>1, <1>3, GotoEffect DEF Stages
  <2> QED
    BY <1>1, <1>2, <1>3, <2>1 DEF RangesOK, OthersKeep
<1>4. ASSUME Goto(p, "ok"), cached' = [cached EXCEPT ![p] = None]
      PROVE  /\ OthersKeep(p) /\ RangesOK' /\ cached'[p] = None /\ pc'[p] = "ok"
  <2>1. /\ pc' \in [Processes -> Stages \cup {"idle", "ok", "failed"}]
        /\ pc'[p] = "ok" /\ \A q \in Processes \ {p} : pc'[q] = pc[q]
    BY <1>1, <1>4, GotoEffect
  <2>2. /\ cached' \in [Processes -> Logins \cup {None}] /\ cached'[p] = None
        /\ \A q \in Processes \ {p} : cached'[q] = cached[q]
    BY <1>1, <1>4 DEF RangesOK
  <2> QED
    BY <1>1, <1>2, <2>1, <2>2 DEF RangesOK, OthersKeep
<1>5. CASE p \in Logins
  <2>1. Goto(p, "open") /\ UNCHANGED cached
    BY <1>5 DEF Respond
  <2> QED
    BY <1>2, <1>3, <1>5, <2>1
<1>6. CASE p \notin Logins
  <2>1. \/ Goto(p, "headers") /\ UNCHANGED cached
        \/ Goto(p, "ok") /\ cached' = [cached EXCEPT ![p] = None]
    BY <1>6 DEF Respond
  <2> QED
    BY <1>2, <1>3, <1>4, <1>6, <2>1
<1> QED
  BY <1>5, <1>6

LEMMA LookEffect ==
  ASSUME TypeInv, NEW p \in Logouts, Look(p)
  PROVE  /\ pc[p] = "look" /\ pc'[p] \in {"ok", "failed", "delete"} /\ OthersKeep(p) /\ RangesOK'
         /\ ended' \in {ended, ended \cup safe[p]}
         /\ ended' # ended => keyring[using[p]] = None
         /\ UNCHANGED <<config, scratch, handle, keyring, using, cached, answered, safe, alone,
                        overlapped>>
<1>1. RangesOK /\ p \in Processes
  BY Ranges, Sorts
<1>2. /\ pc[p] = "look"
      /\ UNCHANGED <<config, scratch, handle, keyring, using, cached, answered, safe, alone,
                     overlapped>>
      /\ IF keyring[using[p]] = None THEN Finish(p) ELSE Goto(p, "delete") /\ UNCHANGED ended
  BY DEF Look, files
<1>3. /\ pc'[p] \in {"ok", "failed", "delete"} /\ \A q \in Processes \ {p} : pc'[q] = pc[q]
      /\ pc' \in [Processes -> Stages \cup {"idle", "ok", "failed"}]
      /\ ended' \in {ended, ended \cup safe[p]} /\ ended' \in SUBSET Logins
      /\ ended' # ended => keyring[using[p]] = None
  <2>1. CASE keyring[using[p]] = None
    BY <1>1, <1>2, <2>1, FinishEffect
  <2>2. CASE keyring[using[p]] # None
    <3>1. Goto(p, "delete") /\ ended' = ended /\ "delete" \in Stages
      BY <1>2, <2>2 DEF Stages
    <3> QED
      BY <1>1, <3>1, GotoEffect DEF RangesOK
  <2> QED
    BY <2>1, <2>2
<1> QED
  BY <1>1, <1>2, <1>3 DEF RangesOK, OthersKeep

LEMMA DeleteEffect ==
  ASSUME TypeInv, NEW p \in Logouts, Delete(p)
  PROVE  /\ pc[p] = "delete" /\ pc'[p] \in {"ok", "failed"} /\ OthersKeep(p) /\ RangesOK'
         /\ ended' \in {ended, ended \cup safe[p]}
         /\ using[p] \in Registries /\ Stores(using[p], None)
         /\ UNCHANGED <<config, scratch, handle, using, cached, answered, safe, alone, overlapped>>
<1>1. RangesOK /\ p \in Processes
  BY Ranges, Sorts
<1>2. /\ pc[p] = "delete" /\ Finish(p)
      /\ keyring' = [keyring EXCEPT ![using[p]] = None]
      /\ UNCHANGED <<config, scratch, handle, using, cached, answered, safe, alone, overlapped>>
  BY DEF Delete, files
<1>3. /\ pc'[p] \in {"ok", "failed"} /\ \A q \in Processes \ {p} : pc'[q] = pc[q]
      /\ pc' \in [Processes -> Stages \cup {"idle", "ok", "failed"}]
      /\ ended' \in {ended, ended \cup safe[p]} /\ ended' \in SUBSET Logins
  BY <1>1, <1>2, FinishEffect
<1>4. using[p] \in Registries
  BY <1>1, <1>2 DEF TypeInv, Place, Stages
<1>5. Stores(using[p], None)
  BY <1>1, <1>2, <1>4 DEF RangesOK, Stores
<1> QED
  BY <1>1, <1>2, <1>3, <1>4, <1>5 DEF RangesOK, OthersKeep, Stores

LEMMA FailEffect ==
  ASSUME TypeInv, NEW p \in Processes, Fail(p)
  PROVE  /\ Running(p) /\ pc'[p] = "failed" /\ OthersKeep(p) /\ RangesOK'
         /\ cached'[p] = None
         /\ handle'[p] = "none" /\ \A q \in Processes \ {p} : handle'[q] = handle[q]
         /\ UNCHANGED <<config, scratch, keyring, using, ghosts>>
<1>1. RangesOK
  BY Ranges
<1>2. /\ Running(p) /\ Goto(p, "failed")
      /\ handle' = [handle EXCEPT ![p] = "none"] /\ cached' = [cached EXCEPT ![p] = None]
      /\ UNCHANGED <<config, scratch, keyring, using, ghosts>>
  BY DEF Fail
<1>3. /\ pc' \in [Processes -> Stages \cup {"idle", "ok", "failed"}]
      /\ pc'[p] = "failed" /\ \A q \in Processes \ {p} : pc'[q] = pc[q]
  BY <1>1, <1>2, GotoEffect
<1>4. /\ handle' \in [Processes -> {"none", "scratch", "config", "lost"}]
      /\ handle'[p] = "none" /\ \A q \in Processes \ {p} : handle'[q] = handle[q]
      /\ cached' \in [Processes -> Logins \cup {None}] /\ cached'[p] = None
      /\ \A q \in Processes \ {p} : cached'[q] = cached[q]
  BY <1>1, <1>2 DEF RangesOK
<1> QED
  BY <1>1, <1>2, <1>3, <1>4 DEF RangesOK, OthersKeep, ghosts

-----------------------------------------------------------------------------
(* Types *)

\* The registry of a process that has chosen one is kept.
KeepsUsing(p) == pc[p] \notin {"idle", "load"} => using'[p] = using[p]

\* TypeInv is kept by a step of p that leaves p at one of its places, with a session of its
\* registry, and the keyring with sessions of theirs.
LEMMA MoveType ==
  ASSUME TypeInv, RangesOK', NEW p \in Processes, OthersKeep(p), KeepsUsing(p), Place(p)',
         answered' \subseteq answered \cup {p}, answered \subseteq answered',
         \A q \in Processes : handle'[q] # "none" => handle[q] # "none" \/ q = p,
         handle'[p] # "none" => pc'[p] = "write",
         cached'[p] # None =>
           p \notin Logouts /\ (cached'[p] = p \/ using[cached'[p]] = using'[p]),
         \A r \in Registries :
           \/ keyring'[r] \in {keyring[r], None}
           \/ r \notin Development /\ using[keyring'[r]] = r
  PROVE  TypeInv'
<1>1. TypeOK /\ RangesOK /\ \A q \in Processes : Place(q)
  BY Ranges DEF TypeInv
<1>2. \A q \in Processes : using[q] # None => using'[q] = using[q]
  BY <1>1 DEF OthersKeep, KeepsUsing, Place
<1>3. ASSUME NEW q \in Processes PROVE Place(q)'
  <2>1. CASE q # p
    <3>1. Place(q) /\ pc'[q] = pc[q] /\ using'[q] = using[q] /\ cached'[q] = cached[q]
      BY <1>1, <2>1 DEF OthersKeep
    <3>2. q \in answered' <=> q \in answered
      BY <2>1
    <3> QED
      BY <3>1, <3>2 DEF Place
  <2> QED
    BY <2>1
<1>4. ASSUME NEW r \in Registries, keyring'[r] # None
      PROVE  r \notin Development /\ using'[keyring'[r]] = r
  <2>1. r \notin Development /\ using[keyring'[r]] = r /\ keyring'[r] \in Processes
    BY <1>1, <1>4, Sorts DEF TypeOK, RangesOK
  <2> QED
    BY <1>2, <2>1
<1>5. ASSUME NEW q \in Processes, cached'[q] # None PROVE using'[cached'[q]] = using'[q]
  <2>1. CASE q # p
    <3>1. /\ cached'[q] = cached[q] /\ using'[q] = using[q] /\ using[cached[q]] = using[q]
          /\ cached[q] \in Processes
      BY <1>1, <1>5, <2>1, Sorts DEF OthersKeep, TypeOK
    <3>2. using[q] \in Registries
      BY <1>1, <1>5, <3>1 DEF Place
    <3> QED
      BY <1>2, <3>1, <3>2
  <2>2. CASE q = p /\ cached'[p] # p
    <3>1. cached'[p] \in Processes \ {p} /\ using[cached'[p]] = using'[p]
      BY <1>5, <2>2, Sorts DEF RangesOK
    <3> QED
      BY <2>2, <3>1 DEF OthersKeep
  <2> QED
    BY <2>1, <2>2
<1>6. ASSUME NEW q \in Processes
      PROVE  /\ pc'[q] \in Stages \ {"load", "flow", "persist", "open", "write", "replace"} =>
                  using'[q] # None
             /\ handle'[q] # "none" => pc'[q] = "write"
             /\ q \in Logouts => cached'[q] = None
  <2>1. pc'[q] \in Stages \ {"load"} => using'[q] # None
    BY <1>3 DEF Place
  <2>2. CASE q # p
    BY <1>1, <2>1, <2>2 DEF OthersKeep, TypeOK
  <2> QED
    BY <2>1, <2>2
<1>7. TypeOK'
  BY <1>4, <1>5, <1>6 DEF TypeOK, RangesOK
<1> QED
  BY <1>3, <1>7 DEF TypeInv

LEMMA StepType ==
  ASSUME TypeInv, [Next]_vars
  PROVE  TypeInv'
<1>1. TypeOK /\ RangesOK /\ \A q \in Processes : Place(q)
  BY Ranges DEF TypeInv
<1>2. ASSUME NEW p \in Logins, StartLogin(p) PROVE TypeInv'
  <2>1. /\ pc[p] = "idle" /\ OthersKeep(p) /\ RangesOK' /\ p \in Processes
        /\ UNCHANGED <<handle, keyring, cached, answered>>
    BY <1>2, StartLoginEffect, Sorts
  <2>2. PICK r \in Registries :
          using'[p] = r /\ pc'[p] = IF r \in Development THEN "headers" ELSE "flow"
    BY <1>2, StartLoginEffect DEF Learns
  <2>3. cached[p] = None /\ handle[p] = "none" /\ p \notin answered
    BY <1>1, <2>1 DEF Place, TypeOK, Stages
  <2>4. Place(p)' /\ KeepsUsing(p)
    BY <2>1, <2>2, <2>3 DEF Place, KeepsUsing
  <2> QED
    BY <2>1, <2>3, <2>4, MoveType
<1>3. ASSUME NEW p \in Logins, DeviceFlow(p) PROVE TypeInv'
  <2>1. /\ pc[p] = "flow" /\ pc'[p] = "persist" /\ OthersKeep(p) /\ RangesOK' /\ p \in Processes
        /\ UNCHANGED <<handle, keyring, using, cached, answered>>
    BY <1>3, DeviceFlowEffect, Sorts DEF ghosts
  <2>2. /\ handle[p] = "none" /\ Place(p)
        /\ cached[p] # None => using[cached[p]] = using[p] /\ p \notin Logouts
    BY <1>1, <2>1 DEF TypeOK
  <2>3. Place(p)' /\ KeepsUsing(p)
    BY <2>1, <2>2 DEF Place, KeepsUsing, Stages
  <2> QED
    BY <2>1, <2>2, <2>3, MoveType
<1>4. ASSUME NEW p \in Logins, Persist(p) PROVE TypeInv'
  <2>1. /\ pc[p] = "persist" /\ pc'[p] = "headers" /\ OthersKeep(p) /\ RangesOK' /\ p \in Processes
        /\ using[p] \in Registries \ Development /\ cached'[p] = p /\ Stores(using[p], p)
        /\ UNCHANGED <<handle, using, answered>>
    BY <1>4, PersistEffect, Sorts
  <2>2. handle[p] = "none" /\ Place(p) /\ p \notin Logouts
    BY <1>1, <2>1 DEF TypeOK
  <2>3. Place(p)' /\ KeepsUsing(p)
    BY <2>1, <2>2 DEF Place, KeepsUsing, Stages
  <2>4. \A r \in Registries :
          keyring'[r] \in {keyring[r], None} \/ (r \notin Development /\ using[keyring'[r]] = r)
    BY <2>1 DEF Stores
  <2> QED
    BY <2>1, <2>2, <2>3, <2>4, MoveType
<1>5. ASSUME NEW p \in Logins, Open(p) PROVE TypeInv'
  <2>1. /\ pc[p] = "open" /\ pc'[p] = "write" /\ OthersKeep(p) /\ RangesOK' /\ p \in Processes
        /\ \A q \in Processes \ {p} : handle'[q] = handle[q]
        /\ UNCHANGED <<keyring, using, cached, answered>>
    BY <1>5, OpenEffect, Sorts
  <2>2. /\ Place(p) /\ p \notin Logouts
        /\ cached[p] # None => using[cached[p]] = using[p]
    BY <1>1, <2>1 DEF TypeOK
  <2>3. Place(p)' /\ KeepsUsing(p)
    BY <2>1, <2>2 DEF Place, KeepsUsing, Stages
  <2> QED
    BY <2>1, <2>2, <2>3, MoveType
<1>6. ASSUME NEW p \in Logins, Write(p) PROVE TypeInv'
  <2>1. /\ pc[p] = "write" /\ pc'[p] = "replace" /\ OthersKeep(p) /\ RangesOK' /\ p \in Processes
        /\ handle'[p] = "none" /\ \A q \in Processes \ {p} : handle'[q] = handle[q]
        /\ UNCHANGED <<keyring, using, cached, answered>>
    BY <1>6, WriteEffect, Sorts DEF ghosts
  <2>2. /\ Place(p) /\ p \notin Logouts
        /\ cached[p] # None => using[cached[p]] = using[p]
    BY <1>1, <2>1 DEF TypeOK
  <2>3. Place(p)' /\ KeepsUsing(p)
    BY <2>1, <2>2 DEF Place, KeepsUsing, Stages
  <2> QED
    BY <2>1, <2>2, <2>3, MoveType
<1>7. ASSUME NEW p \in Logins, Replace(p) PROVE TypeInv'
  <2>1. /\ pc[p] = "replace" /\ pc'[p] \in {"ok", "failed"} /\ OthersKeep(p) /\ RangesOK'
        /\ p \in Processes /\ cached'[p] = None
        /\ \A q \in Processes : handle'[q] # "none" => handle[q] # "none"
        /\ UNCHANGED <<keyring, using, answered>>
    BY <1>7, ReplaceEffect, Sorts
  <2>2. Place(p) /\ handle'[p] = "none"
    BY <1>1, <2>1 DEF TypeOK
  <2>3. Place(p)' /\ KeepsUsing(p)
    BY <2>1, <2>2 DEF Place, KeepsUsing, Stages
  <2> QED
    BY <2>1, <2>2, <2>3, MoveType
<1>8. ASSUME NEW p \in Logouts \cup Commands, Start(p) PROVE TypeInv'
  <2>1. /\ pc[p] = "idle" /\ pc'[p] = "load" /\ OthersKeep(p) /\ RangesOK' /\ p \in Processes
        /\ UNCHANGED <<handle, keyring, using, cached, answered>>
    BY <1>8, StartEffect, Sorts
  <2>2. Place(p) /\ handle[p] = "none" /\ p \notin Logins /\ cached[p] = None /\ using[p] = None
    BY <1>1, <1>8, <2>1 DEF TypeOK, Place, Stages
  <2>3. Place(p)' /\ KeepsUsing(p)
    BY <2>1, <2>2 DEF Place, KeepsUsing
  <2> QED
    BY <2>1, <2>2, <2>3, MoveType
<1>9. ASSUME NEW p \in Logouts \cup Commands, LoadConfig(p) PROVE TypeInv'
  <2>1. /\ pc[p] = "load" /\ OthersKeep(p) /\ RangesOK' /\ p \in Processes
        /\ using'[p] \in Registries
        /\ p \in Logouts => pc'[p] = "look"
        /\ p \in Commands =>
             pc'[p] = IF using'[p] \in Development THEN "headers" ELSE "read"
        /\ UNCHANGED <<handle, keyring, cached, answered>>
    BY <1>9, LoadConfigEffect, Sorts, StrippedIs DEF Learns
  <2>2. handle[p] = "none" /\ p \notin Logins /\ cached[p] = None
    BY <1>1, <1>9, <2>1 DEF TypeOK, Place, Stages
  <2>3. Place(p)' /\ KeepsUsing(p)
    BY <1>9, <2>1, <2>2 DEF Place, KeepsUsing
  <2> QED
    BY <2>1, <2>2, <2>3, MoveType
<1>10. ASSUME NEW p \in Commands, ReadSession(p) PROVE TypeInv'
  <2>1. /\ pc[p] = "read" /\ pc'[p] = "headers" /\ OthersKeep(p) /\ RangesOK' /\ p \in Processes
        /\ using[p] \in Registries \ Development /\ cached'[p] = keyring[using[p]]
        /\ UNCHANGED <<handle, keyring, using, answered>>
    BY <1>10, ReadSessionEffect, Sorts
  <2>2. /\ handle[p] = "none" /\ Place(p) /\ p \notin Logouts
        /\ cached'[p] # None => using[cached'[p]] = using[p]
    BY <1>1, <2>1 DEF TypeOK
  <2>3. Place(p)' /\ KeepsUsing(p)
    BY <2>1, <2>2 DEF Place, KeepsUsing, Stages
  <2> QED
    BY <2>1, <2>2, <2>3, MoveType
<1>11. ASSUME NEW p \in Logins \cup Commands, Headers(p) PROVE TypeInv'
  <2>1. /\ pc[p] = "headers" /\ pc'[p] = "request" /\ OthersKeep(p) /\ RangesOK' /\ p \in Processes
        /\ UNCHANGED <<handle, using, cached, answered>>
        /\ using[p] \in Registries /\ (using[p] \notin Development => cached[p] # None)
        /\ UNCHANGED keyring \/ (using[p] \notin Development /\ Stores(using[p], cached[p]))
    BY <1>11, HeadersEffect, Sorts DEF ghosts
  <2>2. /\ handle[p] = "none" /\ Place(p) /\ p \notin Logouts
        /\ cached[p] # None => using[cached[p]] = using[p]
    BY <1>1, <1>11, <2>1 DEF TypeOK
  <2>3. Place(p)' /\ KeepsUsing(p)
    BY <2>1, <2>2 DEF Place, KeepsUsing, Stages
  <2>4. \A r \in Registries :
          keyring'[r] \in {keyring[r], None} \/ (r \notin Development /\ using[keyring'[r]] = r)
    BY <2>1, <2>2 DEF Stores
  <2> QED
    BY <2>1, <2>2, <2>3, <2>4, MoveType
<1>12. ASSUME NEW p \in Logins \cup Commands, Respond(p) PROVE TypeInv'
  <2>1. /\ pc[p] = "request" /\ OthersKeep(p) /\ RangesOK' /\ p \in Processes
        /\ answered' = answered \cup ({p} \cap Logins)
        /\ p \in Logins => pc'[p] = "open" /\ cached'[p] = cached[p]
        /\ p \notin Logins => \/ pc'[p] = "headers" /\ cached'[p] = cached[p]
                              \/ pc'[p] = "ok" /\ cached'[p] = None
        /\ UNCHANGED <<handle, keyring, using>>
    BY <1>12, RespondEffect, Sorts
  <2>2. /\ handle[p] = "none" /\ Place(p) /\ p \notin Logouts
        /\ cached[p] # None => using[cached[p]] = using[p]
    BY <1>1, <1>12, <2>1 DEF TypeOK
  <2>3. Place(p)' /\ KeepsUsing(p)
    BY <1>12, <2>1, <2>2 DEF Place, KeepsUsing, Stages
  <2> QED
    BY <2>1, <2>2, <2>3, MoveType
<1>13. ASSUME NEW p \in Logouts, Look(p) \/ Delete(p) PROVE TypeInv'
  <2>1. /\ pc[p] \in {"look", "delete"} /\ pc'[p] \in {"ok", "failed", "delete"} /\ OthersKeep(p)
        /\ RangesOK' /\ p \in Processes
        /\ \A r \in Registries : keyring'[r] \in {keyring[r], None}
        /\ UNCHANGED <<handle, using, cached, answered>>
    BY <1>13, LookEffect, DeleteEffect, Sorts DEF Stores
  <2>2. handle[p] = "none" /\ Place(p) /\ cached[p] = None
    BY <1>1, <2>1 DEF TypeOK
  <2>3. Place(p)' /\ KeepsUsing(p)
    BY <1>13, <2>1, <2>2 DEF Place, KeepsUsing, Stages
  <2> QED
    BY <2>1, <2>2, <2>3, MoveType
<1>14. ASSUME NEW p \in Processes, Fail(p) PROVE TypeInv'
  <2>1. /\ Running(p) /\ pc'[p] = "failed" /\ OthersKeep(p) /\ RangesOK'
        /\ cached'[p] = None
        /\ handle'[p] = "none" /\ \A q \in Processes \ {p} : handle'[q] = handle[q]
        /\ UNCHANGED <<keyring, using, answered>>
    BY <1>14, FailEffect DEF ghosts
  <2>2. Place(p)' /\ KeepsUsing(p)
    BY <1>1, <2>1 DEF Place, KeepsUsing, Stages
  <2> QED
    BY <2>1, <2>2, MoveType
<1>15. CASE UNCHANGED vars
  BY <1>15 DEF vars, files, ghosts, TypeInv, TypeOK, Place, Running
<1> QED
  BY <1>2, <1>3, <1>4, <1>5, <1>6, <1>7, <1>8, <1>9, <1>10, <1>11, <1>12, <1>13, <1>14, <1>15
  DEF Next

LEMMA InitType == Init => TypeInv
<1> SUFFICES ASSUME Init PROVE TypeInv
  OBVIOUS
<1>1. TypeOK
  BY Sorts DEF Init, TypeOK, Stages
<1>2. ASSUME NEW p \in Processes PROVE Place(p)
  BY DEF Init, Place, Stages
<1> QED
  BY <1>1, <1>2 DEF TypeInv

\* The state stays in its types, whichever commands overlap, fail or are killed.
THEOREM TypeCorrect == Spec => []TypeInv
  BY InitType, StepType, PTL DEF Spec

\* A session is stored and used for the registry it was made for, and no file is open but in
\* a login that writes it: the part of the types the runs check.
THEOREM TypeOKHolds == Spec => []TypeOK
<1>1. TypeInv => TypeOK
  BY DEF TypeInv
<1> QED
  BY <1>1, TypeCorrect, PTL

-----------------------------------------------------------------------------
(* The configuration *)

\* A login that was answered keeps its registry.
LEMMA AnsweredKeep ==
  ASSUME TypeInv, NEW p \in Processes, OthersKeep(p), KeepsUsing(p)
  PROVE  \A q \in answered : q \in Processes /\ using'[q] = using[q]
<1>1. \A q \in answered : q \in Processes /\ q \in Logins /\ Place(q)
  BY Ranges, Sorts DEF RangesOK, TypeInv
<1> QED
  BY <1>1 DEF OthersKeep, KeepsUsing, Place

\* FilesInv is kept by a step that writes no file and does not go to where files are written.
LEMMA FilesKept ==
  ASSUME TypeInv, FilesInv, NEW p \in Processes, OthersKeep(p), KeepsUsing(p),
         UNCHANGED <<config, scratch, overlapped>>, answered \subseteq answered',
         pc'[p] \notin {"write", "replace"},
         \A q \in Processes \ {p} : handle'[q] = handle[q]
  PROVE  FilesInv'
<1>1. \A r \in {config', scratch'} \cap Registries : \E q \in answered' : Stripped[using'[q]] = r
  BY AnsweredKeep DEF FilesInv
<1>2. \A q \in Processes : pc'[q] \in {"write", "replace"} =>
        q # p /\ pc'[q] = pc[q] /\ using'[q] = using[q] /\ handle'[q] = handle[q]
  BY DEF OthersKeep
<1> QED
  BY <1>1, <1>2 DEF FilesInv

LEMMA StepFiles ==
  ASSUME TypeInv, FilesInv, [Next]_vars
  PROVE  FilesInv'
<1>1. RangesOK /\ \A q \in Processes : Place(q)
  BY Ranges DEF TypeInv
<1>2. ASSUME NEW p \in Logins, StartLogin(p) PROVE FilesInv'
  <2>1. /\ pc[p] = "idle" /\ OthersKeep(p) /\ p \in Processes /\ pc'[p] \in {"flow", "headers"}
        /\ UNCHANGED <<config, scratch, handle, answered, overlapped>>
    BY <1>2, StartLoginEffect, Sorts
  <2> QED
    BY <2>1, FilesKept DEF KeepsUsing
<1>3. ASSUME NEW p \in Logins, DeviceFlow(p) \/ Persist(p) PROVE FilesInv'
  <2>1. /\ OthersKeep(p) /\ p \in Processes /\ pc'[p] \in {"persist", "headers"}
        /\ UNCHANGED <<config, scratch, handle, using, answered, overlapped>>
    BY <1>3, DeviceFlowEffect, PersistEffect, Sorts DEF ghosts
  <2> QED
    BY <2>1, FilesKept DEF KeepsUsing
<1>4. ASSUME NEW p \in Logins, Open(p) PROVE FilesInv'
  <2>1. /\ pc[p] = "open" /\ pc'[p] = "write" /\ OthersKeep(p) /\ p \in Processes
        /\ scratch' = Torn /\ handle'[p] = "scratch"
        /\ \A q \in Processes \ {p} : handle'[q] = handle[q]
        /\ overlapped' = (overlapped \/ \E q \in Logins \ {p} : pc[q] \in {"write", "replace"})
        /\ UNCHANGED <<config, using, answered>>
    BY <1>4, OpenEffect, Sorts
  <2>2. \A r \in {config', scratch'} \cap Registries : \E q \in answered' : Stripped[using'[q]] = r
    BY <2>1 DEF FilesInv
  <2>3. ASSUME ~ overlapped'
        PROVE  /\ config' # Torn
               /\ \A q \in Processes : pc'[q] \in {"write", "replace"} => q = p
    <3>1. ~ overlapped /\ \A q \in Logins \ {p} : pc[q] \notin {"write", "replace"}
      BY <2>1, <2>3
    <3>2. \A q \in Processes \ {p} : pc'[q] \notin {"write", "replace"}
      BY <1>1, <2>1, <3>1 DEF OthersKeep, Place
    <3> QED
      BY <2>1, <3>1, <3>2 DEF FilesInv
  <2> QED
    BY <2>1, <2>2, <2>3 DEF FilesInv
<1>5. ASSUME NEW p \in Logins, Write(p) PROVE FilesInv'
  <2>1. /\ pc[p] = "write" /\ pc'[p] = "replace" /\ OthersKeep(p) /\ p \in Processes
        /\ p \in answered
        /\ scratch' \in {scratch, Stripped[using[p]], Torn}
        /\ config' \in {config, Stripped[using[p]], Torn}
        /\ handle[p] = "scratch" =>
             config' = config /\ (scratch = Torn => scratch' = Stripped[using[p]])
        /\ UNCHANGED <<using, answered, overlapped>>
    BY <1>5, WriteEffect, Sorts DEF ghosts
  <2>2. \A r \in {config', scratch'} \cap Registries : \E q \in answered' : Stripped[using'[q]] = r
    BY <2>1 DEF FilesInv
  <2>3. ASSUME ~ overlapped'
        PROVE  /\ config' # Torn /\ scratch' = Stripped[using[p]]
               /\ \A q \in Processes : pc'[q] \in {"write", "replace"} => q = p
    <3>1. /\ config # Torn /\ handle[p] = "scratch" /\ scratch = Torn
          /\ \A q \in Processes : pc[q] \in {"write", "replace"} => q = p
      BY <2>1, <2>3 DEF FilesInv
    <3> QED
      BY <2>1, <3>1 DEF OthersKeep
  <2> QED
    BY <2>1, <2>2, <2>3 DEF FilesInv
<1>6. ASSUME NEW p \in Logins, Replace(p) PROVE FilesInv'
  <2>1. /\ pc[p] = "replace" /\ pc'[p] \in {"ok", "failed"} /\ OthersKeep(p) /\ p \in Processes
        /\ config' = scratch /\ scratch' = None
        /\ UNCHANGED <<using, answered, overlapped>>
    BY <1>6, ReplaceEffect, Sorts
  <2>2. \A r \in {config', scratch'} \cap Registries : \E q \in answered' : Stripped[using'[q]] = r
    BY <2>1 DEF FilesInv
  <2>3. ASSUME ~ overlapped'
        PROVE  /\ config' # Torn
               /\ \A q \in Processes : pc'[q] \notin {"write", "replace"}
    <3>1. /\ scratch = Stripped[using[p]] /\ Stripped[using[p]] \in Registries
          /\ \A q \in Processes : pc[q] \in {"write", "replace"} => q = p
      BY <1>1, <2>1, <2>3, StrippedIs DEF FilesInv, Place, Stages
    <3> QED
      BY <2>1, <3>1 DEF OthersKeep
  <2> QED
    BY <2>2, <2>3 DEF FilesInv
<1>7. ASSUME NEW p \in Logouts \cup Commands, Start(p) \/ LoadConfig(p) PROVE FilesInv'
  <2>1. /\ pc[p] \in {"idle", "load"} /\ OthersKeep(p) /\ p \in Processes
        /\ pc'[p] \in {"load", "look", "headers", "read"}
        /\ UNCHANGED <<config, scratch, handle, answered, overlapped>>
    BY <1>7, StartEffect, LoadConfigEffect, Sorts
  <2> QED
    BY <2>1, FilesKept DEF KeepsUsing
<1>8. ASSUME NEW p \in Commands, ReadSession(p) PROVE FilesInv'
  <2>1. /\ OthersKeep(p) /\ p \in Processes /\ pc'[p] = "headers"
        /\ UNCHANGED <<config, scratch, handle, using, answered, overlapped>>
    BY <1>8, ReadSessionEffect, Sorts
  <2> QED
    BY <2>1, FilesKept DEF KeepsUsing
<1>9. ASSUME NEW p \in Logins \cup Commands, Headers(p) \/ Respond(p) PROVE FilesInv'
  <2>1. /\ OthersKeep(p) /\ p \in Processes /\ pc'[p] \in {"request", "open", "headers", "ok"}
        /\ UNCHANGED <<config, scratch, handle, using, overlapped>>
        /\ answered \subseteq answered'
    BY <1>9, HeadersEffect, RespondEffect, Sorts DEF ghosts
  <2> QED
    BY <2>1, FilesKept DEF KeepsUsing
<1>10. ASSUME NEW p \in Logouts, Look(p) \/ Delete(p) PROVE FilesInv'
  <2>1. /\ OthersKeep(p) /\ p \in Processes /\ pc'[p] \in {"ok", "failed", "delete"}
        /\ UNCHANGED <<config, scratch, handle, using, answered, overlapped>>
    BY <1>10, LookEffect, DeleteEffect, Sorts
  <2> QED
    BY <2>1, FilesKept DEF KeepsUsing
<1>11. ASSUME NEW p \in Processes, Fail(p) PROVE FilesInv'
  <2>1. /\ OthersKeep(p) /\ pc'[p] = "failed"
        /\ \A q \in Processes \ {p} : handle'[q] = handle[q]
        /\ UNCHANGED <<config, scratch, using, answered, overlapped>>
    BY <1>11, FailEffect DEF ghosts
  <2> QED
    BY <2>1, FilesKept DEF KeepsUsing
<1>12. CASE UNCHANGED vars
  BY <1>12 DEF vars, files, ghosts, FilesInv
<1> QED
  BY <1>2, <1>3, <1>4, <1>5, <1>6, <1>7, <1>8, <1>9, <1>10, <1>11, <1>12 DEF Next

\* The configuration names a registry that answered a login, and is torn only if two
\* logins have written it at once: wherever commands fail or are killed.
THEOREM ConfigIsWholeHolds == Spec => []ConfigIsWhole
<1>1. Init => FilesInv
  BY DEF Init, FilesInv
<1>2. TypeInv /\ FilesInv /\ [Next]_vars => FilesInv'
  BY StepFiles
<1>3. FilesInv => ConfigIsWhole
  BY DEF FilesInv, ConfigIsWhole
<1> QED
  BY <1>1, <1>2, <1>3, TypeCorrect, PTL DEF Spec

-----------------------------------------------------------------------------
(* Sessions that have ended *)

Storing == {"headers", "request", "open", "write", "replace"}

\* SafeInv is kept by a step of p that makes no session held that was safe or had ended,
\* puts none of those in the keyring, and ends only what was safe for p.
LEMMA SafeKept ==
  ASSUME TypeInv, RangesOK', SafeInv, NEW p \in Processes, OthersKeep(p),
         pc[p] \notin {"ok", "failed"},
         \A q \in Processes : cached'[p] \notin safe'[q],
         cached'[p] \notin ended',
         \A q \in Processes \ {p} : safe'[q] \subseteq safe[q],
         \A s \in safe'[p] : Over(s) /\ using[s] = using'[p],
         ended' \subseteq ended \cup safe[p],
         \A r \in Registries : keyring'[r] \notin ended',
         \A q \in Logins : pc'[q] \in Storing => keyring'[using'[q]] \notin safe'[q]
  PROVE  SafeInv'
<1>1. \A s \in Logins : Over(s) => s \in Processes \ {p} /\ pc'[s] = pc[s] /\ using'[s] = using[s]
  BY Sorts DEF Over, OthersKeep
<1>2. ASSUME NEW s \in Logins, Over(s), cached'[p] # s PROVE Over(s)'
  BY <1>1, <1>2 DEF Over, OthersKeep
<1>3. ASSUME NEW q \in Processes, NEW s \in safe'[q]
      PROVE  Over(s)' /\ using'[s] = using'[q]
  <2>1. s \in Logins /\ Over(s) /\ using[s] = using'[q]
    BY <1>3 DEF RangesOK, SafeInv, OthersKeep
  <2> QED
    BY <1>1, <1>2, <1>3, <2>1
<1>4. ASSUME NEW s \in ended' PROVE Over(s)'
  <2>1. s \in Logins /\ Over(s)
    BY <1>4 DEF RangesOK, SafeInv
  <2> QED
    BY <1>2, <1>4, <2>1
<1> QED
  BY <1>3, <1>4 DEF SafeInv, SessionsStayEnded, Storing

\* So it is by a step that stores nothing, ends nothing and makes nothing held.
LEMMA SafeSame ==
  ASSUME TypeInv, RangesOK', SafeInv, NEW p \in Processes, OthersKeep(p),
         pc[p] \notin {"ok", "failed"}, cached'[p] \in {None, cached[p]},
         UNCHANGED <<keyring, using, safe, ended>>,
         p \in Logins /\ pc'[p] \in Storing => pc[p] \in Storing
  PROVE  SafeInv'
<1>1. \A q \in Processes : cached'[p] \notin safe[q]
  BY DEF SafeInv, Over, RangesOK
<1>2. cached'[p] \notin ended
  BY DEF SafeInv, Over, RangesOK
<1>3. \A s \in safe[p] : Over(s) /\ using[s] = using[p]
  BY DEF SafeInv
<1>4. \A q \in Logins : pc'[q] \in Storing => keyring[using[q]] \notin safe[q]
  <2> TAKE q \in Logins
  <2>1. pc'[q] \in Storing => pc[q] \in Storing
    BY Sorts DEF OthersKeep
  <2> QED
    BY <2>1 DEF SafeInv, Storing
<1>5. \A r \in Registries : keyring[r] \notin ended
  BY DEF SafeInv, SessionsStayEnded
<1> QED
  BY <1>1, <1>2, <1>3, <1>4, <1>5, SafeKept

\* What p learns to be safe is over.
LEMMA SafeLearned ==
  ASSUME TypeInv, NEW p \in Processes, NEW r \in Registries, Learns(p, r)
  PROVE  /\ \A s \in safe'[p] : Over(s) /\ using[s] = using'[p]
         /\ \A q \in Processes : None \notin safe'[q]
<1>1. \A s \in Unheld(r) : pc[s] \in {"ok", "failed"}
  <2> TAKE s \in Unheld(r)
  <2>1. /\ s \in Logins /\ using[s] = r /\ pc[s] \notin Stages
        /\ pc[s] \in Stages \cup {"idle", "ok", "failed"} /\ Place(s)
    BY Ranges, Sorts DEF Unheld, Running, RangesOK, TypeInv
  <2> QED
    BY <2>1 DEF Place
<1> QED
  BY <1>1 DEF Learns, Unheld, Over

\* Only the keyring's entry of its own registry can be safe for p.
LEMMA OwnEntry ==
  ASSUME TypeInv, SafeInv, NEW p \in Processes, NEW r \in Registries, keyring[r] \in safe[p]
  PROVE  r = using[p]
<1>1. keyring[r] # None /\ using[keyring[r]] = using[p]
  BY Ranges DEF RangesOK, SafeInv
<1> QED
  BY <1>1 DEF TypeInv, TypeOK

LEMMA StepSafe ==
  ASSUME TypeInv, SafeInv, [Next]_vars
  PROVE  SafeInv'
<1>1. /\ RangesOK /\ \A q \in Processes : Place(q)
      /\ \A r \in Registries : keyring[r] \notin ended
      /\ \A q \in Logins : pc[q] \in Storing => keyring[using[q]] \notin safe[q]
  BY Ranges DEF TypeInv, SafeInv, SessionsStayEnded, Storing
<1>2. /\ \A q \in Processes : None \notin safe[q]
      /\ None \notin ended
      /\ \A q, x \in Processes : cached[q] \notin safe[x]
      /\ \A q \in Processes : cached[q] \notin ended
  BY <1>1 DEF RangesOK, SafeInv, Over
<1>3. ASSUME NEW p \in Logins, StartLogin(p) PROVE SafeInv'
  <2>1. /\ pc[p] = "idle" /\ OthersKeep(p) /\ RangesOK' /\ p \in Processes
        /\ UNCHANGED <<keyring, cached, ended>>
    BY <1>3, StartLoginEffect, Sorts
  <2>2. PICK r \in Registries :
          Learns(p, r) /\ pc'[p] = IF r \in Development THEN "headers" ELSE "flow"
    BY <1>3, StartLoginEffect
  <2>3. cached'[p] = None /\ using'[p] = r /\ \A q \in Processes \ {p} : safe'[q] = safe[q]
    BY <1>1, <2>1, <2>2 DEF Place, Learns, Stages
  <2>4. /\ \A s \in safe'[p] : Over(s) /\ using[s] = using'[p]
        /\ \A q \in Processes : None \notin safe'[q]
    BY <2>1, <2>2, SafeLearned
  <2>5. r \in Development => keyring[r] = None
    BY DEF TypeInv, TypeOK
  <2>6. \A q \in Logins : pc'[q] \in Storing => keyring'[using'[q]] \notin safe'[q]
    <3> TAKE q \in Logins
    <3>1. CASE q = p
      BY <2>1, <2>2, <2>3, <2>4, <2>5, <3>1 DEF Storing
    <3>2. CASE q # p
      BY <1>1, <2>1, <2>3, <3>2, Sorts DEF OthersKeep
    <3> QED
      BY <3>1, <3>2
  <2> QED
    BY <1>1, <1>2, <2>1, <2>3, <2>4, <2>6, SafeKept
<1>4. ASSUME NEW p \in Logouts \cup Commands, LoadConfig(p) PROVE SafeInv'
  <2>1. /\ pc[p] = "load" /\ OthersKeep(p) /\ RangesOK' /\ p \in Processes
        /\ UNCHANGED <<keyring, cached, ended>>
    BY <1>4, LoadConfigEffect, Sorts
  <2> PICK r \in Registries : Learns(p, r)
    BY <1>4, LoadConfigEffect, StrippedIs
  <2>2. cached'[p] = None /\ \A q \in Processes \ {p} : safe'[q] = safe[q]
    BY <1>1, <2>1 DEF Place, Learns, Stages
  <2>3. /\ \A s \in safe'[p] : Over(s) /\ using[s] = using'[p]
        /\ \A q \in Processes : None \notin safe'[q]
    BY <2>1, SafeLearned
  <2>4. \A q \in Logins : pc'[q] \in Storing => keyring'[using'[q]] \notin safe'[q]
    <3> TAKE q \in Logins
    <3>1. q \in Processes \ {p}
      BY <1>4, Sorts
    <3> QED
      BY <1>1, <2>1, <2>2, <3>1 DEF OthersKeep
  <2> QED
    BY <1>1, <1>2, <2>1, <2>2, <2>3, <2>4, SafeKept
<1>5. ASSUME NEW p \in Logins, DeviceFlow(p) \/ Open(p) \/ Write(p) PROVE SafeInv'
  <2>1. /\ pc[p] \in {"flow", "open", "write"} /\ OthersKeep(p) /\ RangesOK' /\ p \in Processes
        /\ UNCHANGED <<keyring, using, safe, ended, cached>>
        /\ pc'[p] \in Storing => pc[p] \in Storing
    BY <1>5, DeviceFlowEffect, OpenEffect, WriteEffect, Sorts DEF ghosts, Storing
  <2> QED
    BY <2>1, SafeSame
<1>6. ASSUME NEW p \in Logouts \cup Commands, Start(p) PROVE SafeInv'
  <2>1. /\ pc[p] = "idle" /\ pc'[p] = "load" /\ OthersKeep(p) /\ RangesOK' /\ p \in Processes
        /\ UNCHANGED <<keyring, using, safe, ended, cached>>
    BY <1>6, StartEffect, Sorts
  <2> QED
    BY <2>1, SafeSame DEF Storing
<1>7. ASSUME NEW p \in Logins \cup Commands, Respond(p) PROVE SafeInv'
  <2>1. /\ pc[p] = "request" /\ OthersKeep(p) /\ RangesOK' /\ p \in Processes
        /\ cached'[p] \in {None, cached[p]}
        /\ UNCHANGED <<keyring, using, safe, ended>>
    BY <1>7, RespondEffect, Sorts
  <2> QED
    BY <2>1, SafeSame DEF Storing
<1>8. ASSUME NEW p \in Processes, Fail(p) PROVE SafeInv'
  <2>1. /\ pc[p] \notin {"ok", "failed"} /\ pc'[p] = "failed" /\ OthersKeep(p) /\ RangesOK'
        /\ cached'[p] = None
        /\ UNCHANGED <<keyring, using, safe, ended>>
    BY <1>8, FailEffect DEF ghosts, Running, Stages
  <2> QED
    BY <2>1, SafeSame DEF Storing
<1>9. ASSUME NEW p \in Logins, Persist(p) PROVE SafeInv'
  <2>1. /\ pc[p] = "persist" /\ OthersKeep(p) /\ RangesOK' /\ p \in Processes
        /\ using[p] \in Registries /\ cached'[p] = p /\ Stores(using[p], p) /\ Holding(p)
        /\ UNCHANGED <<using, ended>>
    BY <1>9, PersistEffect, Sorts
  <2>2. p \notin ended
    BY <2>1 DEF SafeInv, Over
  <2>3. \A r \in Registries : keyring'[r] \in {keyring[r], p}
    BY <2>1 DEF Stores
  <2>4. \A q \in Logins : pc'[q] \in Storing => keyring'[using'[q]] \notin safe'[q]
    <3> TAKE q \in Logins
    <3>1. q # p /\ pc'[q] \in Storing =>
            using[q] \in Registries /\ keyring[using[q]] \notin safe[q]
      BY <1>1, <2>1, Sorts DEF OthersKeep, Storing, Place, Stages
    <3>2. safe'[q] = safe[q] \ {p}
      BY <2>1, Sorts DEF Holding
    <3> QED
      BY <2>1, <2>3, <3>1, <3>2 DEF Stores
  <2>5. /\ \A q \in Processes : p \notin safe'[q] /\ safe'[q] \subseteq safe[q]
        /\ \A s \in safe'[p] : Over(s) /\ using[s] = using[p]
    BY <2>1 DEF Holding, SafeInv
  <2> QED
    BY <1>1, <2>1, <2>2, <2>3, <2>4, <2>5, SafeKept
<1>10. ASSUME NEW p \in Commands, ReadSession(p) PROVE SafeInv'
  <2> DEFINE s == keyring[using[p]]
  <2>1. /\ pc[p] = "read" /\ OthersKeep(p) /\ RangesOK' /\ p \in Processes
        /\ using[p] \in Registries /\ cached'[p] = s /\ Holding(s)
        /\ UNCHANGED <<keyring, using, ended>>
    BY <1>10, ReadSessionEffect, Sorts
  <2>2. s \notin ended
    BY <1>1, <2>1
  <2>3. /\ \A q \in Processes : s \notin safe'[q] /\ safe'[q] \subseteq safe[q]
        /\ \A x \in safe'[p] : Over(x) /\ using[x] = using[p]
    BY <2>1 DEF Holding, SafeInv
  <2>4. \A q \in Logins : pc'[q] \in Storing => keyring'[using'[q]] \notin safe'[q]
    <3> TAKE q \in Logins
    <3>1. q \in Processes \ {p}
      BY <1>10, Sorts
    <3> QED
      BY <1>1, <2>1, <2>3, <3>1 DEF OthersKeep
  <2> HIDE DEF s
  <2> QED
    BY <1>1, <2>1, <2>2, <2>3, <2>4, SafeKept
<1>11. ASSUME NEW p \in Logins \cup Commands, Headers(p) PROVE SafeInv'
  <2>1. /\ pc[p] = "headers" /\ OthersKeep(p) /\ RangesOK' /\ p \in Processes
        /\ using[p] \in Registries
        /\ UNCHANGED keyring \/ Stores(using[p], cached[p])
        /\ UNCHANGED <<using, cached, safe, ended>>
    BY <1>11, HeadersEffect, Sorts DEF ghosts
  <2>2. CASE UNCHANGED keyring
    BY <2>1, <2>2, SafeSame DEF Storing
  <2>3. CASE Stores(using[p], cached[p])
    <3>1. \A r \in Registries : keyring'[r] \in {keyring[r], cached[p]}
      BY <2>3 DEF Stores
    <3>2. \A q \in Logins : pc'[q] \in Storing => keyring'[using'[q]] \notin safe'[q]
      <4> TAKE q \in Logins
      <4>1. pc'[q] \in Storing => using[q] \in Registries /\ keyring[using[q]] \notin safe[q]
        BY <1>1, <2>1, Sorts DEF OthersKeep, Storing, Place, Stages
      <4>2. cached[p] \notin safe[q]
        BY <1>2, <2>1, Sorts
      <4> QED
        BY <2>1, <3>1, <4>1, <4>2
    <3>3. \A s \in safe[p] : Over(s) /\ using[s] = using[p]
      BY <2>1 DEF SafeInv
    <3> QED
      BY <1>1, <1>2, <2>1, <3>1, <3>2, <3>3, SafeKept
  <2> QED
    BY <2>1, <2>2, <2>3
\* A command that ends sessions, and leaves none of them in the keyring.
<1>12. ASSUME NEW p \in Processes, OthersKeep(p), RangesOK', pc[p] \notin {"ok", "failed"},
              cached'[p] \in {None, cached[p]}, UNCHANGED <<using, safe>>,
              ended' \in {ended, ended \cup safe[p]}, pc'[p] \notin Storing,
              \A r \in Registries : keyring'[r] \in {keyring[r], None},
              ended' # ended => keyring'[using[p]] \notin safe[p]
       PROVE  SafeInv'
  <2>1. \A r \in Registries : keyring'[r] \notin ended'
    <3> TAKE r \in Registries
    <3>1. keyring'[r] \notin ended
      BY <1>1, <1>2, <1>12
    <3>2. ended' # ended => keyring'[r] \notin safe[p]
      BY <1>2, <1>12, OwnEntry
    <3> QED
      BY <1>12, <3>1, <3>2
  <2>2. \A q \in Logins : pc'[q] \in Storing => keyring'[using'[q]] \notin safe'[q]
    <3> TAKE q \in Logins
    <3>1. pc'[q] \in Storing =>
            q \in Processes /\ using[q] \in Registries /\ keyring[using[q]] \notin safe[q]
      BY <1>1, <1>12, Sorts DEF OthersKeep, Storing, Place, Stages
    <3> QED
      BY <1>2, <1>12, <3>1
  <2>3. \A s \in safe[p] : Over(s) /\ using[s] = using[p]
    BY <1>12 DEF SafeInv
  <2>4. (\A q \in Processes : cached'[p] \notin safe[q]) /\ cached'[p] \notin ended'
    BY <1>2, <1>12
  <2> QED
    BY <1>12, <2>1, <2>2, <2>3, <2>4, SafeKept
<1>13. ASSUME NEW p \in Logins, Replace(p) PROVE SafeInv'
  <2>1. /\ pc[p] = "replace" /\ pc'[p] \in {"ok", "failed"} /\ OthersKeep(p) /\ RangesOK'
        /\ p \in Processes /\ cached'[p] = None /\ ended' \in {ended, ended \cup safe[p]}
        /\ UNCHANGED <<keyring, using, safe>>
    BY <1>13, ReplaceEffect, Sorts
  <2>2. keyring[using[p]] \notin safe[p]
    BY <1>1, <2>1 DEF Storing
  <2> QED
    BY <1>12, <2>1, <2>2 DEF Storing
<1>14. ASSUME NEW p \in Logouts, Look(p) PROVE SafeInv'
  <2>1. /\ pc[p] = "look" /\ pc'[p] \in {"ok", "failed", "delete"} /\ OthersKeep(p) /\ RangesOK'
        /\ p \in Processes /\ ended' \in {ended, ended \cup safe[p]}
        /\ ended' # ended => keyring[using[p]] = None
        /\ UNCHANGED <<keyring, using, cached, safe>>
    BY <1>14, LookEffect, Sorts
  <2> QED
    BY <1>2, <1>12, <2>1 DEF Storing
<1>15. ASSUME NEW p \in Logouts, Delete(p) PROVE SafeInv'
  <2>1. /\ pc[p] = "delete" /\ pc'[p] \in {"ok", "failed"} /\ OthersKeep(p) /\ RangesOK'
        /\ p \in Processes /\ ended' \in {ended, ended \cup safe[p]}
        /\ using[p] \in Registries /\ Stores(using[p], None)
        /\ UNCHANGED <<using, cached, safe>>
    BY <1>15, DeleteEffect, Sorts
  <2>2. keyring'[using[p]] = None /\ \A r \in Registries : keyring'[r] \in {keyring[r], None}
    BY <2>1 DEF Stores
  <2> QED
    BY <1>2, <1>12, <2>1, <2>2 DEF Storing
<1>16. CASE UNCHANGED vars
  BY <1>16 DEF vars, files, ghosts, SafeInv, SessionsStayEnded, Over
<1> QED
  BY <1>3, <1>4, <1>5, <1>6, <1>7, <1>8, <1>9, <1>10, <1>11, <1>13, <1>14, <1>15, <1>16 DEF Next

\* A session that a logout or a later login has ended is never stored again, unless another
\* process held it meanwhile: however many commands overlap, fail or are killed.
THEOREM SessionsStayEndedHolds == Spec => []SessionsStayEnded
<1>1. Init => SafeInv
  BY Sorts DEF Init, SafeInv, SessionsStayEnded
<1>2. TypeInv /\ SafeInv /\ [Next]_vars => SafeInv'
  BY StepSafe
<1>3. SafeInv => SessionsStayEnded
  BY DEF SafeInv
<1> QED
  BY <1>1, <1>2, <1>3, TypeCorrect, PTL DEF Spec
-----------------------------------------------------------------------------
(* Logins that are alone *)

\* What Undisturbed(p) says of p and what it has written, without the other commands.
InForce(p) ==
  /\ pc[p] \in Storing /\ using[p] \notin Development => keyring[using[p]] = p /\ cached[p] = p
  /\ pc[p] = "write" => handle[p] = "scratch" /\ scratch = Torn
  /\ pc[p] = "replace" => scratch = Stripped[using[p]]
  /\ pc[p] = "ok" =>
       /\ using[p] \in Registries /\ config = Stripped[using[p]]
       /\ using[p] \notin Development => keyring[using[p]] = p

LEMMA UndisturbedInForce == \A p \in Logins : Undisturbed(p) => InForce(p)
  BY DEF Undisturbed, InForce, Storing

\* While a login is alone nothing else runs, so that nothing disturbs its own step; and while
\* a login or a logout runs, no other login is alone.
LEMMA LoginMoves ==
  ASSUME RangesOK, RangesOK', AloneInv, NEW p \in Logins \cup Logouts, Running(p),
         OthersKeep(p), alone' \subseteq alone, p \in alone => InForce(p)'
  PROVE  AloneInv'
<1>1. p \in Processes /\ p \notin Commands /\ alone \subseteq Processes
  BY Sorts DEF RangesOK
<1>2. ASSUME NEW a \in alone' PROVE a = p
  BY <1>1, <1>2 DEF AloneInv, Undisturbed
<1>3. ASSUME p \in alone PROVE Undisturbed(p)'
  <2>1. \A q \in Processes \ {p} : ~ Running(q)
    BY <1>3 DEF AloneInv, Undisturbed
  <2>2. \A q \in Processes \ {p} : pc'[q] \notin Stages
    BY <2>1 DEF OthersKeep, Running
  <2>3. \A c \in Commands : pc'[c] \notin Stages
    BY <1>1, <2>2, Sorts
  <2>4. InForce(p)'
    BY <1>3
  <2> QED
    BY <2>2, <2>3, <2>4 DEF Undisturbed, InForce, Storing, Running, Stages
<1> QED
  BY <1>2, <1>3 DEF AloneInv

\* A step of a command disturbs no login that is alone if it leaves the session of that login
\* where it is, and uses its registry and its session.
LEMMA CommandMoves ==
  ASSUME RangesOK, RangesOK', AloneInv, NEW p \in Commands, OthersKeep(p), alone' \subseteq alone,
         UNCHANGED config,
         \A a \in alone' :
           /\ ~ Running(a)
           /\ pc[a] = "ok" =>
                /\ using[a] \notin Development => keyring'[using[a]] = a
                /\ Running(p)' /\ pc'[p] # "load" => using'[p] = Stripped[using[a]]
                /\ pc'[p] \in {"headers", "request"} /\ Sought(a) => cached'[p] = a
  PROVE  AloneInv'
<1> SUFFICES ASSUME NEW a \in alone' PROVE Undisturbed(a)'
  BY DEF AloneInv
<1>1. a \in alone /\ Undisturbed(a) /\ a \in Processes \ {p} /\ pc[a] \notin Stages
  BY Sorts DEF AloneInv, RangesOK, Running
<1>2. pc'[a] = pc[a] /\ using'[a] = using[a] /\ pc'[a] \notin Stages
  BY <1>1 DEF OthersKeep
<1>3. \A q \in Processes \ {a} : Running(q)' => q \in Commands
  BY <1>1 DEF Undisturbed, OthersKeep, Running
<1>4. ASSUME pc[a] = "ok"
      PROVE  /\ using'[a] \in Registries /\ config' = Stripped[using'[a]]
             /\ using'[a] \notin Development => keyring'[using'[a]] = a
  BY <1>1, <1>2, <1>4 DEF Undisturbed
<1>5. ASSUME pc[a] = "ok", NEW c \in Commands
      PROVE  /\ Running(c)' /\ pc'[c] # "load" => using'[c] = Stripped[using'[a]]
             /\ pc'[c] \in {"headers", "request"} /\ Sought(a)' => cached'[c] = a
  <2>1. CASE c = p
    BY <1>2, <1>5, <2>1 DEF Sought
  <2>2. CASE c # p
    <3>1. pc'[c] = pc[c] /\ using'[c] = using[c] /\ cached'[c] = cached[c]
      BY <2>2, Sorts DEF OthersKeep
    <3> QED
      BY <1>1, <1>2, <1>5, <3>1 DEF Undisturbed, Running, Sought
  <2> QED
    BY <2>1, <2>2
<1>6. pc'[a] \notin Storing
  BY <1>2 DEF Storing, Stages
<1> QED
  BY <1>2, <1>3, <1>4, <1>5, <1>6 DEF Undisturbed, Running, Storing

\* What a command that runs has of a login that is alone.
LEMMA CommandUses ==
  ASSUME RangesOK, AloneInv, NEW p \in Commands, Running(p), NEW a \in alone
  PROVE  /\ ~ Running(a)
         /\ pc[a] = "ok" =>
              /\ using[a] \in Registries /\ config = Stripped[using[a]]
              /\ using[a] \notin Development => keyring[using[a]] = a
              /\ pc[p] # "load" => using[p] = Stripped[using[a]]
              /\ pc[p] \in {"headers", "request"} /\ Sought(a) => cached[p] = a
<1>1. p \in Processes \ {a} /\ Undisturbed(a)
  BY Sorts DEF RangesOK, AloneInv
<1> QED
  BY <1>1 DEF Undisturbed

LEMMA StepAlone ==
  ASSUME TypeInv, AloneInv, [Next]_vars
  PROVE  AloneInv'
<1>1. RangesOK /\ (\A q \in Processes : Place(q)) /\ alone \subseteq Logins
  BY Ranges DEF TypeInv, RangesOK
<1>2. \A p \in alone : InForce(p)
  BY <1>1, UndisturbedInForce DEF AloneInv
<1>3. ASSUME NEW p \in Logins, StartLogin(p) PROVE AloneInv'
  <2>1. /\ pc[p] = "idle" /\ OthersKeep(p) /\ RangesOK' /\ Begin(p) /\ p \in Processes
        /\ p \notin Commands
    BY <1>3, StartLoginEffect, Sorts
  <2>2. CASE \E q \in Processes : Running(q)
    BY <1>1, <2>1, <2>2, BeginEffect DEF AloneInv
  <2>3. CASE \A q \in Processes : ~ Running(q)
    <3>1. alone' = {p}
      BY <1>1, <2>1, <2>3, BeginEffect
    <3>2. \A q \in Processes \ {p} : pc'[q] \notin Stages
      BY <2>1, <2>3 DEF OthersKeep, Running
    <3>3. PICK r \in Registries :
            using'[p] = r /\ pc'[p] = IF r \in Development THEN "headers" ELSE "flow"
      BY <1>3, StartLoginEffect DEF Learns
    <3>4. /\ pc'[p] \in Storing => using'[p] \in Development
          /\ pc'[p] \notin {"write", "replace", "ok"}
      BY <3>3 DEF Storing
    <3>5. Undisturbed(p)'
      BY <3>2, <3>4 DEF Undisturbed, Storing, Running
    <3> QED
      BY <3>1, <3>5 DEF AloneInv
  <2> QED
    BY <2>2, <2>3
<1>4. ASSUME NEW p \in Logouts \cup Commands, Start(p) PROVE AloneInv'
  <2>1. /\ pc[p] = "idle" /\ pc'[p] = "load" /\ OthersKeep(p) /\ RangesOK' /\ Begin(p)
        /\ p \in Processes /\ p \notin Logins /\ UNCHANGED <<config, keyring>>
    BY <1>4, StartEffect, Sorts
  <2>2. CASE p \in Logouts
    BY <1>1, <2>1, <2>2, BeginEffect DEF AloneInv
  <2>3. CASE p \in Commands
    <3>1. alone' \subseteq alone /\ \A a \in alone' : ~ Running(a)
      BY <1>1, <2>1, <2>3, BeginEffect, Sorts
    <3>2. \A a \in alone' : pc[a] = "ok" =>
            (using[a] \notin Development => keyring'[using[a]] = a)
      BY <1>2, <2>1, <3>1 DEF InForce
    <3> QED
      BY <1>1, <2>1, <2>3, <3>1, <3>2, CommandMoves
  <2> QED
    BY <2>2, <2>3
<1>5. ASSUME NEW p \in Logins, DeviceFlow(p) PROVE AloneInv'
  <2>1. /\ pc[p] = "flow" /\ pc'[p] = "persist" /\ OthersKeep(p) /\ RangesOK' /\ UNCHANGED alone
    BY <1>5, DeviceFlowEffect DEF ghosts
  <2> QED
    BY <1>1, <2>1, LoginMoves DEF InForce, Storing, Running, Stages
<1>6. ASSUME NEW p \in Logins, Persist(p) PROVE AloneInv'
  <2>1. /\ pc[p] = "persist" /\ pc'[p] = "headers" /\ OthersKeep(p) /\ RangesOK'
        /\ keyring'[using'[p]] = p /\ cached'[p] = p /\ UNCHANGED alone
    BY <1>6, PersistEffect DEF Stores
  <2> QED
    BY <1>1, <2>1, LoginMoves DEF InForce, Storing, Running, Stages
<1>7. ASSUME NEW p \in Logins, Open(p) PROVE AloneInv'
  <2>1. /\ pc[p] = "open" /\ pc'[p] = "write" /\ OthersKeep(p) /\ RangesOK'
        /\ scratch' = Torn /\ handle'[p] = "scratch"
        /\ UNCHANGED <<keyring, using, cached, alone>>
    BY <1>7, OpenEffect
  <2>2. p \in alone => InForce(p)'
    BY <1>2, <2>1 DEF InForce, Storing
  <2> QED
    BY <1>1, <2>1, <2>2, LoginMoves DEF Running, Stages
<1>8. ASSUME NEW p \in Logins, Write(p) PROVE AloneInv'
  <2>1. /\ pc[p] = "write" /\ pc'[p] = "replace" /\ OthersKeep(p) /\ RangesOK'
        /\ handle[p] = "scratch" /\ scratch = Torn => scratch' = Stripped[using[p]]
        /\ UNCHANGED <<keyring, using, cached, alone>>
    BY <1>8, WriteEffect DEF ghosts
  <2>2. p \in alone => InForce(p)'
    BY <1>2, <2>1 DEF InForce, Storing
  <2> QED
    BY <1>1, <2>1, <2>2, LoginMoves DEF Running, Stages
<1>9. ASSUME NEW p \in Logins, Replace(p) PROVE AloneInv'
  <2>1. /\ pc[p] = "replace" /\ pc'[p] \in {"ok", "failed"} /\ OthersKeep(p) /\ RangesOK'
        /\ using[p] \in Registries /\ config' = scratch /\ UNCHANGED <<keyring, using, alone>>
    BY <1>1, <1>9, ReplaceEffect, Sorts DEF Place, Stages
  <2>2. p \in alone => InForce(p)'
    BY <1>2, <2>1 DEF InForce, Storing
  <2> QED
    BY <1>1, <2>1, <2>2, LoginMoves DEF Running, Stages
<1>10. ASSUME NEW p \in Logouts, Look(p) \/ Delete(p) PROVE AloneInv'
  <2>1. /\ pc[p] \in {"look", "delete"} /\ OthersKeep(p) /\ RangesOK' /\ UNCHANGED alone
        /\ p \notin alone
    BY <1>1, <1>10, LookEffect, DeleteEffect
  <2> QED
    BY <1>1, <2>1, LoginMoves DEF Running, Stages
<1>11. ASSUME NEW p \in Commands, LoadConfig(p) PROVE AloneInv'
  <2>1. /\ pc[p] = "load" /\ OthersKeep(p) /\ RangesOK' /\ Running(p)
        /\ config \in Registries /\ using'[p] = Stripped[config]
        /\ pc'[p] = IF config \in Development THEN "headers" ELSE "read"
        /\ UNCHANGED <<config, keyring, alone>>
    BY <1>11, LoadConfigEffect DEF Learns, Running, Stages
  <2>2. \A a \in alone :
          /\ ~ Running(a)
          /\ pc[a] = "ok" =>
               /\ using[a] \in Registries /\ config = Stripped[using[a]]
               /\ using[a] \notin Development => keyring[using[a]] = a
    BY <1>1, <2>1, CommandUses
  <2>3. \A a \in alone : pc[a] = "ok" =>
          using'[p] = Stripped[using[a]] /\ (pc'[p] = "headers" => ~ Sought(a))
    BY <2>1, <2>2, StrippedIs DEF Sought
  <2> QED
    BY <1>1, <2>1, <2>2, <2>3, CommandMoves
<1>12. ASSUME NEW p \in Logouts, LoadConfig(p) PROVE AloneInv'
  <2>1. /\ pc[p] = "load" /\ OthersKeep(p) /\ RangesOK' /\ UNCHANGED alone /\ p \notin alone
    BY <1>1, <1>12, LoadConfigEffect
  <2> QED
    BY <1>1, <2>1, LoginMoves DEF Running, Stages
<1>13. ASSUME NEW p \in Commands, ReadSession(p) PROVE AloneInv'
  <2>1. /\ pc[p] = "read" /\ pc'[p] = "headers" /\ OthersKeep(p) /\ RangesOK' /\ Running(p)
        /\ cached'[p] = keyring[using[p]] /\ UNCHANGED <<config, keyring, using, alone>>
    BY <1>13, ReadSessionEffect DEF Running, Stages
  <2>2. \A a \in alone :
          /\ ~ Running(a)
          /\ pc[a] = "ok" =>
               /\ using[p] = Stripped[using[a]]
               /\ using[a] \notin Development => keyring[using[a]] = a
    BY <1>1, <2>1, CommandUses
  <2>3. \A a \in alone : pc[a] = "ok" /\ Sought(a) => cached'[p] = a
    BY <2>1, <2>2 DEF Sought
  <2> QED
    BY <1>1, <2>1, <2>2, <2>3, CommandMoves
<1>14. ASSUME NEW p \in Logins, Headers(p) PROVE AloneInv'
  <2>1. /\ pc[p] = "headers" /\ pc'[p] = "request" /\ OthersKeep(p) /\ RangesOK'
        /\ (UNCHANGED keyring) \/ Stores(using[p], cached[p])
        /\ UNCHANGED <<using, cached, alone>>
    BY <1>14, HeadersEffect DEF ghosts
  <2>2. p \in alone => InForce(p)'
    BY <1>2, <2>1 DEF InForce, Storing, Stores
  <2> QED
    BY <1>1, <2>1, <2>2, LoginMoves DEF Running, Stages
<1>15. ASSUME NEW p \in Commands, Headers(p) PROVE AloneInv'
  <2>1. /\ pc[p] = "headers" /\ pc'[p] = "request" /\ OthersKeep(p) /\ RangesOK' /\ Running(p)
        /\ (UNCHANGED keyring) \/ Stores(using[p], cached[p])
        /\ UNCHANGED <<config, using, cached, alone>>
    BY <1>15, HeadersEffect DEF ghosts, Running, Stages
  <2>2. \A a \in alone :
          /\ ~ Running(a)
          /\ pc[a] = "ok" =>
               /\ using[a] \in Registries /\ using[p] = Stripped[using[a]]
               /\ using[a] \notin Development => keyring[using[a]] = a
               /\ Sought(a) => cached[p] = a
    BY <1>1, <2>1, CommandUses
  <2>3. ASSUME NEW a \in alone, pc[a] = "ok", using[a] \notin Development
        PROVE  keyring'[using[a]] = a
    <3>1. CASE using[p] = using[a]
      BY <2>1, <2>2, <2>3, <3>1 DEF Stores, Sought
    <3>2. CASE using[p] # using[a]
      BY <2>1, <2>2, <2>3, <3>2 DEF Stores
    <3> QED
      BY <3>1, <3>2
  <2> QED
    BY <1>1, <2>1, <2>2, <2>3, CommandMoves
<1>16. ASSUME NEW p \in Logins, Respond(p) PROVE AloneInv'
  <2>1. /\ pc[p] = "request" /\ pc'[p] = "open" /\ OthersKeep(p) /\ RangesOK'
        /\ cached'[p] = cached[p] /\ UNCHANGED <<keyring, using, alone>>
    BY <1>16, RespondEffect
  <2>2. p \in alone => InForce(p)'
    BY <1>2, <2>1 DEF InForce, Storing
  <2> QED
    BY <1>1, <2>1, <2>2, LoginMoves DEF Running, Stages
<1>17. ASSUME NEW p \in Commands, Respond(p) PROVE AloneInv'
  <2>1. /\ pc[p] = "request" /\ OthersKeep(p) /\ RangesOK' /\ Running(p)
        /\ \/ pc'[p] = "headers" /\ cached'[p] = cached[p]
           \/ pc'[p] = "ok"
        /\ UNCHANGED <<config, keyring, using, alone>>
    BY <1>17, RespondEffect DEF Running, Stages
  <2>2. \A a \in alone :
          /\ ~ Running(a)
          /\ pc[a] = "ok" =>
               /\ using[p] = Stripped[using[a]]
               /\ using[a] \notin Development => keyring[using[a]] = a
               /\ Sought(a) => cached[p] = a
    BY <1>1, <2>1, CommandUses
  <2>3. pc'[p] \in {"headers", "request"} => cached'[p] = cached[p]
    BY <2>1
  <2> QED
    BY <1>1, <2>1, <2>2, <2>3, CommandMoves
<1>18. ASSUME NEW p \in Processes, Fail(p) PROVE AloneInv'
  <2>1. /\ Running(p) /\ pc'[p] = "failed" /\ OthersKeep(p) /\ RangesOK'
        /\ UNCHANGED <<config, keyring, alone>>
    BY <1>18, FailEffect DEF ghosts
  <2>2. CASE p \in Commands
    <3>1. \A a \in alone :
            /\ ~ Running(a)
            /\ pc[a] = "ok" => (using[a] \notin Development => keyring[using[a]] = a)
      BY <1>1, <2>1, <2>2, CommandUses
    <3> QED
      BY <1>1, <2>1, <2>2, <3>1, CommandMoves DEF Running, Stages
  <2>3. CASE p \in Logins \cup Logouts
    BY <1>1, <2>1, <2>3, LoginMoves DEF InForce, Storing
  <2> QED
    BY <2>2, <2>3, Sorts
<1>19. CASE UNCHANGED vars
  BY <1>19 DEF vars, files, ghosts, AloneInv, Undisturbed, Running, Sought
<1> QED
  BY <1>3, <1>4, <1>5, <1>6, <1>7, <1>8, <1>9, <1>10, <1>11, <1>12, <1>13, <1>14, <1>15, <1>16,
     <1>17, <1>18, <1>19 DEF Next

\* A login that succeeded with nothing beside it is in force, its registry configured and its
\* session stored, until the next login or logout begins: whatever earlier logins left when
\* they failed or were killed, and whatever the other commands do after it.
THEOREM LoginInForceHolds == Spec => []LoginInForce
<1>1. Init => AloneInv
  BY DEF Init, AloneInv
<1>2. TypeInv /\ AloneInv /\ [Next]_vars => AloneInv'
  BY StepAlone
<1>3. AloneInv => LoginInForce
  BY DEF AloneInv, Undisturbed, LoginInForce, Sought
<1> QED
  BY <1>1, <1>2, <1>3, TypeCorrect, PTL DEF Spec
=============================================================================
