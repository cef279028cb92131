---------------------------- MODULE CommandSession ----------------------------
(***************************************************************************)
(* What the hf commands of one user share: the registry configuration      *)
(* (config.json, and the scratch file it is written through) and the       *)
(* sessions in the keyring of the operating system, one for each           *)
(* registry (hf_cli/main.py, hf_cli/auth.py, hf_cli/config.py,             *)
(* hf_cli/client.py).                                                      *)
(*                                                                         *)
(* A login stores its session before it asks the registry who it is, and   *)
(* writes the configuration last.  The other commands load the             *)
(* configuration and the session once, and store the session again when a  *)
(* token was refreshed.  Nothing is locked; a command may fail or be       *)
(* killed between any two steps.  A session is seen as the login that      *)
(* made it.                                                                *)
(***************************************************************************)
EXTENDS Naturals

CONSTANTS
  Logins, Logouts,
  Commands,      \* search, info and install
  Registries,    \* registry, tenant, client and scope, as given: a key in the keyring
  Stripped,      \* a registry without the blanks around its tenant, client and scope
  Development,   \* the registries whose identity is in the configuration
  None,          \* no file, no session
  Torn           \* a file that is not JSON, or not all of it

ASSUME ProcessesAssumption ==
  /\ Logins \cap Logouts = {} /\ Logins \cap Commands = {} /\ Logouts \cap Commands = {}
  /\ None \notin Logins
ASSUME RegistriesAssumption ==
  Development \subseteq Registries /\ {None, Torn} \cap Registries = {} /\ None # Torn
ASSUME StrippedAssumption ==
  /\ Stripped \in [Registries -> Registries]
  /\ \A r \in Registries : Stripped[Stripped[r]] = Stripped[r]
  /\ \A r \in Registries : IF r \in Development THEN Stripped[r] = r
                                                 ELSE Stripped[r] \notin Development

VARIABLES
  config,      \* what config.json holds
  scratch,     \* what .config.json.tmp holds
  handle,      \* the file each login that is writing has open: "lost" is no longer named
  keyring,     \* the session stored for each registry
  pc,          \* where each process is
  using,       \* the registry of each process
  cached,      \* the session in each process
  answered,    \* logins whose registry has answered whoami
  safe,        \* sessions only the keyring has held since each process began
  ended,       \* sessions that a logout or a later login has ended
  alone,       \* logins that nothing has overlapped, and no login or logout followed
  overlapped   \* whether two logins have written the configuration at once

files == <<config, scratch, handle>>
ghosts == <<answered, safe, ended, alone, overlapped>>
vars == <<files, keyring, pc, using, cached, ghosts>>

-----------------------------------------------------------------------------
Processes == Logins \cup Logouts \cup Commands
Stored == Registries \cup {None, Torn}
Stages == {"load", "read", "flow", "persist", "headers", "request", "open", "write", "replace",
           "look", "delete"}
Running(p) == pc[p] \in Stages

\* The variables range over their types, nobody is where only others can be, and a
\* session is stored and used for the registry it was made for.
TypeOK ==
  /\ config \in Stored /\ scratch \in Stored
  /\ handle \in [Processes -> {"none", "scratch", "config", "lost"}]
  /\ keyring \in [Registries -> Logins \cup {None}]
  /\ pc \in [Processes -> Stages \cup {"idle", "ok", "failed"}]
  /\ using \in [Processes -> Registries \cup {None}]
  /\ cached \in [Processes -> Logins \cup {None}]
  /\ answered \in SUBSET Logins /\ ended \in SUBSET Logins /\ alone \in SUBSET Logins
  /\ safe \in [Processes -> SUBSET Logins] /\ overlapped \in BOOLEAN
  /\ \A r \in Registries : keyring[r] # None => r \notin Development /\ using[keyring[r]] = r
  /\ \A p \in Processes :
       /\ pc[p] \in Stages \ {"load", "flow", "persist", "open", "write", "replace"} => using[p] # None
       /\ handle[p] # "none" => pc[p] = "write"
       /\ p \in Logouts => cached[p] = None
       /\ cached[p] # None => using[cached[p]] = using[p]

Goto(p, label) == pc' = [pc EXCEPT ![p] = label]

\* The sessions of logins to r that have ended, where no process holds them.
Unheld(r) ==
  {s \in Logins : using[s] = r /\ ~ Running(s) /\ \A p \in Processes : cached[p] # s}

\* Process p holds session s from now on.
Held(s) == safe' = [p \in Processes |-> safe[p] \ {s}]

\* Process p begins: it is alone if nothing else runs, and then the others are not.
Begin(p) ==
  alone' = IF \E q \in Processes : Running(q)
             THEN alone \ {q \in Processes : Running(q) \/ p \notin Commands}
             ELSE IF p \in Commands THEN alone ELSE {p} \cap Logins

\* Process p says that it succeeded, or is stopped before it does.
Finish(p) ==
  \/ Goto(p, "ok") /\ ended' = ended \cup safe[p]
  \/ Goto(p, "failed") /\ UNCHANGED ended

-----------------------------------------------------------------------------
(* hf login *)

\* _login_config, and the AuthSession, whose key is made of the values as they were given;
\* a development login has nothing to acquire.
StartLogin(p) ==
  /\ pc[p] = "idle"
  /\ \E r \in Registries :
       /\ using' = [using EXCEPT ![p] = r]
       /\ safe' = [safe EXCEPT ![p] = Unheld(r)]
       /\ Goto(p, IF r \in Development THEN "headers" ELSE "flow")
  /\ Begin(p)
  /\ UNCHANGED <<files, keyring, cached, answered, ended, overlapped>>

\* The device flow, into a cache of its own: denied or timed out, it fails.
DeviceFlow(p) ==
  /\ pc[p] = "flow"
  /\ Goto(p, "persist")
  /\ UNCHANGED <<files, keyring, using, cached, ghosts>>

\* Mutant of Persist: the session is not stored, as its cache has not changed since.
PersistUnforced(p) ==
  /\ pc[p] = "persist"
  /\ cached' = [cached EXCEPT ![p] = p]
  /\ Held(p)
  /\ Goto(p, "headers")
  /\ UNCHANGED <<files, keyring, using, answered, ended, alone, overlapped>>

\* _persist_cache(force): the session replaces the one stored for the registry.
Persist(p) ==
  /\ pc[p] = "persist"
  /\ keyring' = [keyring EXCEPT ![using[p]] = p]
  /\ cached' = [cached EXCEPT ![p] = p]
  /\ Held(p)
  /\ Goto(p, "headers")
  /\ UNCHANGED <<files, using, answered, ended, alone, overlapped>>

\* Mutant of Open: the configuration is written in place.
OpenInPlace(p) ==
  /\ pc[p] = "open"
  /\ config' = Torn
  /\ handle' = [handle EXCEPT ![p] = "config"]
  /\ overlapped' = (overlapped \/ \E q \in Logins \ {p} : pc[q] \in {"write", "replace"})
  /\ Goto(p, "write")
  /\ UNCHANGED <<scratch, keyring, using, cached, answered, safe, ended, alone>>

\* write_text opens the scratch file, which all logins share, and truncates it.
Open(p) ==
  /\ pc[p] = "open"
  /\ scratch' = Torn
  /\ handle' = [handle EXCEPT ![p] = "scratch"]
  /\ overlapped' = (overlapped \/ \E q \in Logins \ {p} : pc[q] \in {"write", "replace"})
  /\ Goto(p, "write")
  /\ UNCHANGED <<config, keyring, using, cached, answered, safe, ended, alone>>

\* What a file may hold once the validated configuration of r was written from its start:
\* over the text of another login, the longer one leaves its end.
Overwritten(file, r) == {Stripped[r]} \cup (IF file = Torn THEN {} ELSE {Torn})

\* The text goes to the file that was opened, whatever its name is by now.
Write(p) ==
  /\ pc[p] = "write"
  /\ IF handle[p] = "scratch" THEN scratch' \in Overwritten(scratch, using[p])
                              ELSE UNCHANGED scratch
  /\ IF handle[p] = "config" THEN config' \in Overwritten(config, using[p])
                             ELSE UNCHANGED config
  /\ handle' = [handle EXCEPT ![p] = "none"]
  /\ Goto(p, "replace")
  /\ UNCHANGED <<keyring, using, cached, ghosts>>

\* chmod, replace and chmod, which need the scratch file; if the login then succeeds, the
\* sessions it replaced have ended.
Replace(p) ==
  /\ pc[p] = "replace" /\ scratch # None
  /\ config' = scratch /\ scratch' = None
  /\ handle' = [q \in Processes |->
       CASE handle[q] = "scratch" -> "config" [] handle[q] = "config" -> "lost"
         [] OTHER -> handle[q]]
  /\ cached' = [cached EXCEPT ![p] = None]
  /\ Finish(p)
  /\ UNCHANGED <<keyring, using, answered, safe, alone, overlapped>>

-----------------------------------------------------------------------------
(* The commands that need a login *)

\* A command other than login begins with load_config.
Start(p) ==
  /\ pc[p] = "idle"
  /\ Begin(p)
  /\ Goto(p, "load")
  /\ UNCHANGED <<files, keyring, using, cached, answered, safe, ended, overlapped>>

\* A configuration that is missing or torn is an error; its values are stripped again.
LoadConfig(p) ==
  /\ pc[p] = "load" /\ config \in Registries
  /\ using' = [using EXCEPT ![p] = Stripped[config]]
  /\ safe' = [safe EXCEPT ![p] = Unheld(Stripped[config])]
  /\ Goto(p, CASE p \in Commands /\ config \notin Development -> "read"
               [] p \in Commands /\ config \in Development    -> "headers"
               [] p \in Logouts                               -> "look")
  /\ UNCHANGED <<files, keyring, cached, answered, ended, alone, overlapped>>

\* Mutant of ReadSession: the entry of the keyring is not that of the registry.
ReadAnySession(p) ==
  /\ pc[p] = "read"
  /\ \E r \in Registries : cached' = [cached EXCEPT ![p] = keyring[r]] /\ Held(keyring[r])
  /\ Goto(p, "headers")
  /\ UNCHANGED <<files, keyring, using, answered, ended, alone, overlapped>>

\* AuthSession: the session stored for the registry that was loaded.
ReadSession(p) ==
  /\ pc[p] = "read"
  /\ cached' = [cached EXCEPT ![p] = keyring[using[p]]]
  /\ Held(keyring[using[p]])
  /\ Goto(p, "headers")
  /\ UNCHANGED <<files, keyring, using, answered, ended, alone, overlapped>>

\* headers: without a session it fails; if the token was refreshed, the session in this
\* process is stored again.
Headers(p) ==
  /\ pc[p] = "headers"
  /\ using[p] \notin Development => cached[p] # None
  /\ \/ UNCHANGED keyring
     \/ /\ using[p] \notin Development
        /\ keyring' = [keyring EXCEPT ![using[p]] = cached[p]]
  /\ Goto(p, "request")
  /\ UNCHANGED <<files, using, cached, ghosts>>

\* The registry answers: a login goes on to save the configuration, the others to their
\* next request or to their end.
Respond(p) ==
  /\ pc[p] = "request"
  /\ answered' = answered \cup ({p} \cap Logins)
  /\ IF p \in Logins
       THEN Goto(p, "open") /\ UNCHANGED cached
       ELSE \/ Goto(p, "headers") /\ UNCHANGED cached
            \/ Goto(p, "ok") /\ cached' = [cached EXCEPT ![p] = None]
  /\ UNCHANGED <<files, keyring, using, safe, ended, alone, overlapped>>

\* remove_saved_session: there is nothing to remove, or it is removed below.
Look(p) ==
  /\ pc[p] = "look"
  /\ IF keyring[using[p]] = None
       THEN Finish(p)
       ELSE Goto(p, "delete") /\ UNCHANGED ended
  /\ UNCHANGED <<files, keyring, using, cached, answered, safe, alone, overlapped>>

\* Mutant of Delete: logout answers and leaves the stored session.
DeleteNothing(p) ==
  /\ pc[p] = "delete"
  /\ Finish(p)
  /\ UNCHANGED <<files, keyring, using, cached, answered, safe, alone, overlapped>>

\* delete_password, which fails if the session is gone by now.
Delete(p) ==
  /\ pc[p] = "delete" /\ keyring[using[p]] # None
  /\ keyring' = [keyring EXCEPT ![using[p]] = None]
  /\ Finish(p)
  /\ UNCHANGED <<files, using, cached, answered, safe, alone, overlapped>>

\* Any error (of the keyring, the network, the registry or the disk), or the process is
\* killed; what it has stored and written stays.
Fail(p) ==
  /\ Running(p)
  /\ handle' = [handle EXCEPT ![p] = "none"]
  /\ cached' = [cached EXCEPT ![p] = None]
  /\ Goto(p, "failed")
  /\ UNCHANGED <<config, scratch, keyring, using, ghosts>>

Init ==
  /\ config = None /\ scratch = None
  /\ handle = [p \in Processes |-> "none"]
  /\ keyring = [r \in Registries |-> None]
  /\ pc = [p \in Processes |-> "idle"]
  /\ using = [p \in Processes |-> None] /\ cached = [p \in Processes |-> None]
  /\ answered = {} /\ safe = [p \in Processes |-> {}] /\ ended = {} /\ alone = {}
  /\ overlapped = FALSE

Next ==
  \/ \E p \in Logins :
       StartLogin(p) \/ DeviceFlow(p) \/ Persist(p) \/ Open(p) \/ Write(p) \/ Replace(p)
  \/ \E p \in Logouts : Look(p) \/ Delete(p)
  \/ \E p \in Commands : ReadSession(p)
  \/ \E p \in Logouts \cup Commands : Start(p) \/ LoadConfig(p)
  \/ \E p \in Logins \cup Commands : Headers(p) \/ Respond(p)
  \/ \E p \in Processes : Fail(p)

Spec == Init /\ [][Next]_vars

-----------------------------------------------------------------------------
(* Properties *)

\* The configuration names a registry that has answered a login, wherever logins were
\* killed; only two logins that write it at once can leave it torn.
ConfigIsWhole ==
  /\ config = Torn => overlapped
  /\ config \in Registries => \E p \in answered : Stripped[using[p]] = config

\* A session that a logout or a later login has ended is never stored again, unless
\* another process held it meanwhile.
SessionsStayEnded == \A r \in Registries : keyring[r] \notin ended

\* Commands can find the session of login p: it was acquired with values that were given
\* without blanks around them.  Any other session is stored under a key nobody looks for.
Sought(p) == using[p] \notin Development /\ Stripped[using[p]] = using[p]

\* A login that succeeded, with nothing beside it, is in force until the next login or
\* logout, whatever killed or failed logins left before, and commands do after: its
\* registry is configured, and commands find its session there if they can.
LoginInForce ==
  \A p \in alone : pc[p] = "ok" =>
    /\ config = Stripped[using[p]]
    /\ Sought(p) => keyring[config] = p

-----------------------------------------------------------------------------
(* The inductive invariants *)

\* A process is only where its command takes it; from the time it has chosen its registry
\* it keeps it, and before that, and after its end, it has no session.
Place(p) ==
  /\ pc[p] \in {"flow", "persist", "open", "write", "replace"} => p \in Logins
  /\ pc[p] \in {"look", "delete"} => p \in Logouts
  /\ pc[p] = "read" => p \in Commands
  /\ pc[p] = "load" => p \notin Logins
  /\ pc[p] \in {"headers", "request"} => p \notin Logouts
  /\ pc[p] \in {"idle", "load"} => using[p] = None
  /\ pc[p] \notin Stages \ {"load"} => cached[p] = None
  /\ pc[p] \in Stages \ {"load"} => using[p] \in Registries
  /\ pc[p] \in {"flow", "persist", "read"} => using[p] \notin Development
  /\ pc[p] \in {"open", "write", "replace"} => p \in answered
  /\ pc[p] = "idle" => p \notin answered

TypeInv == TypeOK /\ \A p \in Processes : Place(p)

\* What is in a file was written for a login that was answered; and as long as no two
\* logins have written at once, the one that writes has the scratch file to itself.
FilesInv ==
  /\ \A r \in {config, scratch} \cap Registries : \E p \in answered : Stripped[using[p]] = r
  /\ overlapped \/
       /\ config # Torn
       /\ \A p, q \in Processes :
            pc[p] \in {"write", "replace"} /\ pc[q] \in {"write", "replace"} => p = q
       /\ \A p \in Processes : pc[p] = "write" => handle[p] = "scratch" /\ scratch = Torn
       /\ \A p \in Processes : pc[p] = "replace" => scratch = Stripped[using[p]]

\* The login of session s has ended, and no process holds s.
Over(s) == pc[s] \in {"ok", "failed"} /\ \A p \in Processes : cached[p] # s

\* A session that is safe for p is over; nobody can store it again but through the
\* keyring, where a login that has stored its own leaves none of them.
SafeInv ==
  /\ \A p \in Processes : \A s \in safe[p] : Over(s) /\ using[s] = using[p]
  /\ \A s \in ended : Over(s)
  /\ \A p \in Logins :
       pc[p] \in {"headers", "request", "open", "write", "replace"} =>
         keyring[using[p]] \notin safe[p]
  /\ SessionsStayEnded

\* A login that is alone has everything to itself while it runs; after it only commands
\* run, which use its registry, and its session if they can.
Undisturbed(p) ==
  /\ \A q \in Processes \ {p} : Running(q) => q \in Commands /\ ~ Running(p)
  /\ pc[p] \in {"headers", "request", "open", "write", "replace"} /\ using[p] \notin Development =>
       keyring[using[p]] = p /\ cached[p] = p
  /\ pc[p] = "write" => handle[p] = "scratch" /\ scratch = Torn
  /\ pc[p] = "replace" => scratch = Stripped[using[p]]
  /\ pc[p] = "ok" =>
       /\ using[p] \in Registries /\ config = Stripped[using[p]]
       /\ using[p] \notin Development => keyring[using[p]] = p
       /\ \A c \in Commands :
            /\ Running(c) /\ pc[c] # "load" => using[c] = Stripped[using[p]]
            /\ pc[c] \in {"headers", "request"} /\ Sought(p) => cached[c] = p

AloneInv == \A p \in alone : Undisturbed(p)
=============================================================================
