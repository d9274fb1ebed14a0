------------------------------ MODULE StateStore ------------------------------
(***************************************************************************)
(* The state file of a node (src/service/state.service.ts): the private    *)
(* key of the built-in account, which BuiltInService reads or generates,   *)
(* and the email settings, which AdminController changes.  One server      *)
(* process, which may die and start again.                                 *)
(*                                                                         *)
(* Each action is the code from one await to the next.  writeFile opens    *)
(* the file, which empties it, and then fills it; JSON.parse throws on     *)
(* what a reader finds in between.  readFile asks whether the file exists  *)
(* and then reads it; no one removes it, so this is one read.              *)
(*                                                                         *)
(* StateService has a lock around writing, but is not a singleton: each    *)
(* consumer is given an instance, and so a lock, of its own, which it      *)
(* always finds free.                                                      *)
(***************************************************************************)
EXTENDS Naturals

CONSTANTS Requests,         \* the requests to change the email settings
          Mail,             \* email settings
          None, Absent, Broken,
          MaxBoots,         \* bound: how often the server starts
          InitFile, InitAccounts

Boots == 1 .. MaxBoots
Handlers == Boots \cup Requests
\* The key that a handler generates is its own name: no two are the same.
Key == Handlers \cup InitAccounts
Contents == [key : Key \cup {None}, mail : Mail \cup {None}]

ASSUME StateAssumption ==
    /\ MaxBoots \in Nat
    /\ InitFile \in Contents \cup {Absent}
    /\ Absent # Broken /\ {Absent, Broken} \cap Contents = {}
    /\ Requests \cap Boots = {}

VARIABLES
    file,          \* Absent, Broken (empty or cut short) or its contents
    accounts,      \* the keys for which the database has a built-in account
    boot,          \* which start of the server this is; 0 while it is down
    started,       \* how many times it has started
    pc, key, mail, contents,   \* the handlers' local state
    stored         \* history: the keys that have been in a complete file, and
                   \* the key of the last one; and whether a request has begun
                   \* before the check had done with the file (early)
local == <<key, mail, contents>>
vars == <<file, accounts, boot, started, pc, local, stored>>

Idle == {"idle", "done", "failed"}
PC == Idle \cup {"ga_read", "gw_read", "probe", "create", "em_read", "truncate", "fill"}
\* A check that has the file to read or to write.
Checking == {"ga_read", "gw_read", "truncate", "fill"}
Good == file \notin {Absent, Broken}
HasKey == IF Good THEN file.key # None ELSE FALSE
\* readFile of a file that is not there gives {}.
Read == IF file = Absent THEN [key |-> None, mail |-> None] ELSE file

Continue(h, label) == pc' = [pc EXCEPT ![h] = label]

--------------------------------------------------------------------------------
\* The server starts with checkBuiltInAccount.  (paramsCheck, which loads the email
\* settings, changes only the configuration in memory, which nothing here reads.)
Start ==
    /\ boot = 0 /\ started < MaxBoots
    /\ boot' = started + 1 /\ started' = started + 1
    /\ Continue(started + 1, "ga_read")
    /\ UNCHANGED <<file, accounts, local, stored>>

\* The process dies, and its handlers with it.
Crash ==
    /\ boot # 0
    /\ boot' = 0
    /\ pc' = [h \in Handlers |-> IF pc[h] \in Idle THEN pc[h] ELSE "failed"]
    /\ UNCHANGED <<file, accounts, started, local, stored>>

\* A request, which does not wait for the check; to change the settings takes a super
\* account.
StartRequest(h) ==
    /\ boot # 0 /\ pc[h] = "idle"
    /\ accounts # {}
    /\ \E m \in Mail : mail' = [mail EXCEPT ![h] = m]
    /\ Continue(h, "em_read")
    /\ stored' = [stored EXCEPT !.early = @ \/ pc[boot] \in Checking]
    /\ UNCHANGED <<file, accounts, boot, started, key, contents>>

--------------------------------------------------------------------------------
\* BuiltInService.checkBuiltInAccount and getBuiltInAddress.

\* Variant: the new key's write is fired and not awaited, and lost.
ReadAddressUnwritten(h) ==
    /\ pc[h] = "ga_read"
    /\ key' = [key EXCEPT ![h] = IF HasKey THEN file.key ELSE h]
    /\ Continue(h, "probe")
    /\ UNCHANGED <<file, accounts, boot, started, mail, contents, stored>>

\* Whatever read throws, that the key or the file is missing or that the file
\* does not parse, is answered with a new key.
ReadAddress(h) ==
    /\ pc[h] = "ga_read"
    /\ \/ /\ HasKey
          /\ key' = [key EXCEPT ![h] = file.key]
          /\ Continue(h, "probe")
       \/ /\ ~HasKey
          /\ key' = [key EXCEPT ![h] = h]
          /\ Continue(h, "gw_read")
    /\ UNCHANGED <<file, accounts, boot, started, mail, contents, stored>>

\* Variant: a file that cannot be read is taken for an empty one.
ReadForKeyLeniently(h) ==
    /\ pc[h] = "gw_read"
    /\ contents' = [contents EXCEPT ![h] =
                      [key |-> key[h], mail |-> IF Good THEN file.mail ELSE None]]
    /\ Continue(h, "truncate")
    /\ UNCHANGED <<file, accounts, boot, started, key, mail, stored>>

\* StateService.write reads the file again; now that it does not parse is an error.
ReadForKey(h) ==
    /\ pc[h] = "gw_read"
    /\ \/ /\ file = Broken
          /\ Continue(h, "failed")
          /\ UNCHANGED contents
       \/ /\ file # Broken
          /\ contents' = [contents EXCEPT ![h] = [Read EXCEPT !.key = key[h]]]
          /\ Continue(h, "truncate")
    /\ UNCHANGED <<file, accounts, boot, started, key, mail, stored>>

\* checkBuiltInAccount looks for the account ...
ProbeAccount(h) ==
    /\ pc[h] = "probe"
    /\ Continue(h, IF key[h] \in accounts THEN "done" ELSE "create")
    /\ UNCHANGED <<file, accounts, boot, started, local, stored>>

\* ... and creates it.
CreateAccount(h) ==
    /\ pc[h] = "create"
    /\ accounts' = accounts \cup {key[h]}
    /\ Continue(h, "done")
    /\ UNCHANGED <<file, boot, started, local, stored>>

--------------------------------------------------------------------------------
\* AdminController.changeEmailSettings

ReadForSettings(h) ==
    /\ pc[h] = "em_read"
    /\ \/ /\ file = Broken
          /\ Continue(h, "failed")
          /\ UNCHANGED contents
       \/ /\ file # Broken
          /\ contents' = [contents EXCEPT ![h] = [Read EXCEPT !.mail = mail[h]]]
          /\ Continue(h, "truncate")
    /\ UNCHANGED <<file, accounts, boot, started, key, mail, stored>>

--------------------------------------------------------------------------------
\* StateService.writeFile

\* For changeEmailSettings it is the last thing it waits for (the reload that is
\* to follow has no effect: what is injected as its EmailService is a StateService).
AfterWrite(h) == IF h \in Requests THEN "done" ELSE "probe"

Truncate(h) ==
    /\ pc[h] = "truncate"
    /\ file' = Broken
    /\ Continue(h, "fill")
    /\ UNCHANGED <<accounts, boot, started, local, stored>>

\* Over what another writer has filled in meanwhile, a shorter text leaves that
\* one's end behind its own.
Fill(h) ==
    /\ pc[h] = "fill"
    /\ \/ /\ file' = contents[h]
          /\ stored' = [stored EXCEPT !.last = contents[h].key, !.all = @ \cup {contents[h].key}]
       \/ /\ Good /\ file' = Broken
          /\ UNCHANGED stored
    /\ Continue(h, AfterWrite(h))
    /\ UNCHANGED <<accounts, boot, started, local>>

--------------------------------------------------------------------------------
Init ==
    /\ file = InitFile /\ accounts = InitAccounts
    /\ boot = 0 /\ started = 0
    /\ pc = [h \in Handlers |-> "idle"]
    /\ key = [h \in Handlers |-> None]
    /\ mail = [h \in Handlers |-> None]
    /\ contents = [h \in Handlers |-> None]
    /\ stored = [last |-> IF InitFile = Absent THEN None ELSE InitFile.key,
                 all |-> InitAccounts \cup IF InitFile = Absent THEN {} ELSE {InitFile.key},
                 early |-> FALSE]

Step(h) ==
    \/ ReadAddress(h) \/ ReadForKey(h) \/ ProbeAccount(h) \/ CreateAccount(h)
    \/ ReadForSettings(h) \/ Truncate(h) \/ Fill(h)

Next ==
    \/ Start \/ Crash
    \/ \E h \in Requests : StartRequest(h)
    \/ \E h \in Handlers : Step(h)

Spec == Init /\ [][Next]_vars

--------------------------------------------------------------------------------
\* The types of the file, the server and its handlers.
TypeOK ==
    /\ file \in Contents \cup {Absent, Broken}
    /\ accounts \subseteq Key
    /\ boot \in 0 .. MaxBoots /\ started \in 0 .. MaxBoots
    /\ pc \in [Handlers -> PC]
    /\ key \in [Handlers -> Key \cup {None}]
    /\ mail \in [Handlers -> Mail \cup {None}]
    /\ contents \in [Handlers -> Contents \cup {None}]

\* The node keeps its identity, unless settings were changed while a check had not done
\* with the file: no complete file has another key than the last complete one, though
\* the process may die with the file half written and then takes the file for one that
\* has no key.  (getBuiltInAddress, StateService.write)
KeyKept ==
    [][file' \notin {Absent, Broken} /\ stored.last # None /\ ~stored.early
       => file'.key = stored.last]_vars

\* A built-in account is created only when its key is safe, with the same exception: a
\* crash, or a writer that overwrites another, leaves no super account without a key on
\* file before.  (checkBuiltInAccount)
AccountKeyStored == ~stored.early => accounts \subseteq stored.all

\* "Merge state.json and mailInfo contents" (src/controller/admin.controller.ts:105):
\* the settings are added to what the file holds, and the key stays.
MergeKeepsKey ==
    [][\A h \in Requests :
         pc[h] = "fill" /\ pc'[h] # "fill" /\ mail[h] # None
         /\ file' \notin {Absent, Broken} => file'.key = stored.last]_vars
================================================================================
