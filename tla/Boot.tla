---------------------------------- MODULE Boot ----------------------------------
(***************************************************************************)
(* A server that starts (src/index.ts): its database client                *)
(* (src/database/client.ts), the repositories that take their collections  *)
(* from it (src/database/repository/base.repository.ts) and the listeners  *)
(* that wait for the database, composed with the built-in check and the    *)
(* state file of module StateStore.                                        *)
(*                                                                         *)
(* index.ts asks for a connection, registers the listener that migrates    *)
(* the database, and starts the built-in check; the repositories that      *)
(* create indexes have registered their listeners in the same turn.  All   *)
(* of them hear one emitter, or none.                                      *)
(*                                                                         *)
(* External: the driver.  A connection that was closed comes back or is    *)
(* given up after reconnectTries.  A timer of the client's that finds no   *)
(* connection ten seconds after a close throws, which is only logged.      *)
(***************************************************************************)
EXTENDS StateStore, Sequences, FiniteSets

CONSTANTS Repositories,     \* accounts among them, and grid, whose bucket is not asked for
          accountRepository, grid,
          Plans             \* bounds: the requests, the starts, and for each start the
                            \* repositories that are used, the connections and the outages

ASSUME BootAssumption ==
    /\ {accountRepository, grid} \subseteq Repositories /\ None \notin Repositories
    /\ Plans \subseteq [requests : SUBSET Requests, boots : Boots,
                        repositories : SUBSET Repositories, connects : Nat \ {0, 1},
                        outages : Nat]

VARIABLES
    plan,
    conn,       \* the connections asked for since the start: for which repository,
                \* and how each is
    connected, db,
    emitter,    \* the connection that came with the client's present event emitter
    collection, \* the connection from which each repository has its collection
    check,      \* the connection that the built-in check waits for, or has waited for
    outages,
    heard,      \* history: how often the listeners have heard dbConnected in this start
    overtaken,  \* history: a second connection was asked for before the first was there
    doubled     \* history: two connections were alive at once
client == <<conn, connected, db, emitter, collection, check, outages, heard, overtaken, doubled>>
bootVars == <<vars, plan, client>>

Fresh == [for |-> None, state |-> "pending"]
Alive == {i \in DOMAIN conn : conn[i].state \in {"pending", "up", "closed"}}

\* A start: getConnection for nobody, and nothing else yet.
NoClient ==
    /\ connected' = FALSE /\ db' = 0 /\ collection' = [r \in Repositories |-> 0]
    /\ check' = 0 /\ outages' = 0 /\ heard' = 0 /\ overtaken' = FALSE /\ doubled' = FALSE

StartServer ==
    /\ started < plan.boots
    /\ Start
    /\ NoClient /\ conn' = <<Fresh>> /\ emitter' = 1
    /\ UNCHANGED plan

CrashServer ==
    /\ Crash
    /\ NoClient /\ conn' = << >> /\ emitter' = 0
    /\ UNCHANGED plan

--------------------------------------------------------------------------------
\* DBClient.getConnection and connect.

\* connect replaces the emitter, whatever was registered with the one before.
Connect(r) ==
    /\ conn' = Append(conn, [Fresh EXCEPT !.for = r])
    /\ emitter' = Len(conn) + 1
    /\ overtaken' = (overtaken \/ conn[1].state = "pending")
    /\ doubled' = (doubled \/ Alive # {})
    /\ UNCHANGED <<connected, db, collection, outages, heard>>

GetConnection(r) ==
    \/ /\ connected
       /\ collection' = IF r = None THEN collection ELSE [collection EXCEPT ![r] = db]
       /\ UNCHANGED <<conn, connected, db, emitter, outages, heard, overtaken, doubled>>
    \/ ~connected /\ Connect(r)

\* getCollection for some request, or the getConnection of getNewOrganizationIdentifier.
Ask(r) ==
    /\ boot # 0
    /\ connected \/ Len(conn) + 1 < plan.connects
    /\ r # None => collection[r] = 0
    /\ GetConnection(r)
    /\ UNCHANGED <<vars, plan, check>>

\* GridRepository takes its bucket from whatever the client has; without a database
\* that is an exception.
OpenBucket ==
    /\ boot # 0 /\ db # 0 /\ collection[grid] = 0 /\ grid \in plan.repositories
    /\ collection' = [collection EXCEPT ![grid] = db]
    /\ UNCHANGED <<vars, plan, conn, connected, db, emitter, check, outages, heard, overtaken, doubled>>

To(i, before, after) ==
    /\ conn[i].state = before
    /\ conn' = [conn EXCEPT ![i].state = after]
    /\ UNCHANGED <<vars, plan, emitter, check, overtaken, doubled>>

\* Variant: a client that has a database keeps it, and does not answer who asked.
SucceedUnlessThere(i) ==
    /\ To(i, "pending", "up")
    /\ connected' = TRUE /\ db' = IF db = 0 THEN i ELSE db
    /\ heard' = IF emitter = 1 THEN heard + 1 ELSE heard
    /\ collection' = IF db # 0 \/ conn[i].for = None THEN collection
                     ELSE [collection EXCEPT ![conn[i].for] = i]
    /\ UNCHANGED outages

\* dbConnected goes to the emitter of the last connect, whichever connection this is.
Succeed(i) ==
    /\ To(i, "pending", "up")
    /\ connected' = TRUE /\ db' = i
    /\ heard' = IF emitter = 1 THEN heard + 1 ELSE heard
    /\ collection' = IF conn[i].for = None THEN collection
                     ELSE [collection EXCEPT ![conn[i].for] = i]
    /\ UNCHANGED outages

\* The callback throws, and who waits for the promise waits for ever.
Fail(i) ==
    /\ To(i, "pending", "failed")
    /\ UNCHANGED <<connected, db, collection, outages, heard>>

\* Variant: the flag stays as it is.
CloseUnnoticed(i) ==
    /\ outages < plan.outages /\ outages' = outages + 1
    /\ To(i, "up", "closed")
    /\ UNCHANGED <<connected, db, collection, heard>>

Close(i) ==
    /\ outages < plan.outages /\ outages' = outages + 1
    /\ To(i, "up", "closed")
    /\ connected' = FALSE
    /\ UNCHANGED <<db, collection, heard>>

\* Variant: a reconnection is announced like a connection.
ReconnectAnnounced(i) ==
    /\ To(i, "closed", "up")
    /\ connected' = TRUE
    /\ heard' = IF emitter = 1 THEN heard + 1 ELSE heard
    /\ UNCHANGED <<db, collection, outages>>

\* dbReconnected has no listener.
Reconnect(i) ==
    /\ To(i, "closed", "up")
    /\ connected' = TRUE
    /\ UNCHANGED <<db, collection, outages, heard>>

GiveUp(i) ==
    /\ To(i, "closed", "lost")
    /\ UNCHANGED <<connected, db, collection, outages, heard>>

Driver(i) == Succeed(i) \/ Fail(i) \/ Reconnect(i) \/ GiveUp(i)

--------------------------------------------------------------------------------
\* The built-in check and the requests, which reach the database through a repository.

Reached == IF collection[accountRepository] = 0 THEN FALSE
           ELSE conn[collection[accountRepository]].state = "up"

Waiting == check # 0 /\ conn[check].state \in {"pending", "failed"}

\* checkBuiltInAccount comes to its first access, while the client may be connecting.
AskForCheck ==
    /\ boot # 0 /\ pc[boot] = "probe"
    /\ check = 0 /\ collection[accountRepository] = 0
    /\ GetConnection(accountRepository)
    /\ check' = IF connected THEN 0 ELSE Len(conn) + 1
    /\ UNCHANGED <<vars, plan>>

\* An access of the check's: to a collection whose connection is lost, or any other.
AccessFails(h) ==
    /\ pc[h] \in {"probe", "create"} /\ ~Waiting
    /\ collection[accountRepository] # 0
    /\ Continue(h, "failed")
    /\ UNCHANGED <<file, accounts, boot, started, local, stored, plan, client>>

CheckStep(h) ==
    \/ /\ ReadAddress(h) \/ ReadForKey(h) \/ Truncate(h) \/ Fill(h)
       /\ UNCHANGED <<plan, client>>
    \/ /\ ProbeAccount(h) \/ CreateAccount(h)
       /\ Reached /\ ~Waiting
       /\ UNCHANGED <<plan, client>>
    \/ AccessFails(h)

RequestStep(h) ==
    /\ \/ StartRequest(h) /\ Reached
       \/ ReadForSettings(h) \/ Truncate(h) \/ Fill(h)
    /\ UNCHANGED <<plan, client>>

--------------------------------------------------------------------------------
BootInit ==
    /\ Init /\ plan \in Plans
    /\ conn = << >> /\ connected = FALSE /\ db = 0 /\ emitter = 0
    /\ collection = [r \in Repositories |-> 0]
    /\ check = 0 /\ outages = 0 /\ heard = 0 /\ overtaken = FALSE /\ doubled = FALSE

BootNext ==
    \/ StartServer \/ CrashServer
    \/ \E r \in {None} \cup (plan.repositories \ {grid}) : Ask(r)
    \/ OpenBucket \/ AskForCheck
    \/ \E i \in DOMAIN conn : Driver(i) \/ Close(i)
    \/ \E h \in Boots : CheckStep(h)
    \/ \E h \in plan.requests : RequestStep(h)

\* The driver answers each connection, or times out, and ends each outage; the event
\* loop carries the check on.
BootSpec ==
    /\ BootInit /\ [][BootNext]_bootVars
    /\ WF_bootVars(\E i \in DOMAIN conn : Driver(i))
    /\ WF_bootVars(AskForCheck \/ \E h \in Boots : CheckStep(h))

--------------------------------------------------------------------------------
\* The types of what this module adds.
BootTypeOK ==
    /\ plan \in Plans
    /\ \A i \in DOMAIN conn :
         conn[i] \in [for : Repositories \cup {None},
                      state : {"pending", "up", "closed", "lost", "failed"}]
    /\ {db, emitter, check} \subseteq 0 .. Len(conn)
    /\ collection \in [Repositories -> 0 .. Len(conn)]
    /\ connected \in BOOLEAN /\ heard \in Nat

\* The migrations and the indexes are begun when the database is there, once in a start
\* and not again after an outage or another connection, as long as nothing asks for a
\* connection before the first one is there; and otherwise at most once.
\* (index.ts:64-76, connect)
HeardOnce ==
    /\ heard <= 1
    /\ conn # << >> /\ ~overtaken => (heard = 1 <=> conn[1].state \notin {"pending", "failed"})

\* /health says that the database is there only when a connection is up.  As long as no
\* second connection has been alive beside the first, it says so whenever one is, and all
\* collections are of that connection, but for those of connections that are lost.
\* (connected, db and the callbacks of close and reconnect)
FlagTells ==
    /\ connected => \E i \in DOMAIN conn : conn[i].state = "up"
    /\ ~doubled =>
         /\ \A i \in DOMAIN conn : conn[i].state = "up" => connected /\ db = i
         /\ \A r \in Repositories :
              collection[r] # 0 /\ conn[collection[r]].state # "lost" => collection[r] = db

\* The built-in check comes to its end, through outages and beside requests that connect
\* as well, unless the connection that it asked for fails.  (getConnection, getCollection)
CheckEnds ==
    \A b \in Boots :
        pc[b] = "ga_read" ~>
            \/ pc[b] \in {"done", "failed"}
            \/ boot = b /\ check # 0 /\ conn[check].state = "failed"
================================================================================
