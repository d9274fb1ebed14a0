------------------------------ MODULE BootProofs -------------------------------
(***************************************************************************)
(* What holds of Boot for every set of requests, settings and              *)
(* repositories, every number of starts, connections and outages, and      *)
(* every state file and database the node starts with.                     *)
(*                                                                         *)
(* The two halves of a starting server, the state file and the database    *)
(* client, have each an induction of their own.  That of the file rests on *)
(* whose turn it is to write (TurnInv): the check of the present start,    *)
(* and when that has done with the file the requests.  That is so until a  *)
(* request begins before (stored.early), and what is proved about the file *)
(* is about behaviours up to there.  The client's half holds in any case.  *)
(***************************************************************************)
EXTENDS Boot, TLAPS

\* The handler h is at work.
Busy(h) == pc[h] \notin Idle

\* Of the handlers the check of the present start works alone on the file, and after it
\* requests.
TurnInv ==
    /\ \A h \in Handlers : Busy(h) => boot # 0
    /\ \A b \in Boots : Busy(b) => b = boot /\ pc[b] # "em_read"
    /\ \A r \in Requests : Busy(r) =>
         pc[boot] \notin Checking /\ pc[r] \in {"em_read", "truncate", "fill"}

\* What is in the file, and what its writers are about to put there.  A check that
\* writes has found that there was no key; a request that writes has read the last one.
KeyInv ==
    /\ Good => file.key = stored.last /\ file.key \in stored.all
    /\ file = Absent => stored.last = None
    /\ \A r \in Requests : pc[r] \in {"truncate", "fill"} => contents[r].key = stored.last
    /\ \A b \in Boots :
         /\ pc[b] = "gw_read" => ~HasKey
         /\ pc[b] \in {"truncate", "fill"} =>
              stored.last = None /\ contents[b].key = key[b]
         /\ pc[b] = "fill" => file = Broken
         /\ pc[b] \in {"probe", "create"} => key[b] \in stored.all
    /\ accounts \subseteq stored.all

--------------------------------------------------------------------------------
\* The steps of the state file.

\* A handler whose access to the database fails.
Dies(h) ==
    /\ pc[h] \in {"probe", "create"}
    /\ Continue(h, "failed")
    /\ UNCHANGED <<file, accounts, boot, started, local, stored>>

\* One of the actions of StateStore, or the failure of an access, or nothing.
FileStep ==
    \/ Start \/ Crash
    \/ \E h \in Requests : StartRequest(h)
    \/ \E b \in Boots : \/ ReadAddress(b) \/ ReadForKey(b)
                        \/ ProbeAccount(b) \/ CreateAccount(b) \/ Dies(b)
    \/ \E r \in Requests : ReadForSettings(r)
    \/ \E h \in Handlers : Truncate(h) \/ Fill(h)
    \/ UNCHANGED vars

\* A server that starts or runs takes no other step.
LEMMA FileSteps ==
    ASSUME BootTypeOK, [BootNext]_bootVars
    PROVE  FileStep
<1> USE DEF FileStep, vars
<1>1. plan.requests \subseteq Requests
  BY BootAssumption DEF BootTypeOK
<1>2. ASSUME StartServer \/ CrashServer PROVE FileStep
  BY <1>2 DEF StartServer, CrashServer
<1>3. ASSUME NEW r, Ask(r) PROVE FileStep
  BY <1>3 DEF Ask
<1>4. ASSUME OpenBucket \/ AskForCheck PROVE FileStep
  BY <1>4 DEF OpenBucket, AskForCheck
<1>5. ASSUME NEW i, Driver(i) \/ Close(i) PROVE FileStep
  BY <1>5 DEF Driver, Close, Succeed, Fail, Reconnect, GiveUp, To
<1>6. ASSUME NEW b \in Boots, CheckStep(b) PROVE FileStep
  BY <1>6 DEF CheckStep, AccessFails, Dies, Handlers
<1>7. ASSUME NEW r \in Requests, RequestStep(r) PROVE FileStep
  BY <1>7 DEF RequestStep, Handlers
<1>8. CASE UNCHANGED bootVars
  BY <1>8 DEF bootVars
<1> HIDE DEF FileStep
<1> QED
  BY <1>1, <1>2, <1>3, <1>4, <1>5, <1>6, <1>7, <1>8 DEF BootNext

--------------------------------------------------------------------------------
\* Types.

\* The types, and what a handler that is at work has in its hands.
TypeInv ==
    /\ TypeOK
    /\ stored \in [last : Key \cup {None}, all : SUBSET (Key \cup {None}), early : BOOLEAN]
    /\ \A h \in Handlers : pc[h] \in {"truncate", "fill"} => contents[h] \in Contents
    /\ \A b \in Boots : pc[b] \in PC \ (Idle \cup {"ga_read", "em_read"}) => key[b] \in Key
    /\ \A r \in Requests :
         /\ pc[r] = "em_read" => mail[r] \in Mail
         /\ pc[r] \notin {"gw_read", "probe", "create"}

\* It holds at the start.
LEMMA InitTypes == Init => TypeInv
<1> SUFFICES ASSUME Init PROVE TypeInv
  OBVIOUS
<1>1. InitFile # Absent => InitFile.key \in Key \cup {None}
  BY StateAssumption DEF Contents
<1>2. TypeOK
  BY StateAssumption DEF Init, TypeOK, PC, Idle, Key
<1>3. stored \in [last : Key \cup {None}, all : SUBSET (Key \cup {None}), early : BOOLEAN]
  BY <1>1 DEF Init, Key
<1> QED
  BY <1>2, <1>3 DEF Init, TypeInv, Idle, Handlers

\* Every step of the state file keeps it.
LEMMA TypeStep ==
    ASSUME TypeInv, FileStep
    PROVE  TypeInv'
<1> USE DEF TypeInv, TypeOK, PC, Idle, Handlers, Continue, local
<1>1. Start => TypeInv'
  BY StateAssumption DEF Start, Boots
<1>2. Crash => TypeInv'
  BY StateAssumption DEF Crash
<1>3. ASSUME NEW h \in Requests, StartRequest(h) PROVE TypeInv'
  <2>1. stored' \in [last : Key \cup {None}, all : SUBSET (Key \cup {None}), early : BOOLEAN]
    BY <1>3 DEF StartRequest
  <2>2. TypeOK'
    BY <1>3, StateAssumption DEF StartRequest
  <2>3. pc' = [pc EXCEPT ![h] = "em_read"] /\ UNCHANGED <<key, contents>> /\ mail'[h] \in Mail
        /\ \A g \in Requests \ {h} : mail'[g] = mail[g]
    BY <1>3 DEF StartRequest
  <2> QED
    BY <2>1, <2>2, <2>3, StateAssumption
<1>4. ASSUME NEW b \in Boots, ReadAddress(b) PROVE TypeInv'
  BY <1>4, StateAssumption DEF ReadAddress, HasKey, Good, Contents, Key
<1>5. ASSUME NEW b \in Boots, ReadForKey(b) PROVE TypeInv'
  BY <1>5, StateAssumption DEF ReadForKey, Read, Contents
<1>6. ASSUME NEW b \in Boots, ProbeAccount(b) \/ Dies(b) PROVE TypeInv'
  BY <1>6, StateAssumption DEF ProbeAccount, Dies
<1>7. ASSUME NEW b \in Boots, CreateAccount(b) PROVE TypeInv'
  BY <1>7, StateAssumption DEF CreateAccount
<1>8. ASSUME NEW r \in Requests, ReadForSettings(r) PROVE TypeInv'
  BY <1>8, StateAssumption DEF ReadForSettings, Read, Contents
<1>9. ASSUME NEW h \in Handlers, Truncate(h) PROVE TypeInv'
  BY <1>9, StateAssumption DEF Truncate
<1>10. ASSUME NEW h \in Handlers, Fill(h) PROVE TypeInv'
  <2>1. contents[h] \in Contents
    BY <1>10 DEF Fill
  <2>2. contents[h].key \in Key \cup {None}
    BY <2>1 DEF Contents
  <2>3. stored' \in [last : Key \cup {None}, all : SUBSET (Key \cup {None}), early : BOOLEAN]
    <3>1. CASE UNCHANGED stored
      BY <3>1
    <3>2. CASE stored' = [stored EXCEPT !.last = contents[h].key,
                                        !.all = @ \cup {contents[h].key}]
      BY <2>2, <3>2
    <3> QED
      BY <1>10, <3>1, <3>2 DEF Fill
  <2>4. file' \in Contents \cup {Absent, Broken}
    BY <1>10, <2>1 DEF Fill
  <2> QED
    BY <1>10, <2>3, <2>4, StateAssumption DEF Fill, AfterWrite
<1>11. CASE UNCHANGED vars
  BY <1>11 DEF vars
<1> QED
  BY <1>1, <1>2, <1>3, <1>4, <1>5, <1>6, <1>7, <1>8, <1>9, <1>10, <1>11 DEF FileStep
--------------------------------------------------------------------------------
\* The file, as long as no request begins before the check has done with it.

\* The turns are kept: a start makes its check the only busy handler, a crash makes
\* every handler idle, and a request that starts does not find the check at the file.
LEMMA TurnStep ==
    ASSUME ~stored'.early, TypeInv, TurnInv, FileStep
    PROVE  TurnInv'
<1> USE DEF TypeInv, TypeOK, TurnInv, Busy, Idle, Checking, Handlers, Continue
<1>1. ASSUME Start PROVE TurnInv'
  <2>1. \A h \in Handlers : ~Busy(h)
    BY <1>1 DEF Start
  <2>2. /\ boot' = started + 1 /\ boot' # 0 /\ boot' \in Boots
        /\ pc' = [pc EXCEPT ![boot'] = "ga_read"]
    BY <1>1, StateAssumption DEF Start, Boots
  <2>3. \A h \in Handlers : Busy(h)' => h = boot'
    BY <2>1, <2>2
  <2>4. \A r \in Requests : ~Busy(r)'
    <3>1. \A r \in Requests : r \in Handlers /\ r # boot'
      BY <2>2, StateAssumption
    <3> HIDE DEF Busy
    <3> QED
      BY <2>3, <3>1
  <2> QED
    BY <2>2, <2>3, <2>4
<1>2. Crash => TurnInv'
  BY StateAssumption DEF Crash
<1>3. ASSUME NEW h \in Requests, StartRequest(h) PROVE TurnInv'
  <2>1. /\ boot # 0 /\ boot' = boot /\ boot \in Boots
        /\ pc' = [pc EXCEPT ![h] = "em_read"]
    BY <1>3, StateAssumption DEF StartRequest, Boots
  <2>2. pc[boot] \notin Checking
    BY <1>3 DEF StartRequest
  <2>3. \A b \in Boots : pc'[b] = pc[b]
    BY <2>1, StateAssumption
  <2>4. \A r \in Requests : Busy(r)' => pc'[r] \in {"em_read", "truncate", "fill"}
    BY <2>1
  <2> QED
    BY <2>1, <2>2, <2>3, <2>4
<1>4. ASSUME NEW b \in Boots, \/ ReadAddress(b) \/ ReadForKey(b)
                              \/ ProbeAccount(b) \/ CreateAccount(b) \/ Dies(b)
      PROVE  TurnInv'
  BY <1>4, StateAssumption DEF ReadAddress, ReadForKey, ProbeAccount, CreateAccount, Dies
<1>5. ASSUME NEW r \in Requests, ReadForSettings(r) PROVE TurnInv'
  BY <1>5, StateAssumption DEF ReadForSettings, Boots
<1>6. ASSUME NEW h \in Handlers, Truncate(h) \/ Fill(h) PROVE TurnInv'
  <2>1. /\ Busy(h) /\ UNCHANGED boot
        /\ \A g \in Handlers \ {h} : pc'[g] = pc[g]
    BY <1>6 DEF Truncate, Fill
  <2>2. h \in Boots => pc'[h] \in {"fill", "probe"}
    BY <1>6, StateAssumption DEF Truncate, Fill, AfterWrite
  <2>3. h \in Requests => pc'[h] \in {"fill", "done"}
    BY <1>6, StateAssumption DEF Truncate, Fill, AfterWrite
  <2>4. CASE h \in Boots
    <3>1. h = boot /\ pc[h] \in Checking
      BY <1>6, <2>1, <2>4 DEF Truncate, Fill
    <3>2. \A r \in Requests : ~Busy(r) /\ r # h
      BY <2>4, <3>1, StateAssumption
    <3> QED
      BY <2>1, <2>2, <2>4, <3>1, <3>2, StateAssumption
  <2>5. CASE h \in Requests
    <3>1. boot \in Boots /\ h # boot
      BY <2>1, <2>5, StateAssumption DEF Boots
    <3> QED
      BY <2>1, <2>3, <2>5, <3>1, StateAssumption
  <2> QED
    BY <2>4, <2>5
<1>7. CASE UNCHANGED vars
  BY <1>7 DEF vars, local
<1> QED
  BY <1>1, <1>2, <1>3, <1>4, <1>5, <1>6, <1>7 DEF FileStep

\* A request that has begun too early has done so for good.
LEMMA EarlyStays ==
    ASSUME TypeInv, FileStep
    PROVE  stored.early => stored'.early
<1> USE DEF TypeInv
<1>1. ASSUME NEW h \in Requests, StartRequest(h) PROVE stored.early => stored'.early
  BY <1>1 DEF StartRequest
<1>2. ASSUME NEW h \in Handlers, Fill(h) PROVE stored.early => stored'.early
  BY <1>2 DEF Fill
<1>3. CASE UNCHANGED stored
  BY <1>3
<1> QED
  BY <1>1, <1>2, <1>3
     DEF FileStep, Start, Crash, ReadAddress, ReadForKey, ProbeAccount, CreateAccount, Dies,
         ReadForSettings, Truncate, vars

\* A file that holds contents is not absent and not broken.
LEMMA GoodContents == \A c \in Contents : c \notin {Absent, Broken}
  BY StateAssumption

\* What is in the file is kept.
LEMMA KeyStep ==
    ASSUME ~stored'.early, TypeInv, TurnInv, KeyInv, FileStep
    PROVE  KeyInv'
<1> USE DEF KeyInv, Good, HasKey, Continue, local
<1>1. Start => KeyInv'
  BY StateAssumption DEF Start, Boots, TypeInv, TypeOK, Handlers
<1>2. Crash => KeyInv'
  BY StateAssumption DEF Crash, TypeInv, TypeOK, Handlers, Idle
<1>3. ASSUME NEW h \in Requests, StartRequest(h) PROVE KeyInv'
  BY <1>3, StateAssumption DEF StartRequest, TypeInv, TypeOK, Handlers
<1>4. ASSUME NEW b \in Boots, ReadAddress(b) PROVE KeyInv'
  BY <1>4, StateAssumption DEF ReadAddress, TypeInv, TypeOK, Handlers
<1>5. ASSUME NEW b \in Boots, ReadForKey(b) PROVE KeyInv'
  BY <1>5, StateAssumption DEF ReadForKey, Read, TypeInv, TypeOK, Handlers, Contents
<1>6. ASSUME NEW b \in Boots, ProbeAccount(b) \/ Dies(b) PROVE KeyInv'
  BY <1>6, StateAssumption DEF ProbeAccount, Dies, TypeInv, TypeOK, Handlers
<1>7. ASSUME NEW b \in Boots, CreateAccount(b) PROVE KeyInv'
  BY <1>7, StateAssumption DEF CreateAccount, TypeInv, TypeOK, Handlers
<1>8. ASSUME NEW r \in Requests, ReadForSettings(r) PROVE KeyInv'
  BY <1>8, StateAssumption DEF ReadForSettings, Read, TypeInv, TypeOK, Handlers, Contents
<1>9. ASSUME NEW h \in Handlers, Truncate(h) PROVE KeyInv'
  <2>1. /\ file' = Broken /\ pc' = [pc EXCEPT ![h] = "fill"] /\ pc[h] = "truncate"
        /\ UNCHANGED <<accounts, key, contents, stored>>
    BY <1>9 DEF Truncate
  <2>2. \A b \in Boots : pc[b] = "fill" => b = h
    BY <2>1, StateAssumption DEF TypeInv, TypeOK, Handlers, TurnInv, Busy, Idle, Checking
  <2> QED
    BY <2>1, <2>2, StateAssumption DEF TypeInv, TypeOK, Handlers
<1>10. ASSUME NEW h \in Handlers, Fill(h) PROVE KeyInv'
  <2>1. /\ pc[h] = "fill" /\ pc' = [pc EXCEPT ![h] = AfterWrite(h)]
        /\ UNCHANGED <<accounts, boot, key, contents>>
        /\ contents[h] \in Contents
    BY <1>10 DEF Fill, TypeInv
  <2>2. \/ /\ file' = contents[h]
           /\ stored'.last = contents[h].key
           /\ stored'.all = stored.all \cup {contents[h].key}
        \/ Good /\ file' = Broken /\ UNCHANGED stored
    BY <1>10 DEF Fill, TypeInv
  <2>3. boot \in Boots /\ \A b \in Boots : pc[b] \notin Idle => b = boot
    BY <2>1, StateAssumption DEF TurnInv, Busy, Idle, TypeInv, TypeOK, Boots
  <2>4. CASE h \in Boots
    <3>1. h = boot /\ pc[boot] \in Checking
      BY <2>1, <2>3, <2>4 DEF Idle, Checking
    <3>2. \A r \in Requests : pc[r] \in Idle /\ r # h
      BY <2>4, <3>1, StateAssumption DEF TurnInv, Busy, Handlers
    <3>3. pc'[h] = "probe" /\ \A g \in Handlers \ {h} : pc'[g] = pc[g]
      BY <2>1, <2>4, StateAssumption DEF AfterWrite, TypeInv, TypeOK
    <3>4. \A r \in Requests : pc'[r] \in Idle
      BY <3>2, <3>3 DEF Handlers
    <3>5. \A b \in Boots : pc'[b] \notin Idle => b = h /\ pc'[b] = "probe"
      BY <2>3, <3>1, <3>3 DEF Handlers
    <3>6. stored.last = None /\ contents[h].key = key[h] /\ key[h] \in stored'.all
      BY <2>1, <2>2, <2>4
    <3>7. \A b \in Boots : pc'[b] \in {"probe", "create"} => key'[b] \in stored'.all
      BY <2>1, <3>5, <3>6 DEF Idle
    <3>8. \A b \in Boots : pc'[b] \notin {"gw_read", "truncate", "fill"}
      BY <3>5 DEF Idle
    <3>9. \A r \in Requests : pc'[r] \notin {"truncate", "fill"}
      BY <3>4 DEF Idle
    <3>10. Good' => file'.key = stored'.last /\ file'.key \in stored'.all
      BY <2>2
    <3>11. file' # Absent /\ accounts' \subseteq stored'.all
      BY <2>1, <2>2, GoodContents, StateAssumption
    <3> QED
      BY <3>7, <3>8, <3>9, <3>10, <3>11
  <2>5. CASE h \in Requests
    <3>1. contents[h].key = stored.last /\ pc[boot] \notin Checking
      BY <2>1, <2>5 DEF TurnInv, Busy, Idle, Handlers
    <3>2. stored'.last = stored.last /\ stored.all \subseteq stored'.all
      BY <2>2, <3>1
    <3>3. pc'[h] = "done" /\ \A g \in Handlers \ {h} : pc'[g] = pc[g]
      BY <2>1, <2>5, StateAssumption DEF AfterWrite, TypeInv, TypeOK
    <3>4. \A b \in Boots : pc'[b] = pc[b] /\ pc[b] \notin Checking
      BY <2>3, <2>5, <3>1, <3>3, StateAssumption DEF Handlers, Checking, Idle
    <3>5. \A r \in Requests : pc'[r] \in {"truncate", "fill"} => contents'[r].key = stored'.last
      <4>1. \A r \in Requests : pc'[r] \in {"truncate", "fill"} => pc[r] \in {"truncate", "fill"}
        BY <3>3 DEF Handlers
      <4> QED
        BY <2>1, <3>2, <4>1
    <3>6. \A b \in Boots : pc'[b] \in {"probe", "create"} => key'[b] \in stored'.all
      BY <2>1, <3>2, <3>4
    <3>7. \A b \in Boots : pc'[b] \notin {"gw_read", "truncate", "fill"}
      BY <3>4 DEF Checking
    <3>8. Good' => file'.key = stored'.last /\ file'.key \in stored'.all
      BY <2>2
    <3>9. file' # Absent /\ accounts' \subseteq stored'.all
      BY <2>1, <2>2, GoodContents, StateAssumption
    <3> QED
      BY <3>5, <3>6, <3>7, <3>8, <3>9
  <2> QED
    BY <2>4, <2>5 DEF Handlers
<1>11. CASE UNCHANGED vars
  BY <1>11 DEF vars
<1> QED
  BY <1>1, <1>2, <1>3, <1>4, <1>5, <1>6, <1>7, <1>8, <1>9, <1>10, <1>11 DEF FileStep
--------------------------------------------------------------------------------
\* The database client.

\* A connection.
Connection ==
    [for : Repositories \cup {None}, state : {"pending", "up", "closed", "lost", "failed"}]

\* The connections asked for are a sequence of connections.
ClientTypes == BootTypeOK /\ conn \in Seq(Connection)

\* The connection i has been up.
Settled(i) == conn[i].state \notin {"pending", "failed"}

\* A connection goes on.
Moves(i, before, after) ==
    /\ i \in DOMAIN conn /\ conn[i].state = before
    /\ conn' = [conn EXCEPT ![i].state = after]

\* Nothing is asked for, and no connection goes on.
ClientStays ==
    UNCHANGED <<boot, conn, connected, db, emitter, collection, heard, overtaken, doubled>>

\* What a step does for the client.
ClientStep ==
    \/ StartServer \/ CrashServer
    \/ boot # 0 /\ UNCHANGED boot /\ \E r \in Repositories \cup {None} : GetConnection(r)
    \/ OpenBucket
    \/ \E i \in DOMAIN conn : Driver(i) \/ Close(i)
    \/ ClientStays

\* There is no other.
LEMMA ClientSteps ==
    ASSUME BootTypeOK, [BootNext]_bootVars
    PROVE  ClientStep
<1> USE DEF ClientStep, ClientStays
<1>1. plan.repositories \subseteq Repositories
  BY BootAssumption DEF BootTypeOK
<1>2. ASSUME NEW r \in {None} \cup (plan.repositories \ {grid}), Ask(r) PROVE ClientStep
  BY <1>1, <1>2 DEF Ask, vars
<1>3. CASE AskForCheck
  BY <1>3, BootAssumption DEF AskForCheck, vars
<1>4. ASSUME NEW b \in Boots, CheckStep(b) PROVE ClientStep
  BY <1>4 DEF CheckStep, AccessFails, ReadAddress, ReadForKey, Truncate, Fill, ProbeAccount,
              CreateAccount, client
<1>5. ASSUME NEW r, RequestStep(r) PROVE ClientStep
  BY <1>5 DEF RequestStep, StartRequest, ReadForSettings, Truncate, Fill, client
<1>6. CASE UNCHANGED bootVars
  BY <1>6 DEF bootVars, vars, client
<1> HIDE DEF ClientStep
<1>7. StartServer \/ CrashServer \/ OpenBucket => ClientStep
  BY DEF ClientStep
<1>8. (\E i \in DOMAIN conn : Driver(i) \/ Close(i)) => ClientStep
  BY DEF ClientStep
<1> QED
  BY <1>2, <1>3, <1>4, <1>5, <1>6, <1>7, <1>8 DEF BootNext

\* When one connection goes on, they are as many as before and the others stay.
LEMMA MovesOne ==
    ASSUME ClientTypes, NEW i, NEW before, NEW after \in {"up", "closed", "lost", "failed"},
           Moves(i, before, after)
    PROVE  /\ conn' \in Seq(Connection) /\ Len(conn') = Len(conn)
           /\ i \in 1 .. Len(conn) /\ DOMAIN conn = 1 .. Len(conn)
           /\ conn'[i].state = after /\ conn'[i].for = conn[i].for
           /\ \A j \in 1 .. Len(conn) : j # i => conn'[j] = conn[j]
<1>1. DOMAIN conn = 1 .. Len(conn) /\ i \in 1 .. Len(conn) /\ conn[i] \in Connection
  BY DEF ClientTypes, Moves
<1>2. PICK c : c = [conn[i] EXCEPT !.state = after]
  OBVIOUS
<1>3. c \in Connection /\ c.state = after /\ c.for = conn[i].for
  BY <1>1, <1>2 DEF Connection
<1>4. conn' = [conn EXCEPT ![i] = c]
  BY <1>2 DEF Moves
<1> QED
  BY <1>1, <1>3, <1>4 DEF ClientTypes

\* When one is asked for, it comes last.
LEMMA ConnectsOne ==
    ASSUME ClientTypes, NEW r \in Repositories \cup {None}, Connect(r)
    PROVE  /\ conn' \in Seq(Connection) /\ Len(conn') = Len(conn) + 1
           /\ conn'[Len(conn) + 1] = [for |-> r, state |-> "pending"]
           /\ DOMAIN conn = 1 .. Len(conn) /\ DOMAIN conn' = 1 .. Len(conn')
           /\ \A j \in 1 .. Len(conn) : conn'[j] = conn[j]
<1>1. [Fresh EXCEPT !.for = r] = [for |-> r, state |-> "pending"]
  BY DEF Fresh
<1>2. [for |-> r, state |-> "pending"] \in Connection
  BY DEF Connection
<1>3. conn' = Append(conn, [for |-> r, state |-> "pending"])
  BY <1>1 DEF Connect
<1> QED
  BY <1>2, <1>3 DEF ClientTypes

\* A driver's step is such a step.
LEMMA DriverMoves ==
    ASSUME NEW i \in DOMAIN conn
    PROVE  /\ Succeed(i) => Moves(i, "pending", "up")
           /\ Fail(i) => Moves(i, "pending", "failed")
           /\ Close(i) => Moves(i, "up", "closed")
           /\ Reconnect(i) => Moves(i, "closed", "up")
           /\ GiveUp(i) => Moves(i, "closed", "lost")
  BY DEF Succeed, Fail, Close, Reconnect, GiveUp, To, Moves

\* Every step of the client keeps the types.
LEMMA ClientTypeStep ==
    ASSUME ClientTypes, [BootNext]_bootVars
    PROVE  ClientTypes'
<1> USE DEF BootTypeOK
<1>1. plan' \in Plans
  BY DEF ClientTypes, BootNext, bootVars, StartServer, CrashServer, Ask, OpenBucket,
         AskForCheck, Driver, Close, Succeed, Fail, Reconnect, GiveUp, To, CheckStep,
         AccessFails, RequestStep
<1>2. DOMAIN conn = 1 .. Len(conn) /\ Len(conn) \in Nat
  BY DEF ClientTypes
<1> DEFINE Typed == /\ conn' \in Seq(Connection)
                    /\ db' \in 0 .. Len(conn') /\ emitter' \in 0 .. Len(conn')
                    /\ check' \in 0 .. Len(conn')
                    /\ collection' \in [Repositories -> 0 .. Len(conn')]
                    /\ connected' \in BOOLEAN /\ heard' \in Nat
<1>3. ASSUME Typed PROVE ClientTypes'
  <2>1. \A i \in DOMAIN conn' : conn'[i] \in Connection
    BY <1>3
  <2>2. {db', emitter', check'} \subseteq 0 .. Len(conn')
    BY <1>3
  <2> QED
    BY <1>1, <1>3, <2>1, <2>2 DEF ClientTypes, Connection
<1>4. ASSUME StartServer PROVE Typed
  <2>1. Fresh \in Connection
    BY DEF Fresh, Connection
  <2>2. conn' = <<Fresh>> /\ emitter' = 1 /\ NoClient
    BY <1>4 DEF StartServer
  <2>3. conn' \in Seq(Connection) /\ Len(conn') = 1
    BY <2>1, <2>2
  <2>4. db' \in 0 .. Len(conn') /\ check' \in 0 .. Len(conn') /\ heard' \in Nat
    BY <2>2, <2>3 DEF NoClient
  <2>5. collection' \in [Repositories -> 0 .. 1]
    BY <2>2 DEF NoClient
  <2>6. 0 .. Len(conn') = 0 .. 1
    BY <2>3
  <2>7. collection' \in [Repositories -> 0 .. Len(conn')]
    BY <2>5, <2>6
  <2>8. connected' \in BOOLEAN
    BY <2>2 DEF NoClient
  <2> QED
    BY <2>2, <2>3, <2>4, <2>7, <2>8
<1>5. ASSUME CrashServer PROVE Typed
  <2>1. conn' = << >> /\ emitter' = 0 /\ NoClient
    BY <1>5 DEF CrashServer
  <2>2. conn' \in Seq(Connection) /\ Len(conn') = 0
    BY <2>1
  <2>3. db' \in 0 .. Len(conn') /\ check' \in 0 .. Len(conn') /\ heard' \in Nat
    BY <2>1, <2>2 DEF NoClient
  <2>4. collection' \in [Repositories -> 0 .. 0]
    BY <2>1 DEF NoClient
  <2>5. 0 .. Len(conn') = 0 .. 0
    BY <2>2
  <2>6. collection' \in [Repositories -> 0 .. Len(conn')]
    BY <2>4, <2>5
  <2>7. connected' \in BOOLEAN
    BY <2>1 DEF NoClient
  <2> QED
    BY <2>1, <2>2, <2>3, <2>6, <2>7
<1>6. ASSUME NEW r \in Repositories \cup {None}, Connect(r), check' \in {check, Len(conn) + 1}
      PROVE  Typed
  <2>1. conn' \in Seq(Connection) /\ Len(conn') = Len(conn) + 1
    BY <1>6, ConnectsOne
  <2>2. emitter' = Len(conn) + 1 /\ UNCHANGED <<connected, db, collection, heard>>
    BY <1>6 DEF Connect
  <2>3. 0 .. Len(conn) \subseteq 0 .. Len(conn')
    BY <1>2, <2>1
  <2>4. db' \in 0 .. Len(conn') /\ collection' \in [Repositories -> 0 .. Len(conn')]
    BY <2>2, <2>3 DEF ClientTypes
  <2>5. check' \in 0 .. Len(conn') /\ emitter' \in 0 .. Len(conn')
    BY <1>2, <1>6, <2>1, <2>2 DEF ClientTypes
  <2> QED
    BY <2>1, <2>2, <2>4, <2>5 DEF ClientTypes
<1>7. ASSUME NEW r \in Repositories \cup {None}, GetConnection(r), ~Connect(r),
             check' \in {check, 0}
      PROVE  Typed
  BY <1>2, <1>7 DEF GetConnection, ClientTypes
<1>8. ASSUME NEW r \in {None} \cup (plan.repositories \ {grid}), Ask(r) PROVE Typed
  <2>1. r \in Repositories \cup {None} /\ UNCHANGED check /\ GetConnection(r)
    BY <1>8, BootAssumption DEF Ask, ClientTypes
  <2> QED
    BY <1>6, <1>7, <2>1
<1>9. ASSUME AskForCheck PROVE Typed
  <2>1. accountRepository \in Repositories /\ GetConnection(accountRepository)
    BY <1>9, BootAssumption DEF AskForCheck
  <2>2. check' = IF connected THEN 0 ELSE Len(conn) + 1
    BY <1>9 DEF AskForCheck
  <2>3. connected => ~Connect(accountRepository)
    <3>1. ASSUME connected, Connect(accountRepository) PROVE FALSE
      <4>1. conn' = conn
        BY <2>1, <3>1 DEF GetConnection
      <4>2. Len(conn') = Len(conn) + 1
        BY <2>1, <3>1, ConnectsOne
      <4> QED
        BY <1>2, <4>1, <4>2
    <3> QED
      BY <3>1
  <2>4. CASE connected
    BY <1>7, <2>1, <2>2, <2>3, <2>4
  <2>5. CASE ~connected
    BY <1>6, <2>1, <2>2, <2>5 DEF GetConnection
  <2> QED
    BY <2>4, <2>5
<1>10. ASSUME OpenBucket PROVE Typed
  BY <1>10 DEF OpenBucket, ClientTypes
<1>11. ASSUME NEW i \in DOMAIN conn, Driver(i) \/ Close(i) PROVE Typed
  <2>1. \E before : \E after \in {"up", "closed", "lost", "failed"} : Moves(i, before, after)
    BY <1>11, DriverMoves DEF Driver
  <2>2. conn' \in Seq(Connection) /\ Len(conn') = Len(conn)
    BY <2>1, MovesOne
  <2>3. conn[i].for \in Repositories \cup {None}
    BY DEF ClientTypes
  <2>4. UNCHANGED <<emitter, check>>
    BY <1>11 DEF Driver, Close, Succeed, Fail, Reconnect, GiveUp, To
  <2>5. db' \in {db, i} /\ connected' \in BOOLEAN /\ heard' \in Nat
    <3>1. db \in 0 .. Len(conn) /\ connected \in BOOLEAN /\ heard \in Nat
      BY DEF ClientTypes
    <3>2. CASE Succeed(i)
      BY <3>1, <3>2 DEF Succeed
    <3>3. CASE UNCHANGED <<db, heard>> /\ connected' \in BOOLEAN
      BY <3>1, <3>3
    <3> QED
      BY <1>11, <3>1, <3>2, <3>3 DEF Driver, Close, Fail, Reconnect, GiveUp
  <2>6. collection' \in [Repositories -> 0 .. Len(conn)]
    BY <1>2, <1>11, <2>3 DEF Driver, Close, Succeed, Fail, Reconnect, GiveUp, ClientTypes
  <2> QED
    BY <1>2, <2>2, <2>4, <2>5, <2>6 DEF ClientTypes
<1>12. ASSUME UNCHANGED client PROVE Typed
  BY <1>12 DEF client, ClientTypes
<1>13. ASSUME NEW h, CheckStep(h) \/ RequestStep(h) PROVE UNCHANGED client
  BY <1>13 DEF CheckStep, RequestStep, AccessFails
<1> HIDE DEF Typed
<1> QED
  BY <1>1, <1>3, <1>4, <1>5, <1>8, <1>9, <1>10, <1>11, <1>12, <1>13 DEF BootNext, bootVars

\* What HeardOnce rests on.  The emitter is that of the last connection asked for, so the
\* listeners hear the first one only if it is there before the next is asked for.
EmitterInv ==
    /\ boot = 0 <=> conn = << >>
    /\ emitter = Len(conn)
    /\ heard \in {0, 1}
    /\ heard = 1 => conn # << >> /\ Settled(1)
    /\ conn # << >> /\ ~overtaken =>
         /\ Settled(1) => heard = 1
         /\ Len(conn) > 1 => conn[1].state # "pending"

\* Every step keeps it.
LEMMA EmitterStep ==
    ASSUME TypeOK, ClientTypes, EmitterInv, ClientStep
    PROVE  EmitterInv'
<1>1. DOMAIN conn = 1 .. Len(conn) /\ Len(conn) \in Nat
  BY DEF ClientTypes
<1>2. conn # << >> => 1 \in DOMAIN conn /\ Len(conn) > 0
  BY DEF ClientTypes
<1>3. ASSUME StartServer PROVE EmitterInv'
  <2>1. conn' = <<Fresh>> /\ emitter' = 1 /\ heard' = 0 /\ boot' # 0
    BY <1>3 DEF StartServer, NoClient, Start, TypeOK
  <2>2. conn'[1].state = "pending" /\ Len(conn') = 1 /\ conn' # << >>
    BY <2>1 DEF Fresh
  <2> QED
    BY <2>1, <2>2 DEF EmitterInv, Settled
<1>4. ASSUME CrashServer PROVE EmitterInv'
  <2>1. conn' = << >> /\ emitter' = 0 /\ heard' = 0 /\ boot' = 0
    BY <1>4 DEF CrashServer, NoClient, Crash
  <2>2. Len(conn') = 0
    BY <2>1
  <2> QED
    BY <2>1, <2>2 DEF EmitterInv
<1>5. ASSUME boot # 0, UNCHANGED boot, NEW r \in Repositories \cup {None}, Connect(r)
      PROVE  EmitterInv'
  <2>1. /\ Len(conn') = Len(conn) + 1
        /\ \A j \in 1 .. Len(conn) : conn'[j] = conn[j]
    BY <1>5, ConnectsOne
  <2>2. conn' # << >>
    BY <1>1, <2>1
  <2>3. conn # << >> /\ conn'[1] = conn[1]
    BY <1>1, <1>2, <1>5, <2>1 DEF EmitterInv
  <2>4. emitter' = Len(conn') /\ heard' = heard
    BY <1>5, <2>1 DEF Connect
  <2>5. ~overtaken' => ~overtaken /\ conn[1].state # "pending"
    BY <1>5 DEF Connect
  <2> QED
    BY <1>5, <2>1, <2>2, <2>3, <2>4, <2>5 DEF EmitterInv, Settled
<1>6. ASSUME UNCHANGED <<boot, conn, emitter, heard, overtaken>> PROVE EmitterInv'
  BY <1>6 DEF EmitterInv, Settled
<1>7. ASSUME NEW i \in DOMAIN conn, Driver(i) \/ Close(i) PROVE EmitterInv'
  <2>1. PICK before, after : /\ after \in {"up", "closed", "lost", "failed"}
                             /\ Moves(i, before, after)
                             /\ before = "pending" => after \in {"up", "failed"}
                             /\ before # "pending" =>
                                  before \in {"up", "closed"} /\ after # "failed"
                             /\ IF before = "pending" /\ after = "up" /\ emitter = 1
                                THEN heard' = heard + 1 ELSE heard' = heard
    BY <1>7, DriverMoves DEF Driver, Succeed, Fail, Close, Reconnect, GiveUp
  <2>2. UNCHANGED <<boot, emitter, overtaken>>
    BY <1>7 DEF Driver, Close, Succeed, Fail, Reconnect, GiveUp, To, vars
  <2>3. /\ Len(conn') = Len(conn) /\ conn'[i].state = after /\ conn[i].state = before
        /\ \A j \in 1 .. Len(conn) : j # i => conn'[j] = conn[j]
        /\ i \in 1 .. Len(conn) /\ conn # << >> /\ conn' # << >>
    BY <1>1, <2>1, MovesOne DEF Moves
  <2>4. CASE i = 1 /\ before = "pending"
    <3>1. heard = 0
      BY <2>3, <2>4 DEF EmitterInv, Settled
    <3>2. after = "up" /\ ~overtaken => heard' = 1
      BY <1>1, <2>1, <2>3, <2>4, <3>1 DEF EmitterInv
    <3>3. heard' \in {0, 1} /\ (heard' = 1 => after = "up")
      BY <2>1, <3>1
    <3> QED
      BY <2>1, <2>2, <2>3, <2>4, <3>2, <3>3 DEF EmitterInv, Settled
  <2>5. CASE ~(i = 1 /\ before = "pending")
    <3>1. heard' = heard
      BY <1>1, <2>1, <2>3, <2>5 DEF EmitterInv
    <3>2. 1 \in 1 .. Len(conn)
      BY <1>1, <1>2, <2>3
    <3>3. (Settled(1) <=> Settled(1)') /\ (conn'[1].state = "pending" => conn[1].state = "pending")
      BY <2>1, <2>3, <2>5, <3>2 DEF Settled
    <3> QED
      BY <2>2, <2>3, <3>1, <3>3 DEF EmitterInv
  <2> QED
    BY <2>4, <2>5
<1> QED
  BY <1>3, <1>4, <1>5, <1>6, <1>7 DEF ClientStep, GetConnection, OpenBucket, ClientStays, vars

\* What FlagTells rests on.  A collection is taken from a connection that has been up,
\* and as long as there is one connection alive that is the one that db stands for.
DatabaseInv ==
    /\ connected => \E i \in DOMAIN conn : conn[i].state = "up"
    /\ db # 0 => Settled(db)
    /\ \A r \in Repositories : collection[r] # 0 => Settled(collection[r])
    /\ ~doubled =>
         /\ \A i, j \in Alive : i = j
         /\ \A i \in DOMAIN conn :
              /\ conn[i].state = "up" => connected
              /\ conn[i].state \in {"up", "closed"} => db = i

\* Every step keeps it.
LEMMA DatabaseStep ==
    ASSUME ClientTypes, DatabaseInv, ClientStep
    PROVE  DatabaseInv'
<1>1. /\ DOMAIN conn = 1 .. Len(conn) /\ Len(conn) \in Nat
      /\ db \in 0 .. Len(conn) /\ collection \in [Repositories -> 0 .. Len(conn)]
      /\ \A i \in 1 .. Len(conn) : conn[i].for \in Repositories \cup {None}
      /\ \A i \in 1 .. Len(conn) :
           conn[i].state \in {"pending", "up", "closed", "lost", "failed"}
  BY DEF ClientTypes, BootTypeOK
<1>2. ASSUME StartServer PROVE DatabaseInv'
  <2>1. conn' = <<Fresh>> /\ NoClient
    BY <1>2 DEF StartServer
  <2>2. conn'[1].state = "pending" /\ DOMAIN conn' = {1}
    BY <2>1 DEF Fresh
  <2> QED
    BY <2>1, <2>2 DEF DatabaseInv, NoClient, Alive
<1>3. ASSUME CrashServer PROVE DatabaseInv'
  <2>1. conn' = << >> /\ NoClient
    BY <1>3 DEF CrashServer
  <2>2. DOMAIN conn' = {}
    BY <2>1
  <2> QED
    BY <2>1, <2>2 DEF DatabaseInv, NoClient, Alive
<1>4. ASSUME NEW r \in Repositories \cup {None}, ~connected, Connect(r) PROVE DatabaseInv'
  <2>1. /\ DOMAIN conn' = 1 .. (Len(conn) + 1)
        /\ conn'[Len(conn) + 1].state = "pending"
        /\ \A j \in 1 .. Len(conn) : conn'[j] = conn[j]
    <3>1. /\ Len(conn') = Len(conn) + 1 /\ DOMAIN conn' = 1 .. Len(conn')
          /\ conn'[Len(conn) + 1] = [for |-> r, state |-> "pending"]
          /\ \A j \in 1 .. Len(conn) : conn'[j] = conn[j]
      BY <1>4, ConnectsOne
    <3>2. [for |-> r, state |-> "pending"].state = "pending"
      OBVIOUS
    <3> QED
      BY <3>1, <3>2
  <2>2. UNCHANGED <<connected, db, collection>>
    BY <1>4 DEF Connect
  <2>3. /\ connected' => \E i \in DOMAIN conn' : conn'[i].state = "up"
        /\ db' # 0 => Settled(db)'
        /\ \A s \in Repositories : collection'[s] # 0 => Settled(collection[s])'
    BY <1>1, <1>4, <2>1, <2>2 DEF DatabaseInv, Settled
  <2>4. ASSUME ~doubled'
        PROVE  /\ \A i, j \in Alive' : i = j
               /\ \A i \in DOMAIN conn' : conn'[i].state \notin {"up", "closed"}
    <3>1. Alive = {}
      BY <1>4, <2>4 DEF Connect
    <3>2. \A i \in 1 .. Len(conn) : conn[i].state \notin {"pending", "up", "closed"}
      BY <1>1, <3>1 DEF Alive
    <3>3. \A i \in DOMAIN conn' : i # Len(conn) + 1 =>
            conn'[i].state \notin {"pending", "up", "closed"}
      BY <1>1, <2>1, <3>2
    <3> QED
      BY <2>1, <3>3 DEF Alive
  <2> QED
    BY <2>3, <2>4 DEF DatabaseInv
<1>5. ASSUME UNCHANGED <<conn, connected, db, doubled>>,
             collection' \in [Repositories -> 0 .. Len(conn)],
             \A r \in Repositories : collection'[r] \in {collection[r], db}
      PROVE  DatabaseInv'
  BY <1>5 DEF DatabaseInv, Settled, Alive
<1>6. ASSUME NEW r \in Repositories \cup {None}, GetConnection(r), connected
      PROVE  DatabaseInv'
  BY <1>1, <1>5, <1>6 DEF GetConnection
<1>7. ASSUME OpenBucket PROVE DatabaseInv'
  BY <1>1, <1>5, <1>7, BootAssumption DEF OpenBucket
<1>8. ASSUME ClientStays PROVE DatabaseInv'
  BY <1>1, <1>5, <1>8 DEF ClientStays
<1>9. ASSUME NEW i \in DOMAIN conn, Driver(i) \/ Close(i) PROVE DatabaseInv'
  <2>1. PICK before, after : /\ before \in {"pending", "up", "closed"}
                             /\ after \in {"up", "closed", "lost", "failed"}
                             /\ before # "pending" => after # "failed"
                             /\ Moves(i, before, after)
    BY <1>9, DriverMoves DEF Driver
  <2>2. /\ DOMAIN conn' = DOMAIN conn /\ i \in 1 .. Len(conn)
        /\ conn[i].state = before /\ conn'[i].state = after
        /\ \A j \in 1 .. Len(conn) : j # i => conn'[j] = conn[j]
    <3>1. /\ conn' \in Seq(Connection) /\ Len(conn') = Len(conn)
          /\ i \in 1 .. Len(conn)
          /\ conn'[i].state = after
          /\ \A j \in 1 .. Len(conn) : j # i => conn'[j] = conn[j]
      BY <2>1, MovesOne
    <3>2. DOMAIN conn' = 1 .. Len(conn')
      BY <3>1
    <3> QED
      BY <1>1, <2>1, <3>1, <3>2 DEF Moves
  <2>3. doubled' = doubled
    BY <1>9 DEF Driver, Succeed, Fail, Close, Reconnect, GiveUp, To
  <2>4. \A j \in 1 .. Len(conn) : Settled(j) => Settled(j)'
    BY <2>1, <2>2 DEF Settled
  <2>5. i \in Alive /\ Alive' \subseteq Alive
    BY <1>1, <2>1, <2>2 DEF Alive
  <2>6. CASE Succeed(i)
    <3>1. db' = i /\ connected' /\ conn'[i].state = "up" /\ Settled(i)'
      BY <2>2, <2>6, DriverMoves, MovesOne DEF Succeed, Settled
    <3>2. \A r \in Repositories : collection'[r] \in {collection[r], i}
      BY <1>1, <2>6 DEF Succeed
    <3>3. \A r \in Repositories : collection'[r] # 0 => Settled(collection[r])'
      BY <1>1, <2>4, <3>1, <3>2 DEF DatabaseInv
    <3>4. ~doubled => \A j \in DOMAIN conn : j # i =>
                        conn'[j].state \notin {"up", "closed"}
      BY <1>1, <2>2, <2>5 DEF DatabaseInv, Alive
    <3> QED
      BY <2>2, <2>3, <2>5, <3>1, <3>3, <3>4 DEF DatabaseInv
  <2>7. ASSUME UNCHANGED <<db, collection>>
        PROVE  /\ db' # 0 => Settled(db)'
               /\ \A r \in Repositories : collection'[r] # 0 => Settled(collection[r])'
    BY <1>1, <2>4, <2>7 DEF DatabaseInv
  <2>8. CASE Fail(i) \/ GiveUp(i)
    <3>1. UNCHANGED <<connected, db, collection>> /\ after \notin {"up", "closed"}
          /\ before # "up"
      BY <1>1, <2>1, <2>2, <2>8, DriverMoves, MovesOne DEF Fail, GiveUp, Moves
    <3> QED
      BY <1>1, <2>2, <2>3, <2>5, <2>7, <3>1 DEF DatabaseInv
  <2>9. CASE Close(i) \/ Reconnect(i)
    <3>1. UNCHANGED <<db, collection>> /\ before \in {"up", "closed"}
      BY <2>2, <2>9, DriverMoves DEF Close, Reconnect, Moves
    <3>2. ~doubled => db = i /\ \A j \in DOMAIN conn : j # i =>
                                  conn'[j].state \notin {"up", "closed"}
      BY <1>1, <2>2, <2>5, <3>1 DEF DatabaseInv, Alive
    <3>3. CASE Close(i)
      <4>1. connected' = FALSE /\ after = "closed"
        BY <2>2, <3>3, DriverMoves, MovesOne DEF Close
      <4> QED
        BY <1>1, <2>2, <2>3, <2>5, <2>7, <3>1, <3>2, <4>1 DEF DatabaseInv
    <3>4. CASE Reconnect(i)
      <4>1. connected' /\ after = "up"
        BY <2>2, <3>4, DriverMoves, MovesOne DEF Reconnect
      <4> QED
        BY <1>1, <2>2, <2>3, <2>5, <2>7, <3>1, <3>2, <4>1 DEF DatabaseInv
    <3> QED
      BY <2>9, <3>3, <3>4
  <2> QED
    BY <1>9, <2>6, <2>8, <2>9 DEF Driver
<1> QED
  BY <1>2, <1>3, <1>4, <1>6, <1>7, <1>8, <1>9 DEF ClientStep, GetConnection

\* The types hold for ever, and so does what is said of the client.
LEMMA ClientInvariant ==
    BootSpec => [](TypeInv /\ ClientTypes /\ EmitterInv /\ DatabaseInv)
<1>1. BootInit => TypeInv /\ ClientTypes /\ EmitterInv /\ DatabaseInv
  <2> SUFFICES ASSUME BootInit PROVE TypeInv /\ ClientTypes /\ EmitterInv /\ DatabaseInv
    OBVIOUS
  <2>1. TypeInv
    BY InitTypes DEF BootInit
  <2>2. conn = << >> /\ Len(conn) = 0 /\ DOMAIN conn = {} /\ conn \in Seq(Connection)
    BY DEF BootInit
  <2>3. plan \in Plans /\ heard = 0 /\ db = 0 /\ emitter = 0 /\ check = 0 /\ boot = 0
    BY DEF BootInit, Init
  <2>4. collection = [r \in Repositories |-> 0] /\ connected = FALSE
    BY DEF BootInit
  <2>5. 0 .. Len(conn) = {0}
    BY <2>2
  <2>6. collection \in [Repositories -> 0 .. Len(conn)] /\ connected \in BOOLEAN
    BY <2>4, <2>5
  <2>7. ClientTypes
    BY <2>2, <2>3, <2>5, <2>6 DEF ClientTypes, BootTypeOK
  <2>8. EmitterInv
    BY <2>2, <2>3 DEF EmitterInv
  <2>9. DatabaseInv
    BY <2>2, <2>3, <2>4 DEF DatabaseInv, Alive
  <2> QED
    BY <2>1, <2>7, <2>8, <2>9
<1>2. TypeInv /\ ClientTypes /\ EmitterInv /\ DatabaseInv /\ [BootNext]_bootVars
        => (TypeInv /\ ClientTypes /\ EmitterInv /\ DatabaseInv)'
  BY FileSteps, TypeStep, ClientSteps, ClientTypeStep, EmitterStep, DatabaseStep
     DEF TypeInv, ClientTypes
<1> QED
  BY <1>1, <1>2, PTL DEF BootSpec

\* The types of the file, the client, and the handlers.
THEOREM BootTypeCorrect == BootSpec => [](TypeOK /\ BootTypeOK)
<1>1. TypeInv /\ ClientTypes => TypeOK /\ BootTypeOK
  BY DEF TypeInv, ClientTypes
<1> QED
  BY <1>1, ClientInvariant, PTL

\* The listeners that migrate the database and create the indexes hear of the database
\* at most once in a start; and once when it is there, unless a second connection has been
\* asked for before the first was there.
THEOREM ListenersHearOnce == BootSpec => []HeardOnce
<1>1. EmitterInv => HeardOnce
  BY DEF EmitterInv, HeardOnce, Settled
<1> QED
  BY <1>1, ClientInvariant, PTL

\* The flag says that the database is there only when a connection is up; and as long as
\* there has not been a second connection beside the first, whenever one is, and all
\* collections are of that connection, but for those of connections that are lost.
THEOREM FlagIsTrue == BootSpec => []FlagTells
<1>1. ASSUME ClientTypes, DatabaseInv PROVE FlagTells
  <2>1. /\ DOMAIN conn = 1 .. Len(conn)
        /\ collection \in [Repositories -> 0 .. Len(conn)]
        /\ \A i \in 1 .. Len(conn) :
             conn[i].state \in {"pending", "up", "closed", "lost", "failed"}
    BY <1>1 DEF ClientTypes, BootTypeOK
  <2>2. ASSUME ~doubled, NEW r \in Repositories, collection[r] # 0,
               conn[collection[r]].state # "lost"
        PROVE  collection[r] = db
    BY <1>1, <2>1, <2>2 DEF DatabaseInv, Settled
  <2> QED
    BY <1>1, <2>2 DEF DatabaseInv, FlagTells
<1> QED
  BY <1>1, ClientInvariant, PTL

--------------------------------------------------------------------------------
\* The theorems about the file.

\* Until a request begins before the check has done with the file.
FileInv == TypeInv /\ (~stored.early => TurnInv /\ KeyInv)

\* What is said of the file holds for ever up to there.
LEMMA FileInvariant == BootSpec => []FileInv
<1>1. BootInit => FileInv
  <2> SUFFICES ASSUME Init PROVE TypeInv /\ TurnInv /\ KeyInv
    BY DEF BootInit, FileInv
  <2>1. TypeInv
    BY InitTypes
  <2>2. TurnInv /\ KeyInv
    BY StateAssumption DEF Init, TurnInv, KeyInv, Busy, Idle, Good, HasKey, Handlers
  <2> QED
    BY <2>1, <2>2
<1>2. FileInv /\ BootTypeOK /\ [BootNext]_bootVars => FileInv'
  <2> SUFFICES ASSUME FileInv, BootTypeOK, [BootNext]_bootVars PROVE FileInv'
    OBVIOUS
  <2>1. FileStep
    BY FileSteps
  <2>2. TypeInv'
    BY <2>1, TypeStep DEF FileInv
  <2>3. stored.early => stored'.early
    BY <2>1, EarlyStays DEF FileInv
  <2>4. ASSUME ~stored'.early PROVE TurnInv' /\ KeyInv'
    BY <2>1, <2>3, <2>4, TurnStep, KeyStep DEF FileInv
  <2> QED
    BY <2>2, <2>4 DEF FileInv
<1> QED
  BY <1>1, <1>2, ClientInvariant, PTL DEF BootSpec, ClientTypes

\* A built-in account is created only when its key is safe, as long as no settings are
\* changed while a check has not done with the file.
THEOREM AccountKeySafe == BootSpec => []AccountKeyStored
<1>1. FileInv => AccountKeyStored
  BY DEF FileInv, KeyInv, AccountKeyStored
<1> QED
  BY <1>1, FileInvariant, PTL

\* With the same exception a node keeps its identity, whenever its process dies and
\* however often it starts: a check writes only while no complete file has had a key,
\* and a request writes the last one again.
THEOREM IdentityKept == BootSpec => KeyKept
<1> DEFINE Keeps == file' \notin {Absent, Broken} /\ stored.last # None /\ ~stored.early
                      => file'.key = stored.last
<1>1. ASSUME FileInv, BootTypeOK, [BootNext]_bootVars
      PROVE  [Keeps]_vars
  <2> SUFFICES ASSUME ~stored.early PROVE [Keeps]_vars
    OBVIOUS
  <2>1. FileStep /\ TypeInv /\ TurnInv /\ KeyInv
    BY <1>1, FileSteps DEF FileInv
  <2>2. ASSUME NEW h \in Handlers, Fill(h) PROVE Keeps
    BY <2>1, <2>2, StateAssumption
       DEF Fill, KeyInv, TurnInv, Busy, Idle, Checking, Handlers
  <2>3. ASSUME NEW h \in Handlers, Truncate(h) PROVE Keeps
    BY <2>3 DEF Truncate
  <2>4. CASE UNCHANGED file
    BY <2>1, <2>4 DEF KeyInv, Good
  <2> QED
    BY <2>1, <2>2, <2>3, <2>4
       DEF FileStep, Start, Crash, StartRequest, ReadAddress, ReadForKey, ProbeAccount,
           CreateAccount, Dies, ReadForSettings, vars
<1> QED
  BY <1>1, FileInvariant, ClientInvariant, PTL DEF BootSpec, KeyKept, ClientTypes
================================================================================
