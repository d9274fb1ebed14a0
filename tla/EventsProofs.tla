----------------------------- MODULE EventsProofs -----------------------------
(***************************************************************************)
(* Theorems about Events: its types, and that the keys of organizations,   *)
(* the items sealed with them and what is answered to readers agree, for   *)
(* any number of handlers, organizations and events.                       *)
(***************************************************************************)
EXTENDS Events, TLAPS

Labels == [createOrganization |-> {"co_id", "co_insert"}, migrate |-> {"mg_open", "mg_key"},
           createAsset |-> {"as_asset", "as_insert"},
           createEvent |-> {"ev_asset", "ev_event", "ev_seal", "ev_insert"},
           getEvent |-> {"ge_event", "ge_open"}]

\* What the labels of a handler say of its local state.
LocalInv ==
    \A h \in Handlers :
        /\ pc[h] # "idle" => input[h] \in Inputs
        /\ pc[h] \notin Idle => pc[h] \in Labels[input[h].op]
        /\ pc[h] = "co_insert" => organization[h] \in Identifiers
        /\ found[h] # None => pc[h] \in {"ge_open", "done", "failed"}
        /\ pc[h] = "ge_open" => found[h] \in Event /\ Len(data[h]) < Len(found[h].data)

TypeInv == TypeOK /\ LocalInv

Actions(h) ==
    \/ Start(h) \/ Abort(h)
    \/ TakeIdentifier(h) \/ InsertOrganization(h)
    \/ OpenCursor(h) \/ MigrateOrganization(h) \/ EndMigration(h)
    \/ CheckAssetIsNew(h) \/ InsertAsset(h)
    \/ CheckAssetExists(h) \/ CheckEventIsNew(h) \/ SealItem(h) \/ InsertEvent(h)
    \/ ReadEvent(h) \/ OpenItem(h)

USE DEF Idle

--------------------------------------------------------------------------------
(* Creators and keys have their types where they are used. *)
LEMMA CreatorType ==
    ASSUME TypeInv, NEW h \in Handlers, pc[h] \in Labels.createEvent
    PROVE  /\ input[h] \in Inputs /\ input[h] \in Input /\ input[h].op = "createEvent"
           /\ Creators(h) \in Identifiers
<1>1. input[h] \in Inputs /\ pc[h] \in Labels[input[h].op]
  BY DEF TypeInv, LocalInv, Labels
<1>2. input[h] \in Input
  BY <1>1, InputsAssumption
<1>3. input[h].op = "createEvent"
  BY <1>1, <1>2 DEF Labels, Input, Op
<1>4. input[h].user # None
  BY <1>1, <1>3, InputsAssumption DEF UserOp
<1> QED
  BY <1>1, <1>2, <1>3, <1>4, UsersAssumption DEF Creators, Input

LEMMA ClearType ==
    ASSUME NEW n \in Nat
    PROVE  ClearData(n) \in Seq(Item) /\ Len(ClearData(n)) = n
BY DEF ClearData, Item, Plain

LEMMA WithholdType ==
    ASSUME NEW items \in Seq(Item)
    PROVE  /\ Withhold(items) \in Seq(Item)
           /\ DOMAIN Withhold(items) = DOMAIN items
           /\ \A i \in DOMAIN items : items[i].kind # "clear" => Withhold(items)[i].kind # "clear"
<1>1. \A i \in DOMAIN items : items[i] \in Item /\ Plain("withheld") \in Item
  BY DEF Item, Plain
<1> QED
  BY <1>1 DEF Withhold, Plain

(* The initial state has its types. *)
LEMMA TypeInit == Init => TypeInv
<1> SUFFICES ASSUME Init PROVE TypeInv
  OBVIOUS
<1>1. keys \in [Identifiers -> Key \cup {None}]
  BY OrganizationsAssumption DEF Init, Key
<1>2. assets \subseteq Asset
  BY InputsAssumption DEF Init, Asset
<1>3. TypeOK
  BY <1>1, <1>2, OrganizationsAssumption DEF Init, TypeOK, PC
<1> QED
  BY <1>3 DEF TypeInv, LocalInv, Init

(* The collections keep their types, whichever handler writes to them. *)
LEMMA TypeStepOfKeys ==
    ASSUME TypeInv, StoreKey \/ LoseKey
    PROVE  TypeInv'
<1>1. PICK k \in keyInserts :
          /\ keyInserts' = keyInserts \ {k}
          /\ \/ /\ keys' = [keys EXCEPT ![k.organizationId] = IF @ = None THEN k.key ELSE @]
                /\ lostKeys' = lostKeys
             \/ /\ keys' = keys
                /\ lostKeys' = lostKeys \cup {k.organizationId}
          /\ UNCHANGED <<organizations, count, assets, events, pc, input, local>>
  BY DEF StoreKey, LoseKey
<1>2. k.organizationId \in Identifiers /\ k.key \in Key
  BY DEF TypeInv, TypeOK, KeyInsert
<1>3. TypeOK'
  BY <1>1, <1>2 DEF TypeInv, TypeOK, local
<1> QED
  BY <1>1, <1>3 DEF TypeInv, LocalInv, local

LEMMA TypeStepOfHandler ==
    ASSUME TypeInv, NEW h \in Handlers, Actions(h)
    PROVE  TypeInv'
<1> USE DEF TypeInv
<1>1. CASE Start(h)
  <2>1. PICK i \in Inputs : input' = [input EXCEPT ![h] = i] /\ Continue(h, Entry[i.op])
    BY <1>1 DEF Start
  <2>2. i.op \in Op
    BY InputsAssumption DEF Input
  <2>3. Entry[i.op] \in PC \ (Idle \cup {"co_insert", "ge_open"}) /\ Entry[i.op] \in Labels[i.op]
    BY <2>2 DEF Entry, Op, PC, Labels
  <2>4. TypeOK'
    BY <1>1, <2>1, <2>3 DEF Start, Continue, TypeOK, local
  <2> QED
    BY <1>1, <2>1, <2>3, <2>4 DEF Start, Continue, TypeOK, LocalInv, local
<1>2. CASE Abort(h)
  BY <1>2 DEF Abort, Continue, TypeOK, LocalInv, local, PC
<1>3. CASE TakeIdentifier(h)
  <2>1. count' \in Identifiers /\ [organizationId |-> count', key |-> <<h, count'>>] \in KeyInsert
    BY <1>3, NoneAssumption DEF TakeIdentifier, Key, KeyInsert
  <2>2. TypeOK'
    BY <1>3, <2>1 DEF TakeIdentifier, Continue, TypeOK, PC
  <2>3. input[h] \in Inputs /\ input[h].op = "createOrganization"
    BY <1>3, InputsAssumption DEF TakeIdentifier, LocalInv, Labels, Input, Op
  <2> QED
    BY <1>3, <2>1, <2>2, <2>3 DEF TakeIdentifier, Continue, TypeOK, LocalInv, Labels
<1>4. CASE InsertOrganization(h)
  BY <1>4 DEF InsertOrganization, Continue, TypeOK, LocalInv, local, PC
<1>5. CASE OpenCursor(h)
  <2>1. input[h] \in Inputs /\ input[h].op = "migrate"
    BY <1>5, InputsAssumption DEF OpenCursor, LocalInv, Labels, Input, Op
  <2>2. TypeOK'
    BY <1>5 DEF OpenCursor, Continue, TypeOK, PC
  <2> QED
    BY <1>5, <2>1, <2>2 DEF OpenCursor, Continue, TypeOK, LocalInv, Labels
<1>6. CASE MigrateOrganization(h)
  <2>1. PICK o \in todo[h] \cap organizations :
            /\ todo' = [todo EXCEPT ![h] = @ \ {o}]
            /\ keyInserts' = keyInserts \cup
                  (IF keys[o] = None THEN {[organizationId |-> o, key |-> <<h, o>>]} ELSE {})
    BY <1>6 DEF MigrateOrganization
  <2>2. [organizationId |-> o, key |-> <<h, o>>] \in KeyInsert
    BY <1>6, NoneAssumption DEF TypeOK, Key, KeyInsert
  <2>3. TypeOK'
    BY <1>6, <2>1, <2>2 DEF MigrateOrganization, TypeOK
  <2> QED
    BY <1>6, <2>3 DEF MigrateOrganization, LocalInv
<1>7. CASE EndMigration(h)
  BY <1>7 DEF EndMigration, Continue, TypeOK, LocalInv, local, PC
<1>8. CASE CheckAssetIsNew(h)
  <2>1. input[h] \in Inputs /\ input[h].op = "createAsset"
    BY <1>8, InputsAssumption DEF CheckAssetIsNew, LocalInv, Labels, Input, Op
  <2> QED
    BY <1>8, <2>1 DEF CheckAssetIsNew, Continue, TypeOK, LocalInv, local, PC, Labels
<1>9. CASE InsertAsset(h)
  <2>1. [_id |-> h, assetId |-> input[h].assetId] \in Asset
    BY <1>9, InputsAssumption DEF InsertAsset, LocalInv, Input, Asset
  <2> QED
    BY <1>9, <2>1 DEF InsertAsset, Continue, TypeOK, LocalInv, local, PC
<1>10. CASE CheckAssetExists(h)
  <2>1. input[h].op = "createEvent"
    BY <1>10, CreatorType DEF CheckAssetExists, Labels
  <2> QED
    BY <1>10, <2>1 DEF CheckAssetExists, Continue, TypeOK, LocalInv, local, PC, Labels
<1>11. CASE CheckEventIsNew(h)
  <2>1. input[h].op = "createEvent" /\ input[h].items \in Nat
    BY <1>11, CreatorType DEF CheckEventIsNew, Labels, Input
  <2>2. data' \in [Handlers -> Seq(Item)]
    <3>1. \/ data' = data
          \/ data' = [data EXCEPT ![h] = << >>]
          \/ data' = [data EXCEPT ![h] = ClearData(input[h].items)]
      BY <1>11 DEF CheckEventIsNew
    <3>2. ClearData(input[h].items) \in Seq(Item) /\ << >> \in Seq(Item)
      BY <2>1, ClearType
    <3> QED
      BY <3>1, <3>2 DEF TypeOK
  <2>3. \A g \in Handlers \ {h} : data'[g] = data[g] /\ pc'[g] = pc[g]
    BY <1>11 DEF CheckEventIsNew, Continue, TypeOK
  <2>4. pc' \in [Handlers -> PC] /\ pc'[h] \in {"failed", "ev_seal", "ev_insert"}
    BY <1>11 DEF CheckEventIsNew, Continue, TypeOK, PC
  <2>5. TypeOK'
    BY <1>11, <2>2, <2>4 DEF CheckEventIsNew, TypeOK
  <2>6. UNCHANGED <<input, organization, found>> /\ pc[h] = "ev_event"
    BY <1>11 DEF CheckEventIsNew
  <2> QED
    BY <2>1, <2>3, <2>4, <2>5, <2>6 DEF LocalInv, Labels
<1>12. CASE SealItem(h)
  <2>1. input[h].op = "createEvent" /\ Creators(h) \in Identifiers
    BY <1>12, CreatorType DEF SealItem, Labels
  <2> DEFINE key == keys[Creators(h)]
             item == IF key = None THEN Plain("lost") ELSE [kind |-> "sealed", key |-> key]
  <2>2. item \in Item
    BY <2>1 DEF TypeOK, Item, Plain
  <2>3. data' = [data EXCEPT ![h] = Append(@, item)]
    BY <1>12 DEF SealItem
  <2>4. data' \in [Handlers -> Seq(Item)]
    BY <2>2, <2>3 DEF TypeOK
  <2>5. pc' \in [Handlers -> PC] /\ pc'[h] \in {"ev_seal", "ev_insert"}
    BY <1>12 DEF SealItem, Continue, TypeOK, PC
  <2>6. \A g \in Handlers \ {h} : data'[g] = data[g] /\ pc'[g] = pc[g]
    BY <1>12 DEF SealItem, Continue, TypeOK
  <2>7. TypeOK'
    BY <1>12, <2>4, <2>5 DEF SealItem, TypeOK
  <2>8. UNCHANGED <<input, organization, found>> /\ pc[h] = "ev_seal"
    BY <1>12 DEF SealItem
  <2> QED
    BY <2>1, <2>5, <2>6, <2>7, <2>8 DEF LocalInv, Labels
<1>13. CASE InsertEvent(h)
  <2>1. input[h] \in Input /\ Creators(h) \in Identifiers
    BY <1>13, CreatorType DEF InsertEvent, Labels
  <2>2. events' \subseteq Event
    BY <1>13, <2>1 DEF InsertEvent, TypeOK, Event, Input
  <2>3. TypeOK'
    BY <1>13, <2>2 DEF InsertEvent, Continue, TypeOK, local, PC
  <2> QED
    BY <1>13, <2>3 DEF InsertEvent, Continue, TypeOK, LocalInv, local
<1>14. CASE ReadEvent(h)
  <2>1. input[h] \in Inputs /\ input[h].op = "getEvent"
    BY <1>14, InputsAssumption DEF ReadEvent, LocalInv, Labels, Input, Op
  <2>2. CASE EventsWith(input[h].eventId) = {}
    BY <1>14, <2>2 DEF ReadEvent, Continue, TypeOK, LocalInv, PC
  <2>3. CASE EventsWith(input[h].eventId) # {}
    <3> DEFINE Opening(e) == /\ MayRead(input[h].user, e)
                             /\ \E i \in DOMAIN e.data : e.data[i].kind # "clear"
    <3>1. PICK e \in EventsWith(input[h].eventId) :
              /\ found' = [found EXCEPT ![h] = e]
              /\ data' = [data EXCEPT ![h] = IF Opening(e) THEN << >> ELSE Withhold(e.data)]
              /\ Continue(h, IF Opening(e) THEN "ge_open" ELSE "done")
      BY <1>14, <2>3 DEF ReadEvent
    <3>2. e \in Event /\ e.data \in Seq(Item)
      BY DEF EventsWith, TypeOK, Event
    <3>3. Withhold(e.data) \in Seq(Item)
      BY <3>2, WithholdType
    <3>4. data' \in [Handlers -> Seq(Item)] /\ found' \in [Handlers -> Event \cup {None}]
      BY <3>1, <3>2, <3>3 DEF TypeOK
    <3>5. pc' \in [Handlers -> PC] /\ pc'[h] = IF Opening(e) THEN "ge_open" ELSE "done"
      BY <3>1 DEF Continue, TypeOK, PC
    <3>6. \A g \in Handlers \ {h} : data'[g] = data[g] /\ pc'[g] = pc[g] /\ found'[g] = found[g]
      BY <3>1 DEF Continue, TypeOK
    <3>7. UNCHANGED <<input, organization>>
      BY <1>14 DEF ReadEvent
    <3>8. TypeOK'
      BY <1>14, <3>4, <3>5 DEF ReadEvent, TypeOK
    <3>9. Opening(e) => Len(data'[h]) < Len(e.data)
      <4> SUFFICES ASSUME Opening(e) PROVE Len(data'[h]) < Len(e.data)
        OBVIOUS
      <4>1. data'[h] = << >>
        BY <3>1 DEF TypeOK
      <4>2. Len(e.data) # 0
        BY <3>2
      <4> QED
        BY <3>2, <4>1, <4>2
    <3>10. found'[h] = e
      BY <3>1 DEF TypeOK
    <3> QED
      BY <2>1, <3>2, <3>5, <3>6, <3>7, <3>8, <3>9, <3>10 DEF LocalInv, Labels
  <2> QED
    BY <2>2, <2>3
<1>15. CASE OpenItem(h)
  <2>1. /\ pc[h] = "ge_open" /\ input[h] \in Inputs /\ input[h].op = "getEvent"
        /\ found[h] \in Event /\ found[h].data \in Seq(Item) /\ data[h] \in Seq(Item)
        /\ Len(data[h]) < Len(found[h].data)
    <3>1. pc[h] = "ge_open" /\ input[h] \in Inputs /\ pc[h] \in Labels[input[h].op]
      BY <1>15 DEF OpenItem, LocalInv
    <3>2. input[h].op = "getEvent"
      BY <3>1, InputsAssumption DEF Labels, Input, Op
    <3>3. /\ found[h] \in Event /\ data[h] \in Seq(Item)
          /\ Len(data[h]) < Len(found[h].data)
      BY <3>1 DEF LocalInv, TypeOK
    <3> QED
      BY <3>1, <3>2, <3>3 DEF Event
  <2>2. UNCHANGED <<organizations, keys, count, keyInserts, lostKeys, assets, events, input,
                    organization, found, todo>>
    BY <1>15 DEF OpenItem
  <2>3. CASE data' = [data EXCEPT ![h] = Append(@, Plain("clear"))]
             /\ Continue(h, IF Len(data[h]) + 1 = Len(found[h].data) THEN "done" ELSE "ge_open")
    <3>1. data' \in [Handlers -> Seq(Item)] /\ Len(data'[h]) = Len(data[h]) + 1
      BY <2>1, <2>3 DEF TypeOK, Item, Plain
    <3>2. /\ pc' \in [Handlers -> PC]
          /\ pc'[h] = IF Len(data[h]) + 1 = Len(found[h].data) THEN "done" ELSE "ge_open"
      BY <2>3 DEF Continue, TypeOK, PC
    <3>3. \A g \in Handlers \ {h} : data'[g] = data[g] /\ pc'[g] = pc[g]
      BY <2>3 DEF Continue, TypeOK
    <3>4. TypeOK'
      BY <2>2, <3>1, <3>2 DEF TypeOK
    <3> QED
      BY <2>1, <2>2, <3>1, <3>2, <3>3, <3>4 DEF LocalInv, Labels
  <2>4. CASE Continue(h, "failed") /\ UNCHANGED data
    BY <2>1, <2>2, <2>4 DEF Continue, TypeOK, LocalInv, PC
  <2> QED
    BY <1>15, <2>3, <2>4 DEF OpenItem
<1> QED
  BY <1>1, <1>2, <1>3, <1>4, <1>5, <1>6, <1>7, <1>8, <1>9, <1>10, <1>11, <1>12, <1>13,
     <1>14, <1>15 DEF Actions

LEMMA TypeStep == TypeInv /\ [Next]_vars => TypeInv'
<1> SUFFICES ASSUME TypeInv, [Next]_vars PROVE TypeInv'
  OBVIOUS
<1>1. CASE UNCHANGED vars
  BY <1>1 DEF vars, local, TypeInv, TypeOK, LocalInv
<1>2. CASE Next
  BY <1>2, TypeStepOfKeys, TypeStepOfHandler DEF Next, Actions
<1> QED
  BY <1>1, <1>2

(* The collections and the handlers keep their types, whatever requests the      *)
(* handlers serve and in whatever order.                                         *)
THEOREM TypeCorrect == Spec => []TypeOK
<1>1. TypeInv => TypeOK
  BY DEF TypeInv
<1> QED
  BY <1>1, TypeInit, TypeStep, PTL DEF Spec

--------------------------------------------------------------------------------
(* Sealed data.  Between an item and its event's insertion the key may not change either. *)
KeyInv ==
    /\ SealedStaysReadable
    /\ \A h \in Handlers : pc[h] \in {"ev_seal", "ev_insert"} =>
          \A i \in DOMAIN data[h] :
              data[h][i].kind = "sealed" => keys[Creators(h)] = data[h][i].key

(* A key, once there, is never replaced: this is the unique index. *)
LEMMA KeysKept ==
    ASSUME TypeInv, [Next]_vars, NEW o \in Identifiers, keys[o] # None
    PROVE  keys'[o] = keys[o]
<1>1. CASE StoreKey
  <2>1. PICK k \in keyInserts :
            keys' = [keys EXCEPT ![k.organizationId] = IF @ = None THEN k.key ELSE @]
    BY <1>1 DEF StoreKey
  <2> QED
    BY <2>1 DEF TypeInv, TypeOK
<1>2. CASE UNCHANGED keys
  BY <1>2
<1>3. StoreKey \/ UNCHANGED keys
  BY DEF Next, vars, LoseKey, Start, Abort, TakeIdentifier, InsertOrganization, OpenCursor,
     MigrateOrganization, EndMigration, CheckAssetIsNew, InsertAsset, CheckAssetExists,
     CheckEventIsNew, SealItem, InsertEvent, ReadEvent, OpenItem
<1> QED
  BY <1>1, <1>2, <1>3

(* Only these steps touch an event, or what is sealed for one. *)
LEMMA SealedWrites ==
    ASSUME TypeInv, [Next]_vars
    PROVE  /\ UNCHANGED events \/ \E h \in Handlers : InsertEvent(h)
           /\ \A g \in Handlers :
                 \/ CheckEventIsNew(g) \/ SealItem(g)
                 \/ pc'[g] \notin {"ev_seal", "ev_insert"}
                 \/ pc'[g] = pc[g] /\ data'[g] = data[g] /\ input'[g] = input[g]
<1>1. CASE UNCHANGED vars
  BY <1>1 DEF vars, local
<1>2. CASE StoreKey \/ LoseKey
  BY <1>2 DEF StoreKey, LoseKey, local
<1>3. ASSUME NEW h \in Handlers, Actions(h)
      PROVE  /\ UNCHANGED events \/ InsertEvent(h)
             /\ \A g \in Handlers :
                   \/ CheckEventIsNew(g) \/ SealItem(g)
                   \/ pc'[g] \notin {"ev_seal", "ev_insert"}
                   \/ pc'[g] = pc[g] /\ data'[g] = data[g] /\ input'[g] = input[g]
  <2>1. CASE Start(h)
    <3>1. PICK i \in Inputs : input' = [input EXCEPT ![h] = i] /\ Continue(h, Entry[i.op])
      BY <2>1 DEF Start
    <3>2. i.op \in Op
      BY InputsAssumption DEF Input
    <3>3. Entry[i.op] \notin {"ev_seal", "ev_insert"}
      BY <3>2 DEF Entry, Op
    <3> QED
      BY <2>1, <3>1, <3>3 DEF Start, Continue, TypeInv, TypeOK, local
  <2>2. CASE Abort(h) \/ TakeIdentifier(h) \/ InsertOrganization(h) \/ OpenCursor(h)
             \/ MigrateOrganization(h) \/ EndMigration(h)
    BY <2>2 DEF Abort, TakeIdentifier, InsertOrganization, OpenCursor, MigrateOrganization,
       EndMigration, Continue, TypeInv, TypeOK, local
  <2>3. CASE CheckAssetIsNew(h) \/ InsertAsset(h) \/ CheckAssetExists(h) \/ InsertEvent(h)
    BY <2>3 DEF CheckAssetIsNew, InsertAsset, CheckAssetExists, InsertEvent,
       Continue, TypeInv, TypeOK, local
  <2>4. CASE CheckEventIsNew(h) \/ SealItem(h)
    <3>1. \A g \in Handlers \ {h} : pc'[g] = pc[g] /\ data'[g] = data[g] /\ input'[g] = input[g]
      BY <2>4 DEF CheckEventIsNew, SealItem, Continue, TypeInv, TypeOK
    <3> QED
      BY <2>4, <3>1 DEF CheckEventIsNew, SealItem
  <2>5. CASE ReadEvent(h) \/ OpenItem(h)
    <3>1. \A g \in Handlers \ {h} : pc'[g] = pc[g] /\ data'[g] = data[g] /\ input'[g] = input[g]
      BY <2>5 DEF ReadEvent, OpenItem, Continue, TypeInv, TypeOK
    <3>2. pc'[h] \notin {"ev_seal", "ev_insert"}
      BY <2>5 DEF ReadEvent, OpenItem, Continue, TypeInv, TypeOK
    <3> QED
      BY <2>5, <3>1, <3>2 DEF ReadEvent, OpenItem
  <2> QED
    BY <1>3, <2>1, <2>2, <2>3, <2>4, <2>5 DEF Actions
<1> QED
  BY <1>1, <1>2, <1>3 DEF Next, Actions

LEMMA KeyStep ==
    ASSUME TypeInv, KeyInv, [Next]_vars
    PROVE  KeyInv'
<1>1. TypeInv'
  BY TypeStep
<1>2. \A e \in events : \A i \in DOMAIN e.data :
          e.data[i].kind = "sealed" => keys'[e.organizationId] = e.data[i].key
  <2> SUFFICES ASSUME NEW e \in events, NEW i \in DOMAIN e.data, e.data[i].kind = "sealed"
               PROVE  keys'[e.organizationId] = e.data[i].key
    OBVIOUS
  <2>1. e.organizationId \in Identifiers /\ e.data[i] \in Item
    BY DEF TypeInv, TypeOK, Event
  <2>2. keys[e.organizationId] = e.data[i].key /\ e.data[i].key # None
    BY <2>1 DEF KeyInv, SealedStaysReadable, Item, Key
  <2> QED
    BY <2>1, <2>2, KeysKept
<1>3. ASSUME NEW h \in Handlers, pc[h] \in {"ev_seal", "ev_insert"},
             NEW i \in DOMAIN data[h], data[h][i].kind = "sealed"
      PROVE  keys'[Creators(h)] = data[h][i].key
  <2>1. Creators(h) \in Identifiers /\ data[h][i] \in Item
    BY <1>3, CreatorType DEF Labels, TypeInv, TypeOK
  <2>2. keys[Creators(h)] = data[h][i].key /\ data[h][i].key # None
    BY <1>3, <2>1 DEF KeyInv, Item, Key
  <2> QED
    BY <2>1, <2>2, KeysKept
<1>4. SealedStaysReadable'
  <2>1. CASE UNCHANGED events
    BY <1>2, <2>1 DEF SealedStaysReadable
  <2>2. ASSUME NEW h \in Handlers, InsertEvent(h) PROVE SealedStaysReadable'
    <3> DEFINE e == [_id |-> h, eventId |-> input[h].eventId, assetId |-> input[h].assetId,
                     level |-> input[h].level, organizationId |-> Creators(h), data |-> data[h]]
    <3>1. events' = events \cup {e}
      BY <2>2 DEF InsertEvent
    <3>2. pc[h] = "ev_insert"
      BY <2>2 DEF InsertEvent
    <3> QED
      BY <1>2, <1>3, <3>1, <3>2 DEF SealedStaysReadable
  <2> QED
    BY <2>1, <2>2, SealedWrites
<1>5. ASSUME NEW g \in Handlers, pc'[g] \in {"ev_seal", "ev_insert"},
             NEW i \in DOMAIN data'[g], data'[g][i].kind = "sealed"
      PROVE  keys'[Creators(g)'] = data'[g][i].key
  <2>1. CASE pc'[g] = pc[g] /\ data'[g] = data[g] /\ input'[g] = input[g]
    BY <1>3, <1>5, <2>1 DEF Creators
  <2>2. CASE CheckEventIsNew(g)
    <3>1. data'[g] = << >> \/ data'[g] = ClearData(input[g].items)
      <4>1. \/ Continue(g, "failed")
            \/ data' = [data EXCEPT ![g] = << >>]
            \/ data' = [data EXCEPT ![g] = ClearData(input[g].items)]
        BY <2>2 DEF CheckEventIsNew
      <4> QED
        BY <1>5, <4>1 DEF Continue, TypeInv, TypeOK
    <3>2. CASE data'[g] = << >>
      BY <1>5, <3>2
    <3>3. CASE data'[g] = ClearData(input[g].items)
      <4>1. DOMAIN data'[g] = 1 .. input[g].items /\ data'[g][i] = Plain("clear")
        BY <1>5, <3>3 DEF ClearData
      <4> QED
        BY <1>5, <4>1 DEF Plain
    <3> QED
      BY <3>1, <3>2, <3>3
  <2>3. CASE SealItem(g)
    <3> DEFINE key == keys[Creators(g)]
               item == IF key = None THEN Plain("lost") ELSE [kind |-> "sealed", key |-> key]
    <3>1. /\ pc[g] = "ev_seal" /\ Creators(g)' = Creators(g) /\ UNCHANGED keys
          /\ data'[g] = Append(data[g], item)
      BY <2>3 DEF SealItem, Creators, TypeInv, TypeOK
    <3>2. data[g] \in Seq(Item)
      BY DEF TypeInv, TypeOK
    <3>3. (i \in DOMAIN data[g] /\ data'[g][i] = data[g][i]) \/ data'[g][i] = item
      BY <1>5, <3>1, <3>2
    <3>4. item.kind = "sealed" => item.key = key
      BY DEF Plain
    <3> QED
      BY <1>3, <1>5, <3>1, <3>3, <3>4
  <2> QED
    BY <1>5, <2>1, <2>2, <2>3, SealedWrites
<1> QED
  BY <1>4, <1>5 DEF KeyInv

(* SealedStaysReadable: whatever migrations and creations race, the key that an  *)
(* event was sealed with stays the key of its organization.                      *)
THEOREM Readable == Spec => []SealedStaysReadable
<1>1. Init => KeyInv
  BY DEF Init, KeyInv, SealedStaysReadable
<1>2. TypeInv /\ KeyInv /\ [Next]_vars => KeyInv'
  BY KeyStep
<1>3. KeyInv => SealedStaysReadable
  BY DEF KeyInv
<1> QED
  BY <1>1, <1>2, <1>3, TypeInit, TypeStep, PTL DEF Spec

--------------------------------------------------------------------------------
(* Assets.  From the check on, the asset stays: no one deletes assets. *)
AssetInv ==
    /\ EventHasAsset
    /\ \A h \in Handlers :
          pc[h] \in {"ev_event", "ev_seal", "ev_insert"} => Exists(input[h].assetId)

LEMMA AssetStep ==
    ASSUME TypeInv, AssetInv, [Next]_vars
    PROVE  AssetInv'
<1>1. assets \subseteq assets'
  BY DEF Next, vars, StoreKey, LoseKey, Start, Abort, TakeIdentifier, InsertOrganization,
     OpenCursor, MigrateOrganization, EndMigration, CheckAssetIsNew, InsertAsset,
     CheckAssetExists, CheckEventIsNew, SealItem, InsertEvent, ReadEvent, OpenItem
<1>2. \A a : Exists(a) => Exists(a)'
  BY <1>1 DEF Exists
<1>3. EventHasAsset'
  <2>1. CASE UNCHANGED events
    BY <1>2, <2>1 DEF AssetInv, EventHasAsset, Exists
  <2>2. ASSUME NEW h \in Handlers, InsertEvent(h) PROVE EventHasAsset'
    <3> DEFINE e == [_id |-> h, eventId |-> input[h].eventId, assetId |-> input[h].assetId,
                     level |-> input[h].level, organizationId |-> Creators(h), data |-> data[h]]
    <3>1. events' = events \cup {e} /\ UNCHANGED assets /\ pc[h] = "ev_insert"
      BY <2>2 DEF InsertEvent
    <3> QED
      BY <3>1 DEF AssetInv, EventHasAsset, Exists
  <2> QED
    BY <2>1, <2>2, SealedWrites
<1>4. ASSUME NEW g \in Handlers, pc'[g] \in {"ev_event", "ev_seal", "ev_insert"}
      PROVE  Exists(input[g].assetId) /\ input'[g] = input[g]
  <2>1. CASE UNCHANGED vars
    BY <1>4, <2>1 DEF AssetInv, vars
  <2>2. CASE StoreKey \/ LoseKey
    BY <1>4, <2>2 DEF AssetInv, StoreKey, LoseKey
  <2>3. ASSUME NEW h \in Handlers, Actions(h)
        PROVE  Exists(input[g].assetId) /\ input'[g] = input[g]
    <3>1. CASE Start(h)
      <4>1. PICK i \in Inputs : input' = [input EXCEPT ![h] = i] /\ Continue(h, Entry[i.op])
        BY <3>1 DEF Start
      <4>2. i.op \in Op
        BY InputsAssumption DEF Input
      <4>3. Entry[i.op] \notin {"ev_event", "ev_seal", "ev_insert"}
        BY <4>2 DEF Entry, Op
      <4> QED
        BY <1>4, <4>1, <4>3 DEF Continue, TypeInv, TypeOK, AssetInv
    <3>2. CASE Abort(h) \/ TakeIdentifier(h) \/ InsertOrganization(h) \/ OpenCursor(h)
               \/ MigrateOrganization(h) \/ EndMigration(h)
      BY <1>4, <3>2 DEF Abort, TakeIdentifier, InsertOrganization, OpenCursor, AssetInv,
         MigrateOrganization, EndMigration, Continue, TypeInv, TypeOK
    <3>3. CASE CheckAssetIsNew(h) \/ InsertAsset(h) \/ CheckAssetExists(h) \/ InsertEvent(h)
      BY <1>4, <3>3 DEF CheckAssetIsNew, InsertAsset, CheckAssetExists, InsertEvent, AssetInv,
         Continue, TypeInv, TypeOK
    <3>4. CASE CheckEventIsNew(h) \/ SealItem(h) \/ ReadEvent(h) \/ OpenItem(h)
      <4>1. UNCHANGED input /\ \A f \in Handlers \ {h} : pc'[f] = pc[f]
        BY <3>4 DEF CheckEventIsNew, SealItem, ReadEvent, OpenItem, Continue, TypeInv, TypeOK
      <4>2. CASE g # h
        BY <1>4, <4>1, <4>2 DEF AssetInv
      <4>3. CASE g = h
        <5>1. ~ReadEvent(h) /\ ~OpenItem(h)
          BY <1>4, <4>3 DEF ReadEvent, OpenItem, Continue, TypeInv, TypeOK
        <5>2. pc[h] \in {"ev_event", "ev_seal"}
          BY <3>4, <5>1 DEF CheckEventIsNew, SealItem
        <5> QED
          BY <4>1, <4>3, <5>2 DEF AssetInv
      <4> QED
        BY <4>2, <4>3
    <3> QED
      BY <2>3, <3>1, <3>2, <3>3, <3>4 DEF Actions
  <2> QED
    BY <2>1, <2>2, <2>3 DEF Next, Actions
<1>5. ASSUME NEW g \in Handlers, pc'[g] \in {"ev_event", "ev_seal", "ev_insert"}
      PROVE  Exists(input[g].assetId)'
  BY <1>1, <1>4, <1>5 DEF Exists
<1> QED
  BY <1>3, <1>5 DEF AssetInv

(* EventHasAsset: no event without its asset, however the handlers interleave. *)
THEOREM AssetsThere == Spec => []EventHasAsset
<1>1. Init => AssetInv
  BY DEF Init, AssetInv, EventHasAsset
<1>2. TypeInv /\ AssetInv /\ [Next]_vars => AssetInv'
  BY AssetStep
<1>3. AssetInv => EventHasAsset
  BY DEF AssetInv
<1> QED
  BY <1>1, <1>2, <1>3, TypeInit, TypeStep, PTL DEF Spec

--------------------------------------------------------------------------------
(* The migration.  What the cursor is through with has a key, or one under way. *)
Keyed(o) == keys[o] # None \/ o \in lostKeys \/ \E k \in keyInserts : k.organizationId = o

Scanned ==
    \A h \in Handlers :
        /\ pc[h] = "mg_key" => \A o \in InitOrganizations \ todo[h] : Keyed(o)
        /\ pc[h] = "done" /\ input[h].op = "migrate" => \A o \in InitOrganizations : Keyed(o)

MigrationInv == InitOrganizations \subseteq organizations /\ Scanned

(* An insertion that is under way is stored, refused because there is a key, or lost. *)
LEMMA KeyedKept ==
    ASSUME TypeInv, [Next]_vars, NEW o \in Identifiers, Keyed(o)
    PROVE  Keyed(o)'
<1>1. CASE StoreKey
  <2>1. PICK k \in keyInserts :
            /\ keys' = [keys EXCEPT ![k.organizationId] = IF @ = None THEN k.key ELSE @]
            /\ keyInserts' = keyInserts \ {k}
            /\ lostKeys' = lostKeys
    BY <1>1 DEF StoreKey
  <2>2. k.key # None
    BY DEF TypeInv, TypeOK, KeyInsert, Key
  <2>3. CASE k.organizationId = o
    BY <2>1, <2>2, <2>3 DEF Keyed, TypeInv, TypeOK
  <2>4. CASE k.organizationId # o
    BY <2>1, <2>4 DEF Keyed, TypeInv, TypeOK
  <2> QED
    BY <2>3, <2>4
<1>2. CASE LoseKey
  BY <1>2 DEF LoseKey, Keyed
<1>3. CASE UNCHANGED <<keys, lostKeys>> /\ keyInserts \subseteq keyInserts'
  BY <1>3 DEF Keyed
<1>4. StoreKey \/ LoseKey \/ (UNCHANGED <<keys, lostKeys>> /\ keyInserts \subseteq keyInserts')
  BY DEF Next, vars, Start, Abort, TakeIdentifier, InsertOrganization, OpenCursor,
     MigrateOrganization, EndMigration, CheckAssetIsNew, InsertAsset, CheckAssetExists,
     CheckEventIsNew, SealItem, InsertEvent, ReadEvent, OpenItem
<1> QED
  BY <1>1, <1>2, <1>3, <1>4

LEMMA MigrationStepOfHandler ==
    ASSUME TypeInv, MigrationInv, NEW h \in Handlers, Actions(h),
           \A o \in InitOrganizations : Keyed(o) => Keyed(o)'
    PROVE  Scanned'
<1>1. Scanned /\ InitOrganizations \subseteq organizations
  BY DEF MigrationInv
<1>2. CASE Start(h)
  <2>1. PICK i \in Inputs : input' = [input EXCEPT ![h] = i] /\ Continue(h, Entry[i.op])
    BY <1>2 DEF Start
  <2>2. i.op \in Op
    BY InputsAssumption DEF Input
  <2>3. Entry[i.op] \notin {"mg_key", "done"}
    BY <2>2 DEF Entry, Op
  <2>4. pc'[h] \notin {"mg_key", "done"} /\ UNCHANGED todo
    BY <1>2, <2>1, <2>3 DEF Start, Continue, TypeInv, TypeOK, local
  <2>5. \A g \in Handlers \ {h} : pc'[g] = pc[g] /\ input'[g] = input[g]
    BY <2>1 DEF Continue, TypeInv, TypeOK
  <2> QED
    BY <1>1, <2>4, <2>5 DEF Scanned
<1>3. CASE OpenCursor(h)
  <2>1. pc'[h] = "mg_key" /\ organizations \subseteq todo'[h] /\ UNCHANGED input
    BY <1>3 DEF OpenCursor, Continue, TypeInv, TypeOK
  <2>2. \A g \in Handlers \ {h} : pc'[g] = pc[g] /\ todo'[g] = todo[g]
    BY <1>3 DEF OpenCursor, Continue, TypeInv, TypeOK
  <2> QED
    BY <1>1, <2>1, <2>2 DEF Scanned
<1>4. CASE MigrateOrganization(h)
  <2>1. PICK o \in todo[h] \cap organizations :
            /\ todo' = [todo EXCEPT ![h] = @ \ {o}]
            /\ keyInserts' = keyInserts \cup
                  (IF keys[o] = None THEN {[organizationId |-> o, key |-> <<h, o>>]} ELSE {})
    BY <1>4 DEF MigrateOrganization
  <2>2. Keyed(o)'
    <3>1. UNCHANGED keys
      BY <1>4 DEF MigrateOrganization
    <3>2. CASE keys[o] = None
      <4> DEFINE k == [organizationId |-> o, key |-> <<h, o>>]
      <4>1. k \in keyInserts' /\ k.organizationId = o
        BY <2>1, <3>2
      <4> QED
        BY <4>1 DEF Keyed
    <3>3. CASE keys[o] # None
      BY <3>1, <3>3 DEF Keyed
    <3> QED
      BY <3>2, <3>3
  <2>3. UNCHANGED <<pc, input>> /\ pc[h] = "mg_key"
    BY <1>4 DEF MigrateOrganization
  <2>4. todo'[h] = todo[h] \ {o} /\ \A g \in Handlers \ {h} : todo'[g] = todo[g]
    BY <2>1 DEF TypeInv, TypeOK
  <2> QED
    BY <1>1, <2>2, <2>3, <2>4 DEF Scanned
<1>5. CASE EndMigration(h)
  <2>1. \A o \in InitOrganizations : Keyed(o)
    BY <1>1, <1>5 DEF EndMigration, Scanned
  <2>2. UNCHANGED <<input, todo>>
    BY <1>5 DEF EndMigration, local
  <2>3. pc'[h] = "done" /\ \A g \in Handlers \ {h} : pc'[g] = pc[g]
    BY <1>5 DEF EndMigration, Continue, TypeInv, TypeOK
  <2> QED
    BY <1>1, <2>1, <2>2, <2>3 DEF Scanned
<1>6. CASE \/ Abort(h) \/ TakeIdentifier(h) \/ InsertOrganization(h) \/ CheckAssetIsNew(h)
           \/ InsertAsset(h) \/ CheckAssetExists(h) \/ CheckEventIsNew(h) \/ SealItem(h)
           \/ InsertEvent(h) \/ ReadEvent(h) \/ OpenItem(h)
  <2>1. UNCHANGED <<input, todo>> /\ \A g \in Handlers \ {h} : pc'[g] = pc[g]
    BY <1>6 DEF Abort, TakeIdentifier, InsertOrganization, CheckAssetIsNew, InsertAsset,
       CheckAssetExists, CheckEventIsNew, SealItem, InsertEvent, ReadEvent, OpenItem,
       Continue, TypeInv, TypeOK, local
  <2>2. pc'[h] # "mg_key"
    BY <1>6 DEF Abort, TakeIdentifier, InsertOrganization, CheckAssetIsNew, InsertAsset,
       CheckAssetExists, CheckEventIsNew, SealItem, InsertEvent, ReadEvent, OpenItem,
       Continue, TypeInv, TypeOK
  <2>3. pc'[h] = "done" => pc[h] \notin Idle \cup Labels.migrate
    BY <1>6 DEF Abort, TakeIdentifier, InsertOrganization, CheckAssetIsNew, InsertAsset,
       CheckAssetExists, CheckEventIsNew, SealItem, InsertEvent, ReadEvent, OpenItem,
       Continue, TypeInv, TypeOK, Labels
  <2>4. pc'[h] = "done" => input[h].op # "migrate"
    BY <2>3 DEF TypeInv, LocalInv
  <2> QED
    BY <1>1, <2>1, <2>2, <2>4 DEF Scanned
<1> QED
  BY <1>2, <1>3, <1>4, <1>5, <1>6 DEF Actions

LEMMA MigrationStep ==
    ASSUME TypeInv, MigrationInv, [Next]_vars
    PROVE  MigrationInv'
<1>1. InitOrganizations \subseteq organizations'
  BY DEF MigrationInv, Next, vars, StoreKey, LoseKey, Start, Abort, TakeIdentifier,
     InsertOrganization, OpenCursor, MigrateOrganization, EndMigration, CheckAssetIsNew,
     InsertAsset, CheckAssetExists, CheckEventIsNew, SealItem, InsertEvent, ReadEvent, OpenItem
<1>2. \A o \in InitOrganizations : Keyed(o) => Keyed(o)'
  BY KeyedKept, OrganizationsAssumption
<1>3. Scanned'
  <2>1. CASE UNCHANGED vars \/ StoreKey \/ LoseKey
    <3>1. UNCHANGED <<pc, input, todo>>
      BY <2>1 DEF vars, local, StoreKey, LoseKey
    <3> QED
      BY <1>2, <3>1 DEF MigrationInv, Scanned
  <2>2. ASSUME NEW h \in Handlers, Actions(h) PROVE Scanned'
    BY <1>2, <2>2, MigrationStepOfHandler
  <2> QED
    BY <2>1, <2>2 DEF Next, Actions
<1> QED
  BY <1>1, <1>3 DEF MigrationInv

(* KeyedAfterMigration: two servers at it, creations beside it, an insertion     *)
(* under way: no organization is passed over.                                    *)
THEOREM NonePassedOver == Spec => []KeyedAfterMigration
<1>1. Init => MigrationInv
  BY DEF Init, MigrationInv, Scanned
<1>2. TypeInv /\ MigrationInv /\ [Next]_vars => MigrationInv'
  BY MigrationStep
<1>3. MigrationInv => KeyedAfterMigration
  BY DEF MigrationInv, Scanned, KeyedAfterMigration, Keyed
<1> QED
  BY <1>1, <1>2, <1>3, TypeInit, TypeStep, PTL DEF Spec

--------------------------------------------------------------------------------
(* Disclosure.  Nothing above level 0 is stored in clear, and only whoever has the  *)
(* level opens anything. *)
NoneClear(items) == \A i \in DOMAIN items : items[i].kind # "clear"

Disclosed(h) ==
    /\ pc[h] = "ge_open" => MayRead(input[h].user, found[h])
    /\ pc[h] = "done" /\ found[h] # None =>
          found[h].level = 0 \/ MayRead(input[h].user, found[h]) \/ NoneClear(data[h])

DisclosureInv ==
    /\ \A e \in events : e.level = 0 \/ NoneClear(e.data)
    /\ \A h \in Handlers : pc[h] \in {"ev_seal", "ev_insert"} =>
          input[h].level = 0 \/ NoneClear(data[h])
    /\ \A h \in Handlers : Disclosed(h)

LEMMA StoredStep ==
    ASSUME TypeInv, DisclosureInv, [Next]_vars
    PROVE  /\ \A e \in events' : e.level = 0 \/ NoneClear(e.data)
           /\ \A g \in Handlers : pc'[g] \in {"ev_seal", "ev_insert"} =>
                 input'[g].level = 0 \/ NoneClear(data'[g])
<1>1. \A e \in events' : e.level = 0 \/ NoneClear(e.data)
  <2>1. CASE UNCHANGED events
    BY <2>1 DEF DisclosureInv
  <2>2. ASSUME NEW h \in Handlers, InsertEvent(h)
        PROVE  \A e \in events' : e.level = 0 \/ NoneClear(e.data)
    <3> DEFINE e == [_id |-> h, eventId |-> input[h].eventId, assetId |-> input[h].assetId,
                     level |-> input[h].level, organizationId |-> Creators(h), data |-> data[h]]
    <3>1. events' = events \cup {e} /\ pc[h] = "ev_insert"
      BY <2>2 DEF InsertEvent
    <3>2. e.level = input[h].level /\ e.data = data[h]
      OBVIOUS
    <3>3. e.level = 0 \/ NoneClear(e.data)
      BY <3>1, <3>2 DEF DisclosureInv
    <3> HIDE DEF e
    <3> QED
      BY <3>1, <3>3 DEF DisclosureInv
  <2> QED
    BY <2>1, <2>2, SealedWrites
<1>2. ASSUME NEW g \in Handlers, pc'[g] \in {"ev_seal", "ev_insert"}
      PROVE  input'[g].level = 0 \/ NoneClear(data'[g])
  <2>1. CASE pc'[g] = pc[g] /\ data'[g] = data[g] /\ input'[g] = input[g]
    BY <1>2, <2>1 DEF DisclosureInv
  <2>2. CASE CheckEventIsNew(g)
    <3>1. input[g].level \in Nat /\ UNCHANGED input
      BY <2>2, CreatorType DEF CheckEventIsNew, Labels, Input
    <3>2. \/ Continue(g, "failed")
          \/ data' = [data EXCEPT ![g] = << >>]
          \/ /\ data' = [data EXCEPT ![g] = ClearData(input[g].items)]
             /\ ~Conceals(input[g].level) \/ ~(input[g].items > 0)
      BY <2>2 DEF CheckEventIsNew
    <3>3. CASE data'[g] = << >>
      BY <3>3 DEF NoneClear
    <3>4. CASE data'[g] = ClearData(input[g].items) /\ ~(input[g].items > 0)
      <4>1. input[g].items \in Nat
        BY <2>2, CreatorType DEF CheckEventIsNew, Labels, Input
      <4>2. DOMAIN data'[g] = {}
        BY <3>4, <4>1 DEF ClearData
      <4> QED
        BY <4>2 DEF NoneClear
    <3>5. CASE ~Conceals(input[g].level)
      BY <3>1, <3>5 DEF Conceals
    <3> QED
      BY <1>2, <3>2, <3>3, <3>4, <3>5 DEF Continue, TypeInv, TypeOK
  <2>3. CASE SealItem(g)
    <3> DEFINE key == keys[Creators(g)]
               item == IF key = None THEN Plain("lost") ELSE [kind |-> "sealed", key |-> key]
    <3>1. pc[g] = "ev_seal" /\ UNCHANGED input /\ data'[g] = Append(data[g], item)
      BY <2>3 DEF SealItem, TypeInv, TypeOK
    <3>2. data[g] \in Seq(Item)
      BY DEF TypeInv, TypeOK
    <3>3. item.kind # "clear"
      BY DEF Plain
    <3>4. ASSUME NEW i \in DOMAIN data'[g], NoneClear(data[g]) PROVE data'[g][i].kind # "clear"
      <4>1. (i \in DOMAIN data[g] /\ data'[g][i] = data[g][i]) \/ data'[g][i] = item
        BY <3>1, <3>2, <3>4
      <4> QED
        BY <3>3, <3>4, <4>1 DEF NoneClear
    <3> QED
      BY <3>1, <3>4 DEF DisclosureInv, NoneClear
  <2> QED
    BY <1>2, <2>1, <2>2, <2>3, SealedWrites
<1> QED
  BY <1>1, <1>2

LEMMA DisclosedStep ==
    ASSUME TypeInv, DisclosureInv, [Next]_vars, NEW g \in Handlers
    PROVE  Disclosed(g)'
<1>1. Disclosed(g)
  BY DEF DisclosureInv
<1>2. CASE UNCHANGED vars \/ StoreKey \/ LoseKey
  <2>1. UNCHANGED <<pc, input, found, data>>
    BY <1>2 DEF vars, local, StoreKey, LoseKey
  <2> QED
    BY <1>1, <2>1 DEF Disclosed, MayRead, NoneClear
<1>3. ASSUME NEW h \in Handlers, Actions(h) PROVE Disclosed(g)'
  <2>1. CASE g # h
    <3>1. /\ pc'[g] = pc[g] /\ input'[g] = input[g]
          /\ found'[g] = found[g] /\ data'[g] = data[g]
      <4>1. CASE Start(h) \/ Abort(h) \/ TakeIdentifier(h) \/ InsertOrganization(h) \/ OpenCursor(h)
                 \/ MigrateOrganization(h) \/ EndMigration(h) \/ CheckAssetIsNew(h) \/ InsertAsset(h)
        BY <2>1, <4>1 DEF Start, Abort, TakeIdentifier, InsertOrganization, OpenCursor,
           MigrateOrganization, EndMigration, CheckAssetIsNew, InsertAsset, Continue, TypeInv, TypeOK, local
      <4>2. CASE CheckAssetExists(h) \/ CheckEventIsNew(h) \/ SealItem(h) \/ InsertEvent(h)
        BY <2>1, <4>2 DEF CheckAssetExists, CheckEventIsNew, SealItem, InsertEvent,
           Continue, TypeInv, TypeOK, local
      <4>3. CASE ReadEvent(h) \/ OpenItem(h)
        BY <2>1, <4>3 DEF ReadEvent, OpenItem, Continue, TypeInv, TypeOK
      <4> QED
        BY <1>3, <4>1, <4>2, <4>3 DEF Actions
    <3> QED
      BY <1>1, <3>1 DEF Disclosed, MayRead, NoneClear
  <2>2. CASE g = h /\ ReadEvent(h)
    <3>1. UNCHANGED input /\ pc[g] = "ge_event"
      BY <2>2 DEF ReadEvent
    <3>2. CASE EventsWith(input[h].eventId) = {}
      BY <2>2, <3>2 DEF ReadEvent, Continue, TypeInv, TypeOK, Disclosed
    <3>3. CASE EventsWith(input[h].eventId) # {}
      <4> DEFINE Opening(e) == /\ MayRead(input[h].user, e)
                               /\ \E i \in DOMAIN e.data : e.data[i].kind # "clear"
      <4>1. PICK e \in EventsWith(input[h].eventId) :
                /\ found' = [found EXCEPT ![h] = e]
                /\ data' = [data EXCEPT ![h] = IF Opening(e) THEN << >> ELSE Withhold(e.data)]
                /\ Continue(h, IF Opening(e) THEN "ge_open" ELSE "done")
        BY <2>2, <3>3 DEF ReadEvent
      <4>2. e \in events /\ e.data \in Seq(Item)
        BY DEF EventsWith, TypeInv, TypeOK, Event
      <4>3. /\ found'[g] = e
            /\ pc'[g] = IF Opening(e) THEN "ge_open" ELSE "done"
            /\ ~Opening(e) => data'[g] = Withhold(e.data)
        BY <2>2, <4>1 DEF Continue, TypeInv, TypeOK
      <4>4. e.level = 0 \/ NoneClear(Withhold(e.data))
        BY <4>2, WithholdType DEF DisclosureInv, NoneClear
      <4>5. CASE Opening(e)
        BY <2>2, <3>1, <4>3, <4>5 DEF Disclosed, MayRead
      <4>6. CASE ~Opening(e)
        BY <3>1, <4>3, <4>4, <4>6 DEF Disclosed, NoneClear
      <4> QED
        BY <4>5, <4>6
    <3> QED
      BY <3>2, <3>3
  <2>3. CASE g = h /\ OpenItem(h)
    <3>1. pc[g] = "ge_open" /\ UNCHANGED <<input, found>>
      BY <2>3 DEF OpenItem
    <3>2. MayRead(input'[g].user, found'[g])
      BY <1>1, <3>1 DEF Disclosed
    <3> QED
      BY <3>2 DEF Disclosed, MayRead
  <2>4. CASE g = h /\ ~ReadEvent(h) /\ ~OpenItem(h)
    <3>1. CASE pc[h] = "done" \/ pc[h] = "failed" \/ pc[h] = "ge_open"
      <4>1. Abort(h)
        BY <1>3, <2>4, <3>1 DEF Actions, Start, TakeIdentifier, InsertOrganization, OpenCursor,
           MigrateOrganization, EndMigration, CheckAssetIsNew, InsertAsset,
           CheckAssetExists, CheckEventIsNew, SealItem, InsertEvent
      <4> QED
        BY <2>4, <4>1 DEF Abort, Continue, TypeInv, TypeOK, Disclosed
    <3>2. CASE pc[h] \notin {"done", "failed", "ge_open"}
      <4>1. found[h] = None
        BY <3>2 DEF TypeInv, LocalInv
      <4>2. UNCHANGED found
        BY <1>3, <2>4 DEF Actions, Start, Abort, TakeIdentifier, InsertOrganization, OpenCursor,
           MigrateOrganization, EndMigration, CheckAssetIsNew, InsertAsset,
           CheckAssetExists, CheckEventIsNew, SealItem, InsertEvent, local
      <4>3. pc'[h] # "ge_open"
        <5>1. CASE Start(h)
          <6>1. PICK i \in Inputs : Continue(h, Entry[i.op])
            BY <5>1 DEF Start
          <6>2. i.op \in Op
            BY InputsAssumption DEF Input
          <6> QED
            BY <6>1, <6>2 DEF Entry, Op, Continue, TypeInv, TypeOK
        <5>2. CASE ~Start(h)
          BY <1>3, <2>4, <3>2, <5>2 DEF Actions, Abort, TakeIdentifier, InsertOrganization,
             OpenCursor, MigrateOrganization, EndMigration, CheckAssetIsNew, InsertAsset,
             CheckAssetExists, CheckEventIsNew, SealItem, InsertEvent, Continue, TypeInv, TypeOK
        <5> QED
          BY <5>1, <5>2
      <4> QED
        BY <2>4, <4>1, <4>2, <4>3 DEF Disclosed
    <3> QED
      BY <3>1, <3>2
  <2> QED
    BY <2>1, <2>2, <2>3, <2>4
<1> QED
  BY <1>2, <1>3 DEF Next, Actions

(* DisclosedOnlyAbove: whatever is read while whatever is being stored, a reader *)
(* is answered in clear only what he has the level for.                          *)
THEOREM DisclosureBounded == Spec => []DisclosedOnlyAbove
<1>1. Init => DisclosureInv
  BY DEF Init, DisclosureInv, Disclosed
<1>2. TypeInv /\ DisclosureInv /\ [Next]_vars => DisclosureInv'
  <2> SUFFICES ASSUME TypeInv, DisclosureInv, [Next]_vars PROVE DisclosureInv'
    OBVIOUS
  <2> QED
    BY StoredStep, DisclosedStep DEF DisclosureInv, NoneClear
<1>3. DisclosureInv => DisclosedOnlyAbove
  BY DEF DisclosureInv, Disclosed, DisclosedOnlyAbove, NoneClear, MayRead
<1> QED
  BY <1>1, <1>2, <1>3, TypeInit, TypeStep, PTL DEF Spec
================================================================================
