-------------------------------- MODULE Events --------------------------------
(***************************************************************************)
(* Assets and events (src/service/asset.service.ts, event.service.ts) and  *)
(* the keys of organizations that their data is encrypted with.  A key     *)
(* comes with a new organization, or with the migration                    *)
(* create_encryption_keys; either way its insertion is fired and not       *)
(* awaited.  Two servers may run the migration at once (see Migrator).     *)
(*                                                                         *)
(* An action is the code from one await to the next.  Accounts do not      *)
(* change here (see Accounts), so reading the creator's account again,     *)
(* which finds what authentication found, is not a step of its own.  A     *)
(* handler serves one request or runs the migration once.  Permissions are *)
(* checked before a handler starts, and Inputs has requests that pass.     *)
(***************************************************************************)
EXTENDS Naturals, Sequences

CONSTANTS Handlers,
          Users,              \* a function: the level and organization of users
          Identifiers,        \* identifiers of organizations; bounds the counter
          InitOrganizations,  \* the organizations there are at the start
          InitKeys,           \* their keys, None where one has none
          InitCount,          \* the identity counter
          InitAssets,         \* the identifiers of the assets there are
          Assets, EventIds,   \* identifiers of assets and events
          Inputs,             \* what the requests may ask
          None

\* The highest level there is: events above it are not found.
maxAccessLevel == 1000

Op == {"createOrganization", "migrate", "createAsset", "createEvent", "getEvent"}
UserOp == {"createAsset", "createEvent"}
Input == [op : Op, user : DOMAIN Users \cup {None}, assetId : Assets,
          eventId : EventIds, level : Nat, items : Nat]

\* A key is named after the handler that generates it and the organization.
Key == ((Handlers \X Identifiers) \cup {InitKeys[o] : o \in Identifiers}) \ {None}
KeyInsert == [organizationId : Identifiers, key : Key]

\* An item of an event's data: in clear; sealed with a key; lost, that is replaced
\* by the message that there was no key; or, in an answer, withheld.
Item == [kind : {"clear", "lost", "withheld"}, key : {None}]
        \cup [kind : {"sealed"}, key : Key]
Plain(kind) == [kind |-> kind, key |-> None]

\* _id tells apart two documents of one identifier.
Asset == [_id : Handlers \cup {None}, assetId : Assets]
Event == [_id : Handlers, eventId : EventIds, assetId : Assets, level : Nat,
          organizationId : Identifiers, data : Seq(Item)]

ASSUME UsersAssumption ==
    /\ \A u \in DOMAIN Users : Users[u].level \in Nat /\ Users[u].organization \in Identifiers
    /\ None \notin DOMAIN Users
ASSUME OrganizationsAssumption ==
    /\ InitOrganizations \subseteq Identifiers
    /\ Identifiers \subseteq Nat /\ InitCount \in Nat
    /\ \A o \in InitOrganizations : o <= InitCount
ASSUME NoneAssumption == None \notin (Handlers \X Identifiers) \cup Handlers
ASSUME InputsAssumption ==
    /\ Inputs \subseteq Input /\ InitAssets \subseteq Assets
    /\ \A i \in Inputs : i.op \in UserOp => i.user # None

VARIABLES
    organizations, keys, count,
    keyInserts,     \* insertions of keys that nobody waits for
    lostKeys,       \* history: the organizations for which one did not happen
    assets, events,
    pc, input,      \* where each handler is and what it was asked
    organization,   \* the identifier that a creation was given
    data,           \* the items that createEvent has sealed, or getEvent opened
    found,          \* the event that getEvent found
    todo            \* the organizations that the migration's cursor still has

local == <<organization, data, found, todo>>
vars == <<organizations, keys, count, keyInserts, lostKeys, assets, events, pc,
          input, local>>

Idle == {"idle", "done", "failed"}
PC == Idle \cup {"co_id", "co_insert", "mg_open", "mg_key", "as_asset", "as_insert",
                 "ev_asset", "ev_event", "ev_seal", "ev_insert", "ge_event", "ge_open"}

TypeOK ==
    /\ organizations \subseteq Identifiers /\ lostKeys \subseteq Identifiers
    /\ keys \in [Identifiers -> Key \cup {None}]
    /\ count \in Identifiers \cup {InitCount}
    /\ keyInserts \subseteq KeyInsert
    /\ assets \subseteq Asset /\ events \subseteq Event
    /\ pc \in [Handlers -> PC] /\ input \in [Handlers -> Inputs \cup {None}]
    /\ organization \in [Handlers -> Identifiers \cup {None}]
    /\ data \in [Handlers -> Seq(Item)]
    /\ found \in [Handlers -> Event \cup {None}]
    /\ todo \in [Handlers -> SUBSET Identifiers]

Init ==
    /\ organizations = InitOrganizations
    /\ keys = [o \in Identifiers |-> IF o \in InitOrganizations THEN InitKeys[o] ELSE None]
    /\ count = InitCount
    /\ keyInserts = {} /\ lostKeys = {}
    /\ assets = {[_id |-> None, assetId |-> a] : a \in InitAssets} /\ events = {}
    /\ pc = [h \in Handlers |-> "idle"] /\ input = [h \in Handlers |-> None]
    /\ organization = [h \in Handlers |-> None]
    /\ data = [h \in Handlers |-> << >>]
    /\ found = [h \in Handlers |-> None]
    /\ todo = [h \in Handlers |-> {}]

--------------------------------------------------------------------------------
Continue(h, label) == pc' = [pc EXCEPT ![h] = label]

Entry == [createOrganization |-> "co_id", migrate |-> "mg_open",
          createAsset |-> "as_asset", createEvent |-> "ev_asset", getEvent |-> "ge_event"]

\* A user has been registered in an organization that exists.
Start(h) ==
    /\ pc[h] = "idle"
    /\ \E i \in Inputs :
          /\ i.user # None => Users[i.user].organization \in organizations
          /\ input' = [input EXCEPT ![h] = i]
          /\ Continue(h, Entry[i.op])
    /\ UNCHANGED <<organizations, keys, count, keyInserts, lostKeys, assets, events, local>>

\* A database access fails, or the process that serves the request dies.
Abort(h) ==
    /\ pc[h] \notin Idle
    /\ Continue(h, "failed")
    /\ UNCHANGED <<organizations, keys, count, keyInserts, lostKeys, assets, events, input, local>>

--------------------------------------------------------------------------------
\* Keys.  The checks of createOrganization before this are in Onboarding.

\* The new identifier; the key's insertion is fired with the organization's.
TakeIdentifier(h) ==
    /\ pc[h] = "co_id" /\ count + 9 \in Identifiers
    /\ count' = count + 9
    /\ organization' = [organization EXCEPT ![h] = count']
    /\ keyInserts' = keyInserts \cup {[organizationId |-> count', key |-> <<h, count'>>]}
    /\ Continue(h, "co_insert")
    /\ UNCHANGED <<organizations, keys, lostKeys, assets, events, input, data, found, todo>>

InsertOrganization(h) ==
    /\ pc[h] = "co_insert"
    /\ organization[h] \notin organizations
    /\ organizations' = organizations \cup {organization[h]}
    /\ Continue(h, "done")
    /\ UNCHANGED <<keys, count, keyInserts, lostKeys, assets, events, input, local>>

\* Variant: without the unique index, a later key takes the earlier one's place.
StoreKeyOverwriting ==
    \E k \in keyInserts :
        /\ keys' = [keys EXCEPT ![k.organizationId] = k.key]
        /\ keyInserts' = keyInserts \ {k}
        /\ UNCHANGED <<organizations, count, lostKeys, assets, events, pc, input, local>>

\* A fired insertion reaches the database, whose unique index refuses a second key.
StoreKey ==
    \E k \in keyInserts :
        /\ keys' = [keys EXCEPT ![k.organizationId] = IF @ = None THEN k.key ELSE @]
        /\ keyInserts' = keyInserts \ {k}
        /\ UNCHANGED <<organizations, count, lostKeys, assets, events, pc, input, local>>

\* Or it fails, and nobody hears of it.
LoseKey ==
    \E k \in keyInserts :
        /\ lostKeys' = lostKeys \cup {k.organizationId}
        /\ keyInserts' = keyInserts \ {k}
        /\ UNCHANGED <<organizations, keys, count, assets, events, pc, input, local>>

\* The migration opens its cursor: it will return every organization there is now,
\* and may return some that are inserted while it is open.
OpenCursor(h) ==
    /\ pc[h] = "mg_open"
    /\ \E S \in SUBSET Identifiers :
          /\ organizations \subseteq S
          /\ todo' = [todo EXCEPT ![h] = S]
    /\ Continue(h, "mg_key")
    /\ UNCHANGED <<organizations, keys, count, keyInserts, lostKeys, assets, events, input,
                   organization, data, found>>

\* Variant: asks whether there is any key.
MigrateUnlessAnyKey(h) ==
    /\ pc[h] = "mg_key"
    /\ \E o \in todo[h] \cap organizations :
          /\ todo' = [todo EXCEPT ![h] = @ \ {o}]
          /\ keyInserts' = keyInserts \cup
                (IF \A x \in Identifiers : keys[x] = None
                 THEN {[organizationId |-> o, key |-> <<h, o>>]} ELSE {})
    /\ UNCHANGED <<organizations, keys, count, lostKeys, assets, events, pc, input,
                   organization, data, found>>

\* createOrganizationKey: looks for the key of the next organization and fires
\* the insertion of one if there is none.
MigrateOrganization(h) ==
    /\ pc[h] = "mg_key"
    /\ \E o \in todo[h] \cap organizations :
          /\ todo' = [todo EXCEPT ![h] = @ \ {o}]
          /\ keyInserts' = keyInserts \cup
                (IF keys[o] = None THEN {[organizationId |-> o, key |-> <<h, o>>]} ELSE {})
    /\ UNCHANGED <<organizations, keys, count, lostKeys, assets, events, pc, input,
                   organization, data, found>>

EndMigration(h) ==
    /\ pc[h] = "mg_key" /\ todo[h] \cap organizations = {}
    /\ Continue(h, "done")
    /\ UNCHANGED <<organizations, keys, count, keyInserts, lostKeys, assets, events, input, local>>

--------------------------------------------------------------------------------
\* AssetService.createAsset
Exists(assetId) == \E a \in assets : a.assetId = assetId

CheckAssetIsNew(h) ==
    /\ pc[h] = "as_asset"
    /\ Continue(h, IF Exists(input[h].assetId) THEN "failed" ELSE "as_insert")
    /\ UNCHANGED <<organizations, keys, count, keyInserts, lostKeys, assets, events, input, local>>

InsertAsset(h) ==
    /\ pc[h] = "as_insert"
    /\ assets' = assets \cup {[_id |-> h, assetId |-> input[h].assetId]}
    /\ Continue(h, "done")
    /\ UNCHANGED <<organizations, keys, count, keyInserts, lostKeys, events, input, local>>

--------------------------------------------------------------------------------
\* EventService.createEvent

\* Variant: an asset that is not found is created by someone, sooner or later.
TakeAssetForGranted(h) ==
    /\ pc[h] = "ev_asset"
    /\ Continue(h, "ev_event")
    /\ UNCHANGED <<organizations, keys, count, keyInserts, lostKeys, assets, events, input, local>>

CheckAssetExists(h) ==
    /\ pc[h] = "ev_asset"
    /\ Continue(h, IF Exists(input[h].assetId) THEN "ev_event" ELSE "failed")
    /\ UNCHANGED <<organizations, keys, count, keyInserts, lostKeys, assets, events, input, local>>

\* What queryEvent finds, one of which findOne returns.
EventsWith(eventId) == {e \in events : e.eventId = eventId /\ e.level <= maxAccessLevel}

ClearData(n) == [i \in 1 .. n |-> Plain("clear")]

\* Variant: the lowest level is not encrypted.
ConcealsAboveOne(level) == level > 1

Conceals(level) == level > 0

\* Data of level 0 stays as it is; the items of other data are sealed one by one.
CheckEventIsNew(h) ==
    /\ pc[h] = "ev_event"
    /\ \/ /\ EventsWith(input[h].eventId) # {}
          /\ Continue(h, "failed")
          /\ UNCHANGED data
       \/ /\ EventsWith(input[h].eventId) = {}
          /\ LET sealing == Conceals(input[h].level) /\ input[h].items > 0 IN
                /\ data' = [data EXCEPT ![h] =
                              IF sealing THEN << >> ELSE ClearData(input[h].items)]
                /\ Continue(h, IF sealing THEN "ev_seal" ELSE "ev_insert")
    /\ UNCHANGED <<organizations, keys, count, keyInserts, lostKeys, assets, events, input,
                   organization, found, todo>>

Creators(h) == Users[input[h].user].organization

\* Variant: the key is taken for one without looking.
SealItemUnchecked(h) ==
    /\ pc[h] = "ev_seal"
    /\ data' = [data EXCEPT ![h] = Append(@, [kind |-> "sealed", key |-> keys[Creators(h)]])]
    /\ Continue(h, IF Len(data[h]) + 1 = input[h].items THEN "ev_insert" ELSE "ev_seal")
    /\ UNCHANGED <<organizations, keys, count, keyInserts, lostKeys, assets, events, input,
                   organization, found, todo>>

\* OrganizationService.encrypt answers with a message when there is no key, and the
\* message takes the item's place.
SealItem(h) ==
    /\ pc[h] = "ev_seal"
    /\ LET key == keys[Creators(h)]
           item == IF key = None THEN Plain("lost") ELSE [kind |-> "sealed", key |-> key]
       IN  data' = [data EXCEPT ![h] = Append(@, item)]
    /\ Continue(h, IF Len(data[h]) + 1 = input[h].items THEN "ev_insert" ELSE "ev_seal")
    /\ UNCHANGED <<organizations, keys, count, keyInserts, lostKeys, assets, events, input,
                   organization, found, todo>>

InsertEvent(h) ==
    /\ pc[h] = "ev_insert"
    /\ LET i == input[h] IN
          events' = events \cup {[_id |-> h, eventId |-> i.eventId, assetId |-> i.assetId,
                                  level |-> i.level, organizationId |-> Creators(h),
                                  data |-> data[h]]}
    /\ Continue(h, "done")
    /\ UNCHANGED <<organizations, keys, count, keyInserts, lostKeys, assets, input, local>>

--------------------------------------------------------------------------------
\* getEvent and EventService.checkEventDecryption, of a user or, with user None,
\* of somebody who has not authenticated.

MayRead(user, event) == IF user = None THEN FALSE ELSE Users[user].level >= event.level

Withhold(items) ==
    [i \in DOMAIN items |-> IF items[i].kind = "clear" THEN items[i] ELSE Plain("withheld")]

\* Without the level nothing is looked up; neither is it for an event in clear.
ReadEvent(h) ==
    /\ pc[h] = "ge_event"
    /\ \/ /\ EventsWith(input[h].eventId) = {}
          /\ Continue(h, "failed")
          /\ UNCHANGED <<found, data>>
       \/ \E e \in EventsWith(input[h].eventId) :
             LET opening == /\ MayRead(input[h].user, e)
                            /\ \E i \in DOMAIN e.data : e.data[i].kind # "clear"
             IN  /\ found' = [found EXCEPT ![h] = e]
                 /\ data' = [data EXCEPT ![h] = IF opening THEN << >> ELSE Withhold(e.data)]
                 /\ Continue(h, IF opening THEN "ge_open" ELSE "done")
    /\ UNCHANGED <<organizations, keys, count, keyInserts, lostKeys, assets, events, input,
                   organization, todo>>

\* Deciphering throws on what was not encrypted with the key, JSON.parse on the
\* message that there is no key; then the whole request fails.
OpenItem(h) ==
    /\ pc[h] = "ge_open"
    /\ LET e == found[h]
           item == e.data[Len(data[h]) + 1]
           opens == \/ item.kind = "clear"
                    \/ item.kind = "sealed" /\ item.key = keys[e.organizationId]
       IN  \/ /\ opens
              /\ data' = [data EXCEPT ![h] = Append(@, Plain("clear"))]
              /\ Continue(h, IF Len(data[h]) + 1 = Len(e.data) THEN "done" ELSE "ge_open")
           \/ /\ ~opens
              /\ Continue(h, "failed")
              /\ UNCHANGED data
    /\ UNCHANGED <<organizations, keys, count, keyInserts, lostKeys, assets, events, input,
                   organization, found, todo>>

--------------------------------------------------------------------------------
Next ==
    \/ StoreKey
    \/ LoseKey
    \/ \E h \in Handlers :
        \/ Start(h) \/ Abort(h)
        \/ TakeIdentifier(h) \/ InsertOrganization(h)
        \/ OpenCursor(h) \/ MigrateOrganization(h) \/ EndMigration(h)
        \/ CheckAssetIsNew(h) \/ InsertAsset(h)
        \/ CheckAssetExists(h) \/ CheckEventIsNew(h) \/ SealItem(h) \/ InsertEvent(h)
        \/ ReadEvent(h) \/ OpenItem(h)

Spec == Init /\ [][Next]_vars

--------------------------------------------------------------------------------
(* What an event was sealed with is the key of its organization ever after: no   *)
(* race of migrations, or of a migration and a new organization, leaves data     *)
(* that decrypt (organization.service.ts) cannot open.                           *)
SealedStaysReadable ==
    \A e \in events : \A i \in DOMAIN e.data :
        e.data[i].kind = "sealed" => keys[e.organizationId] = e.data[i].key

(* When create_encryption_keys is through, each organization there was has its   *)
(* key, or one under way, unless the insertion of one failed unnoticed: the      *)
(* insertions are not awaited, and another server may be at it too.              *)
KeyedAfterMigration ==
    \A h \in Handlers : pc[h] = "done" /\ input[h].op = "migrate" =>
        \A o \in InitOrganizations :
            \/ keys[o] # None
            \/ o \in lostKeys
            \/ \E k \in keyInserts : k.organizationId = o

(* An event has its asset, though createEvent has let go of the asset it checked *)
(* for (event.service.ts:210) when it inserts the event.                         *)
EventHasAsset == \A e \in events : Exists(e.assetId)

(* What getEvent answers in clear of an event above level 0, the user has the    *)
(* level for: apiary.apib, "a user needs to have an access level not smaller     *)
(* than the returned event".  It takes createEvent to seal what it stores, too.  *)
DisclosedOnlyAbove ==
    \A h \in Handlers : pc[h] = "done" /\ found[h] # None =>
        \/ found[h].level = 0
        \/ IF input[h].user = None THEN FALSE ELSE Users[input[h].user].level >= found[h].level
        \/ \A i \in DOMAIN data[h] : data[h][i].kind # "clear"
================================================================================
