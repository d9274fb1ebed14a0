------------------------------ MODULE NodeConfig ------------------------------
(***************************************************************************)
(* A node's configuration is saved and put back, while the node goes on    *)
(* registering organizations and accounts: AdminService.getConfig and      *)
(* restoreConfig, OrganizationService.backupOrganization and               *)
(* restoreOrganization, composed with createOrganization and createAccount *)
(* (module Onboarding) and with the built-in check that the server makes   *)
(* when it starts (src/service/builtin.service.ts).                        *)
(*                                                                         *)
(* The server may die between any two accesses to the database and start   *)
(* again.  It keeps its state file, and with it the address of its         *)
(* built-in account.                                                       *)
(*                                                                         *)
(* Each action is the code from one await to the next.  insertMany and     *)
(* deleteMany are one step each.                                           *)
(***************************************************************************)
EXTENDS Onboarding, FiniteSets

CONSTANTS Plans,            \* what the handlers may be asked: an operation each, or None
          BuiltIn,          \* the address of the node's built-in account
          BuiltInTitle,
          MaxBoots,         \* bound: how often the server starts
          SavedConfigs, SavedBackups
                            \* what getConfig and backupOrganization answered
                            \* before the node got the database it has now

NodeOps == {"getConfig", "restoreConfig", "backupOrganization", "restoreOrganization"}

ASSUME NodeAssumption ==
    /\ Plans \subseteq [Handlers -> NodeOps \cup Ops \cup {None}] /\ BuiltIn \in Address
    /\ MaxBoots \in Nat \ {0}
    /\ \A c \in SavedConfigs :
         /\ DOMAIN c = {"organizations", "keys", "accounts", "details"}
         /\ IsFiniteSet(c.organizations) /\ IsFiniteSet(c.accounts)
         /\ \A a \in c.accounts : /\ {"id", "address", "organization"} \subseteq DOMAIN a
                                  /\ a.address \in Address
    /\ \A b \in SavedBackups : /\ DOMAIN b = {"organization", "members"}
                               /\ \A m \in b.members : m.address \in Address
    /\ \A i \in Inputs : i.op \in {"createOrganization", "createAccount"}
    \* A collection is finite, and the ids that restoreConfig and the built-in check
    \* give are new: those of no other handler, start or document.
    /\ IsFiniteSet(InitAccounts) /\ IsFiniteSet(InitOrganizations)
    /\ \A h \in Handlers : h \notin Nat
    /\ \A id \in DocId, h \in Handlers, address \in Address : id # <<h, address>>

VARIABLES
    plan,       \* what each handler is asked in this behaviour
    data,       \* the configuration or backup that a handler takes or puts back
    members,    \* while restoreOrganization creates accounts: those still to do
    server,     \* where the server is: "down", in the built-in check, or "up"
    boots,      \* how often it has started
    started,    \* history: what was there when a restore started and still is, its
                \* accounts and organizations (for restoreOrganization, those with a key)
    disturbed   \* history: the handlers whose restore another restore, or a new
                \* organization, overlapped, or a later restoreConfig followed
node == <<plan, data, members, server, boots, started, disturbed>>
nodeVars == <<vars, node>>

Restoring == {"rc_count_organizations", "rc_count_accounts",
              "rc_clear_organizations", "rc_clear_keys", "rc_clear_accounts",
              "rc_clear_details", "rc_fill_accounts", "rc_fill_details",
              "rc_fill_organizations", "rc_fill_keys"}
Adding == {"ro_count", "ro_key", "ro_organization"}
AdminPC == Restoring \cup Adding \cup
    {"gc_organizations", "gc_keys", "gc_accounts", "gc_details",
     "bo_organization", "bo_key", "bo_members",
     "ro_members", "ro_update"}
Check0 == {"bt_account", "bt_create", "bt_organization", "bt_insert"}

NoConfig == [organizations |-> {}, keys |-> {}, accounts |-> {}, details |-> {}]

Nothing == [accounts |-> {}, organizations |-> {}]

\* History: of what a restore found, that which a step leaves there.
Follow ==
    started' = [h \in Handlers |->
                  [accounts |-> started[h].accounts \cap accounts',
                   organizations |-> started[h].organizations \cap organizations']]

\* History: a step that touches organizations disturbs the restores under way.
Disturb == disturbed' = disturbed \cup {g \in Handlers : pc[g] \in Restoring}

\* Only the data of a handler changes, and where it goes on.
Hold(h, at, value, next) ==
    /\ pc[h] = at
    /\ data' = [data EXCEPT ![h] = value]
    /\ Continue(h, next)
    /\ UNCHANGED <<db, local, plan, members, server, boots, started, disturbed>>

--------------------------------------------------------------------------------
\* The start of a request of the built-in super account; authorize('super_account').

AdminMayAct ==
    \E p \in AccountsOf(BuiltIn) :
        AccountsOf(BuiltIn) = {p} /\ Authorized(p, [op |-> "restoreConfig"])

StartAdmin(h, op, at, value) ==
    /\ server # "down" /\ pc[h] = "idle" /\ plan[h] = op
    /\ AdminMayAct
    /\ data' = [data EXCEPT ![h] = value]
    /\ Continue(h, at)
    /\ UNCHANGED <<db, local, plan, members, server, boots>>

StartGetConfig(h) ==
    /\ StartAdmin(h, "getConfig", "gc_organizations", NoConfig)
    /\ UNCHANGED <<started, disturbed>>

\* What a getConfig has answered, here or before.
Configs == SavedConfigs \cup {data[g] : g \in {g \in Handlers : pc[g] = "done" /\ plan[g] = "getConfig"}}

\* The configuration is this node's: one of another is refused before anything is read.
StartRestoreConfig(h) ==
    /\ \E c \in Configs : StartAdmin(h, "restoreConfig", "rc_count_organizations", c)
    /\ started' = [started EXCEPT ![h] = [accounts |-> accounts,
                                          organizations |-> organizations]]
    /\ disturbed' = disturbed
         \cup {g \in Handlers : \/ pc[g] \in Restoring \cup Adding
                                \/ plan[g] = "restoreConfig" /\ pc[g] = "done"}
         \cup IF \E g \in Handlers : pc[g] \in Restoring THEN {h} ELSE {}

StartBackup(h) ==
    /\ \E o \in organizations :
         StartAdmin(h, "backupOrganization", "bo_organization",
                    [organization |-> o, members |-> {}])
    /\ UNCHANGED <<started, disturbed>>

Backups == SavedBackups \cup {data[g] : g \in {g \in Handlers : pc[g] = "done" /\ plan[g] = "backupOrganization"}}

StartRestoreOrganization(h) ==
    /\ \E b \in Backups : StartAdmin(h, "restoreOrganization", "ro_count", b)
    /\ started' = [started EXCEPT ![h] =
                     [accounts |-> accounts,
                      organizations |-> {o \in organizations :
                                           o.organizationId \in organizationKeys}]]
    /\ disturbed' = disturbed \cup
                      IF \E g \in Handlers : pc[g] \in Restoring THEN {h} ELSE {}

--------------------------------------------------------------------------------
\* AdminService.getConfig: four reads, one after the other.

GetOrganizations(h) ==
    Hold(h, "gc_organizations", [data[h] EXCEPT !.organizations = organizations], "gc_keys")
GetKeys(h) ==
    Hold(h, "gc_keys", [data[h] EXCEPT !.keys = organizationKeys], "gc_accounts")
GetAccounts(h) ==
    Hold(h, "gc_accounts", [data[h] EXCEPT !.accounts = accounts], "gc_details")
GetDetails(h) ==
    Hold(h, "gc_details", [data[h] EXCEPT !.details = details], "done")

--------------------------------------------------------------------------------
\* AdminService.restoreConfig

\* A step of a restore that changes one collection: the others are named.
Restore(h, at, next) ==
    /\ pc[h] = at /\ Continue(h, next)
    /\ UNCHANGED <<requests, invites, count, keyInserts, local, plan, data, members,
                   server, boots, disturbed>>

\* Variant: the organizations are counted, the accounts are not.
EnsureFewOrganizationsOnly(h) ==
    /\ Check(h, "rc_count_organizations", Cardinality(organizations) <= 1,
             "rc_clear_organizations")
    /\ UNCHANGED node

\* ensureCanRestoreConfig: a node with a second organization or account is in use.
EnsureFewOrganizations(h) ==
    /\ Check(h, "rc_count_organizations", Cardinality(organizations) <= 1,
             "rc_count_accounts")
    /\ UNCHANGED node

EnsureFewAccounts(h) ==
    /\ Check(h, "rc_count_accounts", Cardinality(accounts) <= 1, "rc_clear_organizations")
    /\ UNCHANGED node

ClearOrganizations(h) ==
    /\ Restore(h, "rc_clear_organizations", "rc_clear_keys")
    /\ organizations' = {}
    /\ UNCHANGED <<accounts, details, organizationKeys>> /\ Follow

ClearKeys(h) ==
    /\ Restore(h, "rc_clear_keys", "rc_clear_accounts")
    /\ organizationKeys' = {}
    /\ UNCHANGED <<accounts, details, organizations>> /\ Follow

ClearAccounts(h) ==
    /\ Restore(h, "rc_clear_accounts", "rc_clear_details")
    /\ accounts' = {}
    /\ UNCHANGED <<details, organizations, organizationKeys>> /\ Follow

ClearDetails(h) ==
    /\ Restore(h, "rc_clear_details", "rc_fill_accounts")
    /\ details' = {}
    /\ UNCHANGED <<accounts, organizations, organizationKeys>> /\ Follow

\* BaseRepository.createBulk (insertMany).  The driver refuses an empty list, and
\* stops at the first document that a unique index refuses; refused is the set of
\* those, and result the collection afterwards.
Bulk(h, at, next, old, new, refused, result) ==
    /\ pc[h] = at
    /\ IF new # {} /\ refused = {}
       THEN Restore(h, at, next) /\ result = old \cup new
       ELSE /\ Restore(h, at, "failed")
            /\ \E some \in SUBSET (new \ refused) : result = old \cup some

\* getAll leaves _id out: the documents put back are new ones.
Renewed(h, docs) == {[a EXCEPT !.id = <<h, a.address>>] : a \in docs}

FillAccounts(h) ==
    /\ Bulk(h, "rc_fill_accounts", "rc_fill_details", accounts,
            Renewed(h, data[h].accounts), {}, accounts')
    /\ UNCHANGED <<details, organizations, organizationKeys>> /\ Follow

FillDetails(h) ==
    /\ Bulk(h, "rc_fill_details", "rc_fill_organizations", details, data[h].details,
            {d \in data[h].details : EmailInUse(d.email)}, details')
    /\ UNCHANGED <<accounts, organizations, organizationKeys>> /\ Follow

\* The unique indexes on organizationId and owner.
Clash(o) == \E p \in organizations : \/ p.organizationId = o.organizationId
                                     \/ p.owner = o.owner

\* Variant: the organizations are inserted only when there are none yet.
FillOrganizationsIfNone(h) ==
    /\ Restore(h, "rc_fill_organizations", "rc_fill_keys")
    /\ organizations' = IF organizations = {} THEN data[h].organizations
                        ELSE organizations
    /\ UNCHANGED <<accounts, details, organizationKeys>> /\ Follow

FillOrganizations(h) ==
    /\ Bulk(h, "rc_fill_organizations", "rc_fill_keys", organizations,
            data[h].organizations, {o \in data[h].organizations : Clash(o)}, organizations')
    /\ UNCHANGED <<accounts, details, organizationKeys>> /\ Follow

FillKeys(h) ==
    /\ Bulk(h, "rc_fill_keys", "done", organizationKeys, data[h].keys,
            data[h].keys \cap organizationKeys, organizationKeys')
    /\ UNCHANGED <<accounts, details, organizations>> /\ Follow

--------------------------------------------------------------------------------
\* OrganizationService.backupOrganization

BackupOrganizationDoc(h) ==
    /\ pc[h] = "bo_organization"
    /\ \/ \E o \in OrganizationsWith(data[h].organization.organizationId) :
            Hold(h, "bo_organization", [data[h] EXCEPT !.organization = o], "bo_key")
       \/ /\ OrganizationsWith(data[h].organization.organizationId) = {}
          /\ Hold(h, "bo_organization", None, "failed")

BackupKey(h) ==
    /\ Check(h, "bo_key", data[h].organization.organizationId \in organizationKeys,
             "bo_members")
    /\ UNCHANGED node

\* The join of an account and its detail, as createAccount is called for it: the
\* creator's address is on the detail only, and what the member has as
\* "organization" is looked for as "organizationId" and not found.
MemberCall(a) ==
    LET own == {d \in details : d.address = a.address}
    IN [address |-> a.address, level |-> a.level, perms |-> a.perms,
        email |-> IF own = {} THEN None ELSE (CHOOSE d \in own : TRUE).email,
        by |-> IF own = {} THEN None ELSE a.registeredBy,
        organization |-> None, title |-> None]

\* Only the first page of the members (getAccountsByOrganization has no limit but the
\* default one), and the pipeline that accounts are joined in may cut off more.
BackupMembers(h) ==
    /\ pc[h] = "bo_members"
    /\ \E page \in SUBSET {a \in accounts : a.organization = data[h].organization.organizationId} :
         Hold(h, "bo_members", [data[h] EXCEPT !.members = {MemberCall(a) : a \in page}], "done")

--------------------------------------------------------------------------------
\* OrganizationService.restoreOrganization

RestoredId(h) == data[h].organization.organizationId

\* The organization is taken to exist when its key does.
RefuseExisting(h) ==
    /\ Check(h, "ro_count", RestoredId(h) \notin organizationKeys, "ro_key")
    /\ UNCHANGED node

UpsertKey(h) ==
    /\ Restore(h, "ro_key", "ro_organization")
    /\ organizationKeys' = organizationKeys \cup {RestoredId(h)}
    /\ UNCHANGED <<accounts, details, organizations>> /\ Follow

UpsertOrganization(h) ==
    LET others == organizations \ OrganizationsWith(RestoredId(h))
        free == \A o \in others : o.owner # data[h].organization.owner
    IN /\ pc[h] = "ro_organization"
       /\ Continue(h, IF free THEN "ro_members" ELSE "failed")
       /\ organizations' = IF free THEN others \cup {data[h].organization}
                           ELSE organizations
       /\ members' = [members EXCEPT ![h] = IF free THEN data[h].members ELSE @]
       /\ UNCHANGED <<accounts, details, organizationKeys, requests, invites, count,
                      keyInserts, local, plan, data, server, boots>>
       /\ Follow /\ Disturb

Looping(h) == members[h] # None /\ pc[h] \in {"ro_members", "done", "failed"}

\* createAccount for one member after the other, whether it returns or throws.
\* The backup has them newest first; here the order is open.
NextMember(h) ==
    /\ Looping(h)
    /\ \E m \in members[h] :
         /\ members' = [members EXCEPT ![h] = @ \ {m}]
         /\ call' = [call EXCEPT ![h] = m]
         /\ input' = [input EXCEPT ![h] = [op |-> "createAccount"]]
    /\ Continue(h, "ca_address")
    /\ UNCHANGED <<db, creator, found, plan, data, server, boots, started, disturbed>>

LastMember(h) ==
    /\ Looping(h) /\ members[h] = {}
    /\ members' = [members EXCEPT ![h] = None]
    /\ Continue(h, "ro_update")
    /\ UNCHANGED <<db, local, plan, data, server, boots, started, disturbed>>

\* The organization as the upsert gave it, with the modification stamp; no upsert.
\* (Left out: where a restoreConfig has meanwhile put another document in its place the
\* database refuses to change the _id, and the handler fails, as it also may by FailedAccess.)
UpdateRestored(h) ==
    /\ pc[h] = "ro_update" /\ Continue(h, "done")
    /\ organizations' = {IF o.organizationId = RestoredId(h) THEN data[h].organization
                         ELSE o : o \in organizations}
    /\ UNCHANGED <<accounts, details, organizationKeys, requests, invites, count,
                   keyInserts, local, plan, data, members, server, boots>>
    /\ Follow /\ Disturb

--------------------------------------------------------------------------------
\* BuiltInService.checkBuiltIn, which the server does not wait for before it serves.

Boot(at, next) ==
    /\ server = at /\ server' = next
    /\ UNCHANGED <<pc, local, plan, data, members, boots, started, disturbed>>

\* Several accounts with the address are an error, and end the check.
ProbeAccount ==
    /\ Boot("bt_account", CASE AccountsOf(BuiltIn) = {} -> "bt_create"
                            [] Cardinality(AccountsOf(BuiltIn)) = 1 -> "bt_organization"
                            [] OTHER -> "unchecked")
    /\ UNCHANGED db

BuiltInDoc ==
    [id |-> <<boots, BuiltIn>>, address |-> BuiltIn, level |-> 1000,
     perms |-> {"super_account", "manage_accounts", "register_accounts"},
     organization |-> 0, registeredBy |-> BuiltIn, active |-> TRUE]

CreateBuiltIn ==
    /\ Boot("bt_create", "bt_organization")
    /\ accounts' = accounts \cup {BuiltInDoc}
    /\ UNCHANGED <<details, organizations, organizationKeys, requests, invites, count,
                   keyInserts>>

\* Variant: the check is over when the account is there.
ProbeOrganizationSkipped ==
    /\ Boot("bt_organization", "up")
    /\ UNCHANGED db

ProbeOrganization ==
    /\ Boot("bt_organization", IF OrganizationsWith(0) = {} THEN "bt_insert" ELSE "up")
    /\ UNCHANGED db

Organization0 ==
    [organizationId |-> 0, owner |-> None, title |-> BuiltInTitle, active |-> TRUE,
     origin |-> "boot"]

\* createOrganization of the repository, whose key insertion is not awaited.
InsertOrganization0 ==
    /\ Boot("bt_insert", IF Clash(Organization0) THEN "unchecked" ELSE "up")
    /\ organizations' = IF Clash(Organization0) THEN organizations
                        ELSE organizations \cup {Organization0}
    /\ keyInserts' = keyInserts \cup {0}
    /\ UNCHANGED <<accounts, details, organizationKeys, requests, invites, count>>

\* An access to the database fails: the check ends, the server goes on.
CheckFails ==
    /\ \E at \in Check0 : Boot(at, "unchecked")
    /\ UNCHANGED db

--------------------------------------------------------------------------------
\* The server process.

Start ==
    /\ server = "down" /\ boots < MaxBoots
    /\ server' = "bt_account" /\ boots' = boots + 1
    /\ UNCHANGED <<vars, plan, data, members, started, disturbed>>

\* The process dies, its handlers and the insertions in flight with it.
Crash ==
    /\ server # "down" /\ boots < MaxBoots
    /\ server' = "down"
    /\ pc' = [h \in Handlers |-> IF Looping(h) \/ pc[h] \notin Stopped THEN "dead" ELSE pc[h]]
    /\ members' = [h \in Handlers |-> None]
    /\ keyInserts' = {}
    /\ UNCHANGED <<accounts, details, organizations, organizationKeys, requests,
                   invites, count, local, plan, data, boots, started, disturbed>>
--------------------------------------------------------------------------------
\* Init of Onboarding, but for the keys of the organizations present.
NodeInit ==
    /\ accounts = InitAccounts /\ details = InitDetails
    /\ organizations = InitOrganizations
    /\ organizationKeys = {o.organizationId : o \in InitOrganizations}
    /\ requests = {} /\ invites = {} /\ count = InitCount /\ keyInserts = {}
    /\ pc = [h \in Handlers |-> "idle"]
    /\ input = [h \in Handlers |-> None] /\ call = [h \in Handlers |-> None]
    /\ creator = [h \in Handlers |-> None] /\ found = [h \in Handlers |-> None]
    /\ plan \in Plans /\ data = [h \in Handlers |-> None]
    /\ members = [h \in Handlers |-> None]
    /\ server = "up" /\ boots = 1
    /\ started = [h \in Handlers |-> Nothing]
    /\ disturbed = {}

\* A step of createOrganization or createAccount.
OnboardingStep(h) ==
    /\ \/ /\ StartAsUser(h) /\ server # "down" /\ input'[h].op = plan[h]
       \/ CreateOrganizationStep(h)
       \/ CreateAccountStep(h)
    /\ IF pc[h] = "co_insert" THEN Disturb ELSE UNCHANGED disturbed
    /\ UNCHANGED <<plan, data, members, server, boots, started>>

GetConfig(h) ==
    \/ StartGetConfig(h)
    \/ GetOrganizations(h) \/ GetKeys(h) \/ GetAccounts(h) \/ GetDetails(h)

RestoreConfig(h) ==
    \/ StartRestoreConfig(h)
    \/ EnsureFewOrganizations(h) \/ EnsureFewAccounts(h)
    \/ ClearOrganizations(h) \/ ClearKeys(h) \/ ClearAccounts(h) \/ ClearDetails(h)
    \/ FillAccounts(h) \/ FillDetails(h) \/ FillOrganizations(h) \/ FillKeys(h)

BackupOrganization(h) ==
    StartBackup(h) \/ BackupOrganizationDoc(h) \/ BackupKey(h) \/ BackupMembers(h)

RestoreOrganization(h) ==
    \/ StartRestoreOrganization(h) \/ RefuseExisting(h)
    \/ UpsertKey(h) \/ UpsertOrganization(h)
    \/ NextMember(h) \/ LastMember(h) \/ UpdateRestored(h)

\* An access of a handler's fails.
FailedAccess(h) == pc[h] # "dead" /\ Abort(h) /\ UNCHANGED node

StoreOrLoseKey(id) == (StoreKey(id) \/ LoseKey(id)) /\ UNCHANGED node

CheckBuiltIn ==
    \/ ProbeAccount \/ CreateBuiltIn \/ ProbeOrganization \/ InsertOrganization0
    \/ CheckFails

NodeNext ==
    \/ \E h \in Handlers : \/ OnboardingStep(h) \/ FailedAccess(h)
                           \/ GetConfig(h) \/ RestoreConfig(h)
                           \/ BackupOrganization(h) \/ RestoreOrganization(h)
    \/ \E id \in keyInserts : StoreOrLoseKey(id)
    \/ CheckBuiltIn \/ Start \/ Crash

\* The process manager restarts the server, and the check it begins goes on.
NodeSpec == NodeInit /\ [][NodeNext]_nodeVars /\ WF_nodeVars(Start) /\ WF_nodeVars(CheckBuiltIn)

--------------------------------------------------------------------------------
\* The types of what this module adds, and of what it changes in Onboarding.
NodeTypeOK ==
    /\ \A a \in accounts : a.address \in Address /\ a.organization \in Nat \cup {None}
    /\ details \subseteq DetailDoc /\ organizations \subseteq OrganizationDoc
    /\ organizationKeys \subseteq Nat /\ count \in Nat
    /\ pc \in [Handlers -> PC \cup AdminPC \cup {"dead"}]
    /\ \A h \in Handlers : data[h] = None \/ DOMAIN data[h] \in
           {DOMAIN NoConfig, {"organization", "members"}}
    /\ server \in Check0 \cup {"down", "up", "unchecked"}
    /\ boots \in 1 .. MaxBoots
    /\ disturbed \subseteq Handlers

\* A configuration that was not torn: getConfig read the organizations first, and
\* an account created meanwhile may belong to one that it did not see.
Closed(c) == \A a \in c.accounts : \E o \in c.organizations :
                 o.organizationId = a.organization

\* A restore destroys nothing that lived on the node when it was called.  restoreConfig
\* puts aside a node with nothing on it but the built-in account and organization: of what
\* was there, it deletes no second one, however many were created while it looked.  "An
\* organization already exists with that ID" (organization.service.ts:150):
\* restoreOrganization overwrites no organization that had its key, such as one that was
\* created under the same id after the counter had started again (unless a restoreConfig
\* deletes keys meanwhile).
DestroysNothingLiving ==
    [][\A h \in Handlers :
         /\ pc[h] = "rc_clear_organizations" /\ organizations' = {} =>
              Cardinality(organizations \cap started[h].organizations) <= 1
         /\ pc[h] = "rc_clear_accounts" /\ accounts' = {} =>
              Cardinality(accounts \cap started[h].accounts) <= 1
         /\ h \notin disturbed /\ pc[h] = "ro_organization" /\ pc'[h] = "ro_members" =>
              \A o \in started[h].organizations \cap organizations :
                o.organizationId = RestoredId(h) => o = data[h].organization]_nodeVars

\* A restoreConfig that answers OK has left the whole configuration in the
\* database, and none of the accounts it found, unless another restore or a new
\* organization came between.
RestoredInFull ==
    [][\A h \in Handlers \ disturbed :
         pc[h] = "rc_fill_keys" /\ pc'[h] = "done" =>
           /\ \A a \in data[h].accounts : AccountsOf(a.address) # {}
           /\ accounts \cap started[h].accounts = {}
           /\ data[h].details \subseteq details
           /\ data[h].organizations \subseteq organizations
           /\ data[h].keys \subseteq organizationKeys']_nodeVars

\* The counter of organization ids is not part of a configuration: on the restored
\* node it starts again from 0.  All the same no organization created afterwards
\* takes the accounts of a restored one for its members, once a restore has gone
\* through undisturbed: the organization they have is the configuration's, or one that
\* restoreOrganization has put in its place.
PutBack(o) == \E g \in Handlers : /\ plan[g] = "restoreOrganization" /\ pc[g] # "idle"
                                  /\ data[g].organization = o
NoAdoption ==
    \A h \in Handlers \ disturbed :
        plan[h] = "restoreConfig" /\ pc[h] = "done" /\ Closed(data[h]) =>
          \A a \in accounts : a.id = <<h, a.address>> =>
            \A o \in OrganizationsWith(a.organization) :
              o \in data[h].organizations \/ PutBack(o)

\* The built-in account, and the organization without which it may not act.
BuiltInThere == AccountsOf(BuiltIn) # {} /\ OrganizationsWith(0) # {}

\* A node that goes down in the midst of a restore, its built-in account deleted,
\* has the account and its organization again after it has started, unless the
\* check itself fails.
Recovers ==
    (server = "down" /\ \A h \in Handlers : pc[h] \in {"done", "failed", "dead"})
      ~> (BuiltInThere \/ server = "unchecked")
================================================================================
