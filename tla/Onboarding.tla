------------------------------ MODULE Onboarding ------------------------------
(***************************************************************************)
(* How organizations and accounts come into being: the handlers of the     *)
(* organization request, organization invite, organization and account     *)
(* controllers (src/controller/organization*.ts, account2.controller.ts)   *)
(* over OrganizationService and AccountService, and the MongoDB            *)
(* collections they share.                                                 *)
(*                                                                         *)
(* A handler is one HTTP request being served.  Between two awaits it runs *)
(* alone; at every await the other handlers, of this and of other server   *)
(* processes, may run.  Each action below is the code from one await to    *)
(* the next.  An await that reaches no collection (sending an email, whose *)
(* failures EmailService swallows) separates no two accesses and has no    *)
(* step of its own.                                                        *)
(*                                                                         *)
(* A handler serves one request; the number of requests is the number of   *)
(* handlers.  A request that the authorize middleware or the schema        *)
(* validation turns away changes nothing and is not started.               *)
(***************************************************************************)
EXTENDS AccessCheck

CONSTANTS Handlers,           \* the requests served
          Address, Email, Title,
          None,               \* the value of an absent field
          Inputs,             \* what the requests may ask
          SeedIds,            \* ids of the documents present at the start
          InitAccounts, InitDetails, InitOrganizations,
          InitCount           \* the organization counter at the start

Ops == {"createAccount", "createOrganization", "updateOrganization",
        "createOrganizationRequest", "organizationRequestApprove",
        "organizationRequestRefuse", "createOrganizationInvites",
        "deleteOrganizationInvite", "acceptOrganizationInvite",
        "organizationInviteExists"}

DocId == Handlers \cup SeedIds
\* organizationRequestApprove names a title-less organization after an email.
OrganizationTitle == Title \cup {<<email>> : email \in Email}
PermissionName == Permission \cup {"unknown"}

InputDoc ==
    [op : Ops, user : Address, address : Address, email : Email,
     title : Title \cup {None}, level : Nat, perms : SUBSET PermissionName,
     organization : Nat, active : BOOLEAN \cup {None}, invite : Handlers]

AccountDoc ==
    [id : DocId, address : Address, level : Nat, perms : SUBSET Permission,
     organization : Nat, registeredBy : Address, active : BOOLEAN]
DetailDoc == [address : Address, email : Email]
\* origin is not in the code: it records which operation made the document.
OrganizationDoc ==
    [organizationId : Nat, owner : Address \cup {None}, title : OrganizationTitle \cup {None},
     active : BOOLEAN, origin : {"boot", "direct", "request"}]
RequestDoc ==
    [id : Handlers, address : Address, email : Email,
     title : Title \cup {None}, refused : BOOLEAN]
InviteDoc ==
    [id : Handlers, organizationId : Nat, email : Email,
     createdBy : Address, expired : BOOLEAN]
\* The arguments with which a handler calls createAccount and createOrganization.
CallDoc ==
    [address : Address, email : Email, level : Nat, perms : SUBSET PermissionName,
     organization : Nat, by : Address, title : OrganizationTitle \cup {None}]

ASSUME InputsAssumption == Inputs \subseteq InputDoc
ASSUME IdAssumption == Handlers \cap SeedIds = {}
\* The database the server starts on: what createAccount, createOrganization
\* and the built-in check (src/service/builtin.service.ts) leave behind.
ASSUME SeedAssumption ==
    /\ InitAccounts \subseteq {a \in AccountDoc : a.id \in SeedIds}
    /\ InitDetails \subseteq DetailDoc
    /\ \A d \in InitDetails : \E a \in InitAccounts : a.address = d.address
    /\ InitOrganizations \subseteq {o \in OrganizationDoc : o.origin = "boot"}
    /\ InitCount \in Nat
    /\ \A o \in InitOrganizations : o.organizationId <= InitCount

VARIABLES
    \* the collections
    accounts, details, organizations, organizationKeys, requests, invites,
    count,        \* identityCounter.count
    keyInserts,   \* key insertions fired by createOrganization and not awaited
    \* the handlers
    pc,           \* where each handler is
    input,        \* what it was asked
    call,         \* the arguments of its createOrganization or createAccount
    creator,      \* the creator that createAccount read, or None
    found         \* the request document that organizationRequestRefuse read

db == <<accounts, details, organizations, organizationKeys, requests, invites,
        count, keyInserts>>
local == <<input, call, creator, found>>
vars == <<db, pc, local>>

Stopped == {"idle", "done", "failed"}

PC == Stopped \cup
      {"co_account", "co_title", "co_owner", "co_counter", "co_insert",
       "ca_address", "ca_email", "ca_creator", "ca_organization", "ca_insert",
       "ca_detail", "uo_title", "uo_update", "rq_email", "rq_address",
       "rq_title", "rq_account", "rq_detail", "rq_organization", "rq_insert",
       "ap_find", "ap_delete", "rf_find", "rf_update", "iv_expired", "iv_account",
       "iv_invite", "iv_insert", "iv_delete", "ac_expired", "ac_find", "ac_delete",
       "ex_expired"}

--------------------------------------------------------------------------------
\* Reads of a collection.

AccountsOf(address) == {a \in accounts : a.address = address}
OrganizationsWith(id) == {o \in organizations : o.organizationId = id}
EmailInUse(email) == \E d \in details : d.email = email
\* existsOR on a field the object does not have answers undefined: no clash.
TitleInUse(title) == title # None /\ \E o \in organizations : o.title = title

Continue(h, label) == pc' = [pc EXCEPT ![h] = label]

\* A step that only reads: go on when the test is passed, throw otherwise.
Check(h, at, passed, next) ==
    /\ pc[h] = at
    /\ Continue(h, IF passed THEN next ELSE "failed")
    /\ UNCHANGED <<db, local>>

--------------------------------------------------------------------------------
\* The start of a request: authentication, authorization, first label.

\* The operations whose routes have an authorize middleware, and what it asks.
UserOps == Ops \ {"createOrganizationRequest", "acceptOrganizationInvite",
                  "organizationInviteExists"}

Required(op) ==
    CASE op = "createAccount" -> "register_accounts"
      [] op \in {"updateOrganization", "createOrganizationInvites",
                 "deleteOrganizationInvite"} -> "manage_accounts"
      [] OTHER -> "super_account"

Entry(op) ==
    CASE op = "createAccount"              -> "ca_address"
      [] op = "createOrganization"         -> "co_account"
      [] op = "updateOrganization"         -> "uo_title"
      [] op = "createOrganizationRequest"  -> "rq_email"
      [] op = "organizationRequestApprove" -> "ap_find"
      [] op = "organizationRequestRefuse"  -> "rf_find"
      [] op = "createOrganizationInvites"  -> "iv_expired"
      [] op = "deleteOrganizationInvite"   -> "iv_delete"
      [] op = "acceptOrganizationInvite"   -> "ac_expired"
      [] op = "organizationInviteExists"   -> "ex_expired"

\* The middleware lets the user p do i: p is active, so is its organization (the
\* built-in one always is), and it has the permission the route names; only the
\* owner of an organization, or a super account, may update it.
Authorized(p, i) ==
    /\ p.active
    /\ p.organization = 0 \/ \E o \in OrganizationsWith(p.organization) : o.active
    /\ HasPermission(p, Required(i.op))
    /\ i.op = "updateOrganization" =>
         \/ HasPermission(p, "super_account")
         \/ /\ p.organization = i.organization
            /\ \E o \in OrganizationsWith(p.organization) : o.owner = p.address

\* The call of createAccount or createOrganization that the input amounts to.
CallFor(i, organization) ==
    [address |-> i.address, email |-> i.email, level |-> i.level,
     perms |-> i.perms, organization |-> organization, by |-> i.user,
     title |-> i.title]

Begin(h, i, organization) ==
    /\ Continue(h, Entry(i.op))
    /\ input' = [input EXCEPT ![h] = i]
    /\ call' = [call EXCEPT ![h] = CallFor(i, organization)]
    /\ UNCHANGED <<db, creator, found>>

\* A request with a token: an address that several accounts have is nobody.
StartAsUser(h) ==
    /\ pc[h] = "idle"
    /\ \E i \in Inputs : \E p \in AccountsOf(i.user) :
         /\ i.op \in UserOps
         /\ AccountsOf(i.user) = {p}
         /\ Authorized(p, i)
         /\ Begin(h, i, p.organization)

StartAnonymously(h) ==
    /\ pc[h] = "idle"
    /\ \E i \in Inputs :
         /\ i.op \notin UserOps
         /\ Begin(h, i, 0)

--------------------------------------------------------------------------------
\* OrganizationService.createOrganization

\* Variant: the approval forgets the account.
AfterOrganizationWithoutAccount(op) ==
    IF op = "createOrganization" THEN "done" ELSE "ap_delete"

\* Where the caller of createOrganization goes on: the route of its own, or the
\* approval of a request.
AfterOrganization(op) == IF op = "createOrganization" THEN "done" ELSE "ca_address"

CheckOwnerHasNoAccount(h) ==
    Check(h, "co_account", AccountsOf(call[h].address) = {}, "co_title")

CheckTitleIsFree(h) ==
    Check(h, "co_title", ~TitleInUse(call[h].title), "co_owner")

CheckOwnerIsFree(h) ==
    Check(h, "co_owner", \A o \in organizations : o.owner # call[h].address,
          "co_counter")

\* Variant: the counter's value from before the increment (returnOriginal: true).
IdentifierBeforeIncrement(h) ==
    /\ pc[h] = "co_counter"
    /\ count' = count + 9
    /\ call' = [call EXCEPT ![h].organization = count]
    /\ Continue(h, "co_insert")
    /\ UNCHANGED <<accounts, details, organizations, organizationKeys, requests,
                   invites, keyInserts, input, creator, found>>

\* getNewOrganizationIdentifier: one atomic increment by 9.
GetNewOrganizationIdentifier(h) ==
    /\ pc[h] = "co_counter"
    /\ count' = count + 9
    /\ call' = [call EXCEPT ![h].organization = count']
    /\ Continue(h, "co_insert")
    /\ UNCHANGED <<accounts, details, organizations, organizationKeys, requests,
                   invites, keyInserts, input, creator, found>>

\* Variant: the rejected insertion of the organization is not awaited either.
InsertOrganizationUnawaited(h) ==
    /\ pc[h] = "co_insert"
    /\ keyInserts' = keyInserts \cup {call[h].organization}
    /\ UNCHANGED organizations
    /\ Continue(h, AfterOrganization(input[h].op))
    /\ UNCHANGED <<accounts, details, organizationKeys, requests, invites,
                   count, local>>

NewOrganization(c, op) ==
    [organizationId |-> c.organization, owner |-> c.address, title |-> c.title,
     active |-> TRUE,
     origin |-> IF op = "createOrganization" THEN "direct" ELSE "request"]

\* OrganizationRepository.createOrganization: the insertion of the key is fired
\* first and nobody waits for it; that of the organization fails when one of the
\* unique indexes on organizationId and owner already has its value.
InsertOrganization(h) ==
    LET new == NewOrganization(call[h], input[h].op)
        clash == \E o \in organizations : \/ o.organizationId = new.organizationId
                                          \/ o.owner = new.owner
    IN /\ pc[h] = "co_insert"
       /\ keyInserts' = keyInserts \cup {new.organizationId}
       /\ \/ /\ clash
             /\ Continue(h, "failed")
             /\ UNCHANGED organizations
          \/ /\ ~clash
             /\ organizations' = organizations \cup {new}
             /\ Continue(h, AfterOrganization(input[h].op))
       /\ UNCHANGED <<accounts, details, organizationKeys, requests, invites,
                      count, local>>

\* The key arrives ...
StoreKey(id) ==
    /\ id \in keyInserts
    /\ keyInserts' = keyInserts \ {id}
    /\ organizationKeys' = organizationKeys \cup {id}
    /\ UNCHANGED <<accounts, details, organizations, requests, invites, count,
                   pc, local>>

\* ... or it does not, and the rejection is logged as unhandled.
LoseKey(id) ==
    /\ id \in keyInserts
    /\ keyInserts' = keyInserts \ {id}
    /\ UNCHANGED <<accounts, details, organizations, organizationKeys, requests,
                   invites, count, pc, local>>

--------------------------------------------------------------------------------
\* AccountService.createAccount

\* Where the caller of createAccount goes on.
AfterAccount(op) == CASE op = "createAccount"              -> "done"
                      [] op = "organizationRequestApprove" -> "ap_delete"
                      [] op = "acceptOrganizationInvite"   -> "ac_delete"

CheckAddressIsFree(h) ==
    Check(h, "ca_address", AccountsOf(call[h].address) = {}, "ca_email")

CheckEmailIsFree(h) ==
    Check(h, "ca_email", ~EmailInUse(call[h].email), "ca_creator")

\* getAccount throws when several accounts have the address, and gives
\* undefined, on which the next line throws, when none has.
ReadCreator(h) ==
    LET fit == {c \in AccountsOf(call[h].by) :
                  /\ AccountsOf(call[h].by) = {c}
                  /\ MayCreateAccount(c, call[h])}
    IN /\ pc[h] = "ca_creator"
       /\ \/ /\ fit = {}
             /\ Continue(h, "failed")
             /\ UNCHANGED creator
          \/ \E c \in fit :
               /\ creator' = [creator EXCEPT ![h] = c]
               /\ Continue(h, "ca_organization")
       /\ UNCHANGED <<db, input, call, found>>

CheckCreatorOrganization(h) ==
    Check(h, "ca_organization",
          MayCreateFor(OrganizationsWith(creator[h].organization), creator[h], call[h]),
          "ca_insert")

\* Variant: a failed insertion is caught and not thrown again.
InsertAccountSwallowing(h) ==
    /\ pc[h] = "ca_insert"
    /\ Continue(h, "ca_detail")
    /\ UNCHANGED <<db, local>>

NewAccount(h, c) ==
    [id |-> h, address |-> c.address, level |-> c.level, perms |-> c.perms,
     organization |-> c.organization, registeredBy |-> c.by, active |-> TRUE]

\* No index makes the address of an account unique.
InsertAccount(h) ==
    /\ pc[h] = "ca_insert"
    /\ accounts' = accounts \cup {NewAccount(h, call[h])}
    /\ Continue(h, "ca_detail")
    /\ UNCHANGED <<details, organizations, organizationKeys, requests, invites,
                   count, keyInserts, local>>

\* Variant: the refused second document is caught and not thrown again.
InsertDetailSwallowing(h) ==
    /\ pc[h] = "ca_detail"
    /\ details' = IF EmailInUse(call[h].email) THEN details
                  ELSE details \cup {[address |-> call[h].address,
                                      email |-> call[h].email]}
    /\ Continue(h, AfterAccount(input[h].op))
    /\ UNCHANGED <<accounts, organizations, organizationKeys, requests, invites,
                   count, keyInserts, local>>

\* The unique index on accountDetail.email may refuse the second document; the
\* account stays.
InsertDetail(h) ==
    /\ pc[h] = "ca_detail"
    /\ \/ /\ EmailInUse(call[h].email)
          /\ Continue(h, "failed")
          /\ UNCHANGED details
       \/ /\ ~EmailInUse(call[h].email)
          /\ details' = details \cup {[address |-> call[h].address,
                                       email |-> call[h].email]}
          /\ Continue(h, AfterAccount(input[h].op))
    /\ UNCHANGED <<accounts, organizations, organizationKeys, requests, invites,
                   count, keyInserts, local>>

--------------------------------------------------------------------------------
\* OrganizationService.updateOrganization

CheckNewTitleIsFree(h) ==
    Check(h, "uo_title", ~TitleInUse(input[h].title), "uo_update")

Updated(o, i) ==
    [o EXCEPT !.title = IF i.title = None THEN @ ELSE i.title,
              !.active = IF i.active = None THEN @ ELSE i.active]

UpdateOrganization(h) ==
    /\ pc[h] = "uo_update"
    /\ organizations' =
         {IF o.organizationId = input[h].organization THEN Updated(o, input[h]) ELSE o :
            o \in organizations}
    /\ Continue(h, "done")
    /\ UNCHANGED <<accounts, details, organizationKeys, requests, invites, count,
                   keyInserts, local>>

--------------------------------------------------------------------------------
\* OrganizationService.createOrganizationRequest

\* The six reads, in order, each with the read that follows it.  The code
\* collects what clashes in a collection before it throws; nothing is written
\* in between, so a handler that will throw is stopped at its first clash.
RequestChecks == {"rq_email", "rq_address", "rq_title", "rq_account", "rq_detail",
                  "rq_organization"}

AfterRequestCheck(at) ==
    CASE at = "rq_email"        -> "rq_address"
      [] at = "rq_address"      -> "rq_title"
      [] at = "rq_title"        -> "rq_account"
      [] at = "rq_account"      -> "rq_detail"
      [] at = "rq_detail"       -> "rq_organization"
      [] at = "rq_organization" -> "rq_insert"

RequestClash(at, i) ==
    CASE at = "rq_email"   -> \E r \in requests : r.email = i.email
      [] at = "rq_address" -> \E r \in requests : r.address = i.address
      [] at = "rq_title"   -> i.title # None /\ \E r \in requests : r.title = i.title
      [] at = "rq_account" -> AccountsOf(i.address) # {}
      [] at = "rq_detail"  -> EmailInUse(i.email)
      [] at = "rq_organization" -> TitleInUse(i.title)

CheckRequest(h) ==
    \E at \in RequestChecks :
        Check(h, at, ~RequestClash(at, input[h]), AfterRequestCheck(at))

NewRequest(h, i) == [id |-> h, address |-> i.address, email |-> i.email,
                     title |-> i.title, refused |-> FALSE]

InsertRequest(h) ==
    /\ pc[h] = "rq_insert"
    /\ requests' = requests \cup {NewRequest(h, input[h])}
    /\ Continue(h, "done")
    /\ UNCHANGED <<accounts, details, organizations, organizationKeys, invites,
                   count, keyInserts, local>>

--------------------------------------------------------------------------------
\* OrganizationService.organizationRequestApprove and organizationRequestRefuse

RequestsFrom(address) == {r \in requests : r.address = address}

OrganizationOwner == {"create_asset", "create_event", "register_accounts",
                      "manage_accounts"}

CallForRequest(c, r) ==
    [address |-> c.address, email |-> r.email, level |-> 900,
     perms |-> OrganizationOwner, organization |-> c.organization, by |-> c.by,
     title |-> IF r.title = None THEN <<r.email>> ELSE r.title]

\* A refused request is found like any other.  findOne gives any of the matches.
FindRequestToApprove(h) ==
    /\ pc[h] = "ap_find"
    /\ \/ /\ RequestsFrom(input[h].address) = {}
          /\ Continue(h, "failed")
          /\ UNCHANGED call
       \/ \E r \in RequestsFrom(input[h].address) :
            /\ call' = [call EXCEPT ![h] = CallForRequest(@, r)]
            /\ Continue(h, "co_account")
    /\ UNCHANGED <<db, input, creator, found>>

\* deleteOne removes one of the matches, or nothing when there is none left.
DeleteRequest(h) ==
    /\ pc[h] = "ap_delete"
    /\ \/ /\ RequestsFrom(input[h].address) = {}
          /\ UNCHANGED requests
       \/ \E r \in RequestsFrom(input[h].address) : requests' = requests \ {r}
    /\ Continue(h, "done")
    /\ UNCHANGED <<accounts, details, organizations, organizationKeys, invites,
                   count, keyInserts, local>>

FindRequestToRefuse(h) ==
    /\ pc[h] = "rf_find"
    /\ \/ /\ RequestsFrom(input[h].address) = {}
          /\ Continue(h, "failed")
          /\ UNCHANGED found
       \/ \E r \in RequestsFrom(input[h].address) :
            /\ found' = [found EXCEPT ![h] = r.id]
            /\ Continue(h, "rf_update")
    /\ UNCHANGED <<db, input, call, creator>>

\* Variant: refusing deletes the request.
RefuseRequestDeleting(h) ==
    /\ pc[h] = "rf_update"
    /\ requests' = {r \in requests : r.id # found[h]}
    /\ Continue(h, "done")
    /\ UNCHANGED <<accounts, details, organizations, organizationKeys, invites,
                   count, keyInserts, local>>

\* The update is not an upsert.  It writes the whole document read before, _id
\* included, which MongoDB refuses when it matches another document.
RefuseRequest(h) ==
    /\ pc[h] = "rf_update"
    /\ \/ /\ RequestsFrom(input[h].address) = {}
          /\ Continue(h, "done")
          /\ UNCHANGED requests
       \/ \E r \in RequestsFrom(input[h].address) :
            \/ /\ r.id # found[h]
               /\ Continue(h, "failed")
               /\ UNCHANGED requests
            \/ /\ r.id = found[h]
               /\ requests' = (requests \ {r}) \cup {[r EXCEPT !.refused = TRUE]}
               /\ Continue(h, "done")
    /\ UNCHANGED <<accounts, details, organizations, organizationKeys, invites,
                   count, keyInserts, local>>

--------------------------------------------------------------------------------
\* The invites.  A request naming several emails is that many requests naming
\* one: the loop treats its emails one after the other and independently.

\* deleteExpired finds the expired invites and deletes each; once expired an
\* invite stays so, and the deletions are one step here.  createOrganization-
\* Invites and acceptOrganizationInvite begin with it; getOrganizationInvites and
\* organizationInviteExists only read after it.
DeleteExpired(h) ==
    /\ \/ pc[h] = "iv_expired" /\ Continue(h, "iv_account")
       \/ pc[h] = "ac_expired" /\ Continue(h, "ac_find")
       \/ pc[h] = "ex_expired" /\ Continue(h, "done")
    /\ invites' = {v \in invites : ~v.expired}
    /\ UNCHANGED <<accounts, details, organizations, organizationKeys, requests,
                   count, keyInserts, local>>

CheckInviteeHasNoAccount(h) ==
    Check(h, "iv_account", ~EmailInUse(input[h].email), "iv_invite")

CheckInviteIsNew(h) ==
    Check(h, "iv_invite", \A v \in invites : v.email # input[h].email, "iv_insert")

\* OrganizationInvite.forEmail
NewInvite(h, c) == [id |-> h, organizationId |-> c.organization, email |-> c.email,
                    createdBy |-> c.by, expired |-> FALSE]

InsertInvite(h) ==
    /\ pc[h] = "iv_insert"
    /\ invites' = invites \cup {NewInvite(h, call[h])}
    /\ Continue(h, "done")
    /\ UNCHANGED <<accounts, details, organizations, organizationKeys, requests,
                   count, keyInserts, local>>

DeleteOrganizationInvite(h) ==
    /\ pc[h] = "iv_delete"
    /\ invites' = {v \in invites : v.id # input[h].invite}
    /\ Continue(h, "done")
    /\ UNCHANGED <<accounts, details, organizations, organizationKeys, requests,
                   count, keyInserts, local>>

CallForInvite(c, v) ==
    [address |-> c.address, email |-> v.email, level |-> 1,
     perms |-> {"create_asset", "create_event"},
     organization |-> v.organizationId, by |-> v.createdBy, title |-> c.title]

FindInvite(h) ==
    LET named == {v \in invites : v.id = input[h].invite}
    IN /\ pc[h] = "ac_find"
       /\ \/ /\ named = {}
             /\ Continue(h, "failed")
             /\ UNCHANGED call
          \/ \E v \in named :
               /\ call' = [call EXCEPT ![h] = CallForInvite(@, v)]
               /\ Continue(h, "ca_address")
       /\ UNCHANGED <<db, input, creator, found>>

DeleteAcceptedInvite(h) ==
    /\ pc[h] = "ac_delete"
    /\ invites' = {v \in invites : v.id # input[h].invite}
    /\ Continue(h, "done")
    /\ UNCHANGED <<accounts, details, organizations, organizationKeys, requests,
                   count, keyInserts, local>>

--------------------------------------------------------------------------------
\* validUntil passes.
Expire(v) ==
    /\ ~v.expired
    /\ invites' = (invites \ {v}) \cup {[v EXCEPT !.expired = TRUE]}
    /\ UNCHANGED <<accounts, details, organizations, organizationKeys, requests,
                   count, keyInserts, pc, local>>

\* A database access fails, or the server process dies: the handler goes no
\* further and nothing that it wrote is taken back.
Abort(h) ==
    /\ pc[h] \notin Stopped
    /\ Continue(h, "failed")
    /\ UNCHANGED <<db, local>>

Init ==
    /\ accounts = InitAccounts
    /\ details = InitDetails
    /\ organizations = InitOrganizations
    /\ organizationKeys = {} /\ requests = {} /\ invites = {}
    /\ count = InitCount
    /\ keyInserts = {}
    /\ pc = [h \in Handlers |-> "idle"]
    /\ input = [h \in Handlers |-> None]
    /\ call = [h \in Handlers |-> None]
    /\ creator = [h \in Handlers |-> None]
    /\ found = [h \in Handlers |-> None]

CreateOrganizationStep(h) ==
    \/ CheckOwnerHasNoAccount(h) \/ CheckTitleIsFree(h) \/ CheckOwnerIsFree(h)
    \/ GetNewOrganizationIdentifier(h) \/ InsertOrganization(h)

CreateAccountStep(h) ==
    \/ CheckAddressIsFree(h) \/ CheckEmailIsFree(h) \/ ReadCreator(h)
    \/ CheckCreatorOrganization(h) \/ InsertAccount(h) \/ InsertDetail(h)

RequestStep(h) ==
    \/ CheckRequest(h) \/ InsertRequest(h)
    \/ FindRequestToApprove(h) \/ DeleteRequest(h)
    \/ FindRequestToRefuse(h) \/ RefuseRequest(h)

InviteStep(h) ==
    \/ DeleteExpired(h) \/ CheckInviteeHasNoAccount(h) \/ CheckInviteIsNew(h)
    \/ InsertInvite(h) \/ DeleteOrganizationInvite(h)
    \/ FindInvite(h) \/ DeleteAcceptedInvite(h)

HandlerStep(h) ==
    \/ StartAsUser(h) \/ StartAnonymously(h)
    \/ CreateOrganizationStep(h) \/ CreateAccountStep(h)
    \/ CheckNewTitleIsFree(h) \/ UpdateOrganization(h)
    \/ RequestStep(h) \/ InviteStep(h)
    \/ Abort(h)

Next ==
    \/ \E h \in Handlers : HandlerStep(h)
    \/ \E id \in keyInserts : StoreKey(id) \/ LoseKey(id)
    \/ \E v \in invites : Expire(v)

Spec == Init /\ [][Next]_vars

--------------------------------------------------------------------------------
\* The types of the collections and of the handlers' local state.
TypeOK ==
    /\ accounts \subseteq AccountDoc
    /\ details \subseteq DetailDoc
    /\ organizations \subseteq OrganizationDoc
    /\ organizationKeys \subseteq Nat /\ keyInserts \subseteq Nat
    /\ requests \subseteq RequestDoc
    /\ invites \subseteq InviteDoc
    /\ count \in Nat
    /\ pc \in [Handlers -> PC]
    /\ input \in [Handlers -> Inputs \cup {None}]
    /\ call \in [Handlers -> CallDoc \cup {None}]
    /\ creator \in [Handlers -> AccountDoc \cup {None}]
    /\ found \in [Handlers -> Handlers \cup {None}]

\* An organization that an approval created is never lost half-way: its owner
\* has an account, or the request is still on file and can be taken up again
\* (organizationRequestApprove deletes the request last).
NoOrphanOrganization ==
    \A o \in organizations : o.origin = "request" =>
        AccountsOf(o.owner) # {} \/ RequestsFrom(o.owner) # {}

\* A request leaves the collection only when its address has an account in an
\* organization that it owns, whatever the order of two approvals, a refusal and
\* an abort.
RequestRemovedWhenServed ==
    [][\A r \in requests : (\A q \in requests' : q.id # r.id) =>
         \E a \in accounts, o \in organizations :
            /\ a.address = r.address /\ o.owner = r.address
            /\ a.organization = o.organizationId]_vars

\* An invite that has not expired leaves the collection only by the hand of
\* deleteOrganizationInvite, or when the invited email belongs to an account of
\* the organization that invited it: acceptOrganizationInvite uses up no invite
\* without giving the account for it.
InviteUsedUpOnlyForAccount ==
    [][\A v \in invites : (\A w \in invites' : w.id # v.id) =>
         \/ v.expired
         \/ \E h \in Handlers : pc[h] = "iv_delete" /\ input[h].invite = v.id
         \/ \E d \in details, a \in accounts :
              /\ d.email = v.email /\ a.address = d.address
              /\ a.organization = v.organizationId]_vars

\* Nobody hands out as much as he has: the account that registered another one
\* stands above it (unless the new account has no level at all), and only a super
\* account registers super accounts, whichever way the registration went: directly,
\* by an approval or by an invite that somebody else accepts.  "Above" is what the
\* test says (modifier.accessLevel <= accessLevel throws, access.check.ts:45); its
\* message, "must be less or equal", would let equals through.
NoEscalation ==
    \A a \in accounts : a.id \in Handlers =>
        \E c \in AccountsOf(a.registeredBy) :
            /\ a.level = 0 \/ a.level < c.level
            /\ "super_account" \in a.perms => "super_account" \in c.perms

\* Every account made by a handler belongs to an organization that exists, which
\* is the organization of the account that registered it or one that it owns.
MemberOfOrganization ==
    \A a \in accounts : a.id \in Handlers =>
        /\ OrganizationsWith(a.organization) # {}
        /\ \/ \E c \in AccountsOf(a.registeredBy) : c.organization = a.organization
           \/ \E o \in OrganizationsWith(a.organization) : o.owner = a.address

\* The identifier a handler has taken from the counter is its own: no
\* organization has it, nor a handler about to insert one, so that the unique
\* index never refuses an organization for its id and no key is another's.
FreshOrganizationId ==
    \A h \in Handlers : pc[h] = "co_insert" =>
        /\ OrganizationsWith(call[h].organization) = {}
        /\ call[h].organization \notin keyInserts \cup organizationKeys
        /\ \A g \in Handlers \ {h} :
             pc[g] = "co_insert" => call[g].organization # call[h].organization

\* A detail document belongs to an account: createAccount inserts it second.
DetailHasAccount == \A d \in details : AccountsOf(d.address) # {}

\* Onboarding keeps the promise of OnboardingContract, under the reading of the
\* collections below.
Contract == INSTANCE OnboardingContract WITH
    petitions <- {r.address : r \in requests},
    members   <- {a.address : a \in accounts},
    founders  <- {o.owner : o \in {x \in organizations : x.origin = "request"}}

\* Every step of a handler is a step of the contract or no step of it: founding
\* needs a pending request or an account, and settling an account, at the moment
\* of the write and not only when the handler looked.
KeepsContract == Contract!Spec

\* "An account already exists with this address" (account.service.ts:73): the
\* address of an account is its alone.  The check and the insertion are some
\* awaits apart, and no index backs the check.
UniqueAddress ==
    \A a, b \in accounts : a.address = b.address => a.id = b.id
================================================================================
