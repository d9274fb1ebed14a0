-------------------------------- MODULE Serving --------------------------------
(***************************************************************************)
(* Requests that read: authentication (src/middleware/                     *)
(* amb-account.provider.ts), authorization (authorize.middleware.ts), the  *)
(* question (module Query), the answer (services, repositories and         *)
(* controllers of accounts, organizations, assets, events, bundles and     *)
(* analytics) and the status of an error (error-handler.middleware.ts).    *)
(* A client follows the cursor of a listing, each page with a new request, *)
(* while events come in and accounts and organizations are turned on and   *)
(* off.  The throttling of a test node (module Throttling) is beside it.   *)
(*                                                                         *)
(* An action is the code from one await to the next.                       *)
(*                                                                         *)
(* External: inversify-express-utils gives each request a principal (and   *)
(* services) of its own.                                                   *)
(***************************************************************************)
EXTENDS Query, Throttling

CONSTANTS Clients,
          Plans,        \* what the clients ask, where the server runs, what else may happen
          Store,        \* the documents at the start: a set for each collection
          Arriving,     \* events that may be created
          MaxChanges,   \* bound: how often an account or organization changes
          MaxListed     \* bound: how much of a listing is remembered

maxAccessLevel == 1000

Collections == {"accounts", "organization", "requests", "assets", "events", "bundles"}

\* The field that a listing is ordered by.
PaginatedField == [accounts |-> "id", organization |-> "createdOn", requests |-> "id",
                   assets |-> "time", events |-> "time", bundles |-> "id"]

--------------------------------------------------------------------------------
\* The routes.  Gated: the route has authorize(...), with the permissions in needs.

Open(collection, answers) ==
    [gated : {FALSE}, needs : {{}}, collection : {collection}, answer : answers]
Gated(collection, needs, answers) ==
    [gated : {TRUE}, needs : {needs}, collection : {collection}, answer : answers]

AccountRoutes ==
    Gated("accounts", {"super_account", "manage_accounts"}, {"page"})
    \cup Gated("accounts", {}, {"account"}) \cup Open("accounts", {"exists"})
Account2Routes ==
    Gated("accounts", {"manage_accounts"}, {"page"}) \cup Gated("accounts", {}, {"account2"})
OrganizationRoutes ==
    Gated("organization", {"super_account"}, {"page"})
    \cup Gated("organization", {}, {"organization"})
    \cup Gated("accounts", {"manage_accounts"}, {"members"})
Organization2Routes == Gated("organization", {"super_account"}, {"organization"})
RequestRoutes ==
    Gated("requests", {"super_account"}, {"page", "refused", "request"})
AssetRoutes == Open("assets", {"page", "one", "exists"})
Asset2Routes == Open("assets", {"page", "list", "one", "exists"})
EventRoutes == Open("events", {"page", "one", "exists", "latest"})
Event2Routes == Open("events", {"page", "list", "opened", "exists", "latest"})
BundleRoutes == Gated("bundles", {}, {"page", "exists"}) \cup Open("bundles", {"one"})
Bundle2Routes == Gated("bundles", {}, {"page", "one", "exists"})
AnalyticsRoutes ==
    UNION {Gated(c, {}, {"count of", "range of", "buckets of"})
           \cup Gated(c, {"super_account"}, {"count", "range", "buckets"}) :
           c \in {"assets", "events", "bundles", "accounts"}}

Routes == AccountRoutes \cup Account2Routes \cup OrganizationRoutes
          \cup Organization2Routes \cup RequestRoutes \cup AssetRoutes \cup Asset2Routes
          \cup EventRoutes \cup Event2Routes \cup BundleRoutes \cup Bundle2Routes
          \cup AnalyticsRoutes

Listings == {"page", "list", "refused", "members"}
OfOrganization == {"count of", "range of", "buckets of"}

\* An account or an organization is turned on or off.
Changed(doc) == [doc EXCEPT !.active = ~@]
Switchable(docs) ==
    \A d \in docs : /\ "active" \in DOMAIN d /\ d.active \in BOOLEAN
                   /\ d = [field \in DOMAIN d |-> d[field]]

\* All that a document of the collection may be, but for its being turned on or off.
All(k) == Store[k] \cup IF k = "events" THEN Arriving ELSE {}

ASSUME ServingAssumption ==
    /\ \A p \in Plans : \A c \in Clients :
         p.asks[c] # None =>
           /\ p.asks[c].route \in Routes
           /\ p.asks[c].token # None => p.asks[c].token.validUntil \in Nat
           /\ p.asks[c].limit # None => p.asks[c].limit \in Int
           /\ p.asks[c].start \in Int /\ p.asks[c].end \in Int
    /\ DOMAIN Store = Collections
    /\ \A k \in Collections : Listable(PaginatedField[k], All(k))
    /\ \A k \in Collections : \A d \in All(k) : "time" \in DOMAIN d => d.time \in Int
    /\ None \notin Arriving /\ \A k \in Collections : None \notin Store[k]
    /\ \A k \in {"accounts", "organization"} :
         Switchable(Store[k]) /\ \A d \in Store[k] : Changed(d) # None
    /\ \A a \in Store["accounts"] :
         {"id", "address", "organization", "accessLevel", "perms"} \subseteq DOMAIN a
    /\ \A o \in Store["organization"] : {"id", "createdOn"} \subseteq DOMAIN o
    /\ MaxChanges \in Nat /\ MaxListed \in Nat

\* The server runs in a zone, and what is asked of the analytics is within the calendar.
ASSUME AnalyticsAssumption ==
    \A p \in Plans :
        /\ p.zone \in Zones
        /\ \A c \in Clients :
             p.asks[c] # None /\ p.asks[c].route.answer \in {"buckets", "buckets of"} =>
               p.asks[c].start..p.asks[c].end \subseteq Times /\ p.asks[c].group.unit \in Units

VARIABLES
    plan,
    store,      \* the database: a set of documents for each collection
    changes,
    pc,         \* where each client's request is
    principal,  \* who asks, as far as authentication came
    next,       \* the cursor that the client sends
    answer,     \* what the request has read, and its status
    addresses,  \* analytics: the addresses of the organization
    listed,     \* history: all that the pages of a listing had, in their order
    since,      \* history: the collection when the first page was read
    usable      \* history: the accounts and organizations active during the request

serving == <<plan, store, changes, pc, principal, next, answer, addresses, listed, since, usable>>
servingVars == <<serving, now, throttlingVars>>

Asked(c) == plan.asks[c]
Docs(c) == store[Asked(c).route.collection]
Nobody == [account |-> None, organization |-> None, validUntil |-> 0]

Active == {a.address : a \in {a \in store["accounts"] : a.active}}
          \cup {o.organizationId : o \in {o \in store["organization"] : o.active}}

Continue(c, label) == pc' = [pc EXCEPT ![c] = label]

ServingPC == {"idle", "arrive", "read_account", "read_organization", "authorize", "read",
              "count", "answered"}

ServingTypeOK ==
    /\ ThrottlingTypeOK
    /\ plan \in Plans /\ changes \in 0..MaxChanges
    /\ DOMAIN store = Collections /\ store["events"] \subseteq Store["events"] \cup Arriving
    /\ pc \in [Clients -> ServingPC]
    /\ \A c \in Clients :
         /\ DOMAIN principal[c] = DOMAIN Nobody
         /\ answer[c].status \in {None, 200, 400, 403, 404, 500}
         /\ answer[c].hasNext \in BOOLEAN
         /\ pc[c] = "answered" <=> answer[c].status # None

NoAnswer == [status |-> None, docs |-> << >>, hasNext |-> FALSE, counts |-> << >>]

ServingInit ==
    /\ ThrottlingInit
    /\ plan \in Plans /\ store = Store /\ changes = 0
    /\ pc = [c \in Clients |-> IF plan.asks[c] = None THEN "idle" ELSE "arrive"]
    /\ principal = [c \in Clients |-> Nobody]
    /\ next = [c \in Clients |-> None]
    /\ answer = [c \in Clients |-> NoAnswer]
    /\ addresses = [c \in Clients |-> {}]
    /\ listed = [c \in Clients |-> << >>] /\ since = [c \in Clients |-> {}]
    /\ usable = [c \in Clients |-> [who |-> {}, at |-> 0]]

--------------------------------------------------------------------------------
\* Authentication.

\* A request without a token, or with one that cannot be decoded or whose signature is
\* not the creator's, is nobody's.
Arrive(c) ==
    LET token == Asked(c).token
    IN /\ pc[c] = "arrive"
       /\ Continue(c, IF token = None THEN "authorize" ELSE "read_account")
       /\ principal' = [principal EXCEPT ![c] =
              IF token = None THEN Nobody ELSE [Nobody EXCEPT !.validUntil = token.validUntil]]
       /\ usable' = [usable EXCEPT ![c] = [who |-> Active, at |-> now]]
       /\ UNCHANGED <<plan, store, changes, next, answer, addresses, listed, since, now, throttlingVars>>

Learn(c, field, docs, label) ==
    /\ principal' = [principal EXCEPT ![c][field] =
                        IF Cardinality(docs) = 1 THEN CHOOSE d \in docs : TRUE ELSE None]
    /\ Continue(c, label)
    /\ UNCHANGED <<plan, store, changes, next, answer, addresses, listed, since, usable, now, throttlingVars>>

\* Several accounts of one address are an error, which leaves the principal without one.
\* The organization 0 is not looked up.
ReadAccount(c) ==
    LET own == {a \in store["accounts"] : a.address = Asked(c).token.by}
    IN /\ pc[c] = "read_account"
       /\ Learn(c, "account", own, IF Cardinality(own) = 1 /\ \A a \in own : a.organization # 0
                                   THEN "read_organization" ELSE "authorize")

ReadOrganization(c) ==
    /\ pc[c] = "read_organization"
    /\ Learn(c, "organization",
             {o \in store["organization"] :
                o.organizationId = principal[c].account.organization}, "authorize")

\* An error in authentication is logged, and the request goes on with what there is.
AuthenticationFails(c) ==
    /\ pc[c] \in {"read_account", "read_organization"}
    /\ Learn(c, "organization", {}, "authorize")

--------------------------------------------------------------------------------
\* Authorization.

IsAuthorized(u) == u.account # None /\ u.validUntil # 0 /\ u.validUntil >= now
\* Variant: an account is active when there is one.
IsThere(u) == u.account # None
IsActive(u) == u.account.active
IsOrganizationActive(u) ==
    \/ u.account.organization = 0
    \/ u.organization # None /\ u.organization.active
HasPermissions(u, needs) == needs \subseteq u.account.perms
IsSuper(u) == u.account # None /\ "super_account" \in u.account.perms
Manages(u) == u.account # None /\ "manage_accounts" \in u.account.perms

MayEnter(u, route) ==
    /\ IsAuthorized(u) /\ IsActive(u) /\ IsOrganizationActive(u)
    /\ HasPermissions(u, route.needs)

\* The request is answered: the pages of a listing are put together.
Reply(c, status, docs, hasNext, counts) ==
    /\ answer' = [answer EXCEPT ![c] =
           [status |-> status, docs |-> docs, hasNext |-> hasNext, counts |-> counts]]
    /\ listed' = [listed EXCEPT ![c] =
           IF Asked(c).route.answer \in Listings /\ Len(@) <= MaxListed THEN @ \o docs ELSE @]
    /\ since' = [since EXCEPT ![c] = IF next[c] = None THEN Docs(c) ELSE @]
    /\ Continue(c, "answered")
    /\ UNCHANGED <<plan, store, changes, principal, next, addresses, usable, now, throttlingVars>>

\* errorHandler
StatusOf == [ValidationError |-> 400, RepositoryError |-> 400, PermissionError |-> 403,
             NotFoundError |-> 404, TypeError |-> 500]
Throw(c, error) == Reply(c, StatusOf[error], << >>, FALSE, << >>)

Authorize(c) ==
    /\ pc[c] = "authorize"
    /\ IF Asked(c).route.gated /\ ~MayEnter(principal[c], Asked(c).route)
       THEN Throw(c, "PermissionError")
       ELSE /\ Continue(c, "read")
            /\ UNCHANGED <<plan, store, changes, principal, next, answer, addresses, listed, since,
                           usable, now, throttlingVars>>

At(c, answers) == pc[c] = "read" /\ Asked(c).route.answer \in answers

\* A database access of the handler fails.
ReadFails(c) ==
    /\ pc[c] \in {"read", "count"}
    /\ Throw(c, "RepositoryError")

--------------------------------------------------------------------------------
\* Listings.

Condition(field, op, v) == [field |-> field, op |-> op, value |-> {v}]

\* queryEvents; getJoinPipeline, the same for one account and for many; the requests that
\* are refused, and those that are not.
Scope(u, route) ==
    CASE route.collection = "events" -> {Condition("accessLevel", "$lte", maxAccessLevel)}
      [] route.collection = "accounts" ->
            IF IsSuper(u) THEN {}
            ELSE {Condition("organization", "$eq", u.account.organization),
                  Condition("accessLevel", "$lte", u.account.accessLevel)}
      [] route.collection = "requests" /\ route.answer = "page" -> {Condition("refused", "$ne", TRUE)}
      [] route.collection = "requests" /\ route.answer = "refused" -> {Condition("refused", "$eq", TRUE)}
      [] OTHER -> {}

\* What a page is taken from.  Accounts are joined in a pipeline (aggregatePaging), and the
\* library puts its limit into that: what it cuts off before a condition is met is missing.
Pageable(c, conditions) ==
    LET asked == {d \in Docs(c) : Matches(d, conditions)}
    IN IF Asked(c).route.collection = "accounts" THEN SUBSET asked ELSE {asked}

\* What is asked for: in the body, or on event2/list and asset2/list in the parameters,
\* where the cursor is a filter as well.
Filter(c) ==
    IF Asked(c).route.answer = "list"
    THEN FromParams(IF next[c] = None THEN Asked(c).params ELSE "next" :> next[c] @@ Asked(c).params)
    ELSE GetMongoFilter(Asked(c).query)

ReadPage(c) ==
    LET route == Asked(c).route
        list == route.answer = "list"
        conditions == Override(Filter(c), Scope(principal[c], route))
    IN /\ At(c, {"page", "list", "refused"})
       /\ IF ~list /\ ~ValidateOperators(Asked(c).query) THEN Throw(c, "ValidationError")
          ELSE IF ~Accepted(conditions) THEN Throw(c, "RepositoryError")
          ELSE \E docs \in Pageable(c, conditions) :
                 LET page == FindPage(docs, PaginatedField[route.collection],
                                      IF list THEN None ELSE Asked(c).limit,
                                      IF list THEN None ELSE next[c])
                 IN Reply(c, 200, page.results, page.hasNext, << >>)

\* getAccountsByOrganization: one page.  The identifier 0 does not pass validation.
ReadMembers(c) ==
    LET u == principal[c]
        id == Asked(c).id
        conditions == Override({Condition("organization", "$eq", id)}, Scope(u, Asked(c).route))
    IN /\ At(c, {"members"})
       /\ IF id = 0 THEN Throw(c, "ValidationError")
          ELSE IF IsSuper(u) \/ (Manages(u) /\ u.account.organization = id)
          THEN \E docs \in Pageable(c, conditions) :
                 Reply(c, 200, FindPage(docs, "id", None, None).results, FALSE, << >>)
          ELSE Throw(c, "PermissionError")

\* The client asks for the page after, with the cursor of this one.
Follow(c) ==
    /\ pc[c] = "answered" /\ answer[c].hasNext
    /\ next' = [next EXCEPT ![c] = answer[c].docs[Len(answer[c].docs)]]
    /\ answer' = [answer EXCEPT ![c] = NoAnswer]
    /\ Continue(c, "arrive")
    /\ UNCHANGED <<plan, store, changes, principal, addresses, listed, since, usable, now, throttlingVars>>

--------------------------------------------------------------------------------
\* One document.

Identifier == [accounts |-> "address", organization |-> "organizationId", requests |-> "address",
               assets |-> "id", events |-> "id", bundles |-> "id"]

Found(c) == {d \in Docs(c) : d[Identifier[Asked(c).route.collection]] = Asked(c).id}

\* Who may ask: getAccount, getAccount2, getOrganization, getOrganizationRequest.
MayAsk(u, kind, id) ==
    CASE kind = "account"      -> IsSuper(u) \/ Manages(u) \/ u.account.address = id
      [] kind = "account2"     -> Manages(u) \/ u.account.address = id
      [] kind = "organization" -> IsSuper(u) \/ (u.account # None /\ u.account.organization = id)
      [] kind = "request"      -> IsSuper(u)
      [] OTHER -> TRUE

\* getJoinPipeline for a single account.
Seen(u, route, docs) ==
    IF route.answer \in {"account", "account2"}
    THEN {d \in docs : Matches(d, Scope(u, route))} ELSE docs

\* fromSingleResult of nothing is not found; event2/info opens the event before that.
ReadOne(c) ==
    LET route == Asked(c).route
        docs == Seen(principal[c], route, Found(c))
    IN /\ At(c, {"one", "opened", "account", "account2", "organization", "request", "exists"})
       /\ IF route.answer = "organization" /\ Asked(c).id = 0 THEN Throw(c, "ValidationError")
          ELSE IF ~MayAsk(principal[c], route.answer, Asked(c).id) THEN Throw(c, "PermissionError")
          ELSE IF docs = {} THEN Throw(c, IF route.answer = "opened" THEN "TypeError" ELSE "NotFoundError")
          ELSE Reply(c, 200, <<CHOOSE d \in docs : TRUE>>, FALSE, << >>)

\* getLatestAssetEventsOfType, in whatever order the database has the events.
ReadLatest(c) ==
    /\ At(c, {"latest"})
    /\ \E natural \in SetToSeqs({e \in Docs(c) : e.asset \in Asked(c).assets}) :
         Reply(c, 200, SetToSeq(LatestOfEach(natural)), FALSE, << >>)

--------------------------------------------------------------------------------
\* Analytics.

InRange(c) == {Condition("time", "$gte", Asked(c).start), Condition("time", "$lte", Asked(c).end)}

\* How many: all, those from start to end, or those of each bucket.
Counts(c, docs) ==
    LET route == Asked(c).route
        ranged == {d \in docs : Matches(d, InRange(c))}
    IN CASE route.answer \in {"count", "count of"} -> <<Cardinality(docs)>>
         [] route.answer \in {"range", "range of"} -> <<Cardinality(ranged)>>
         [] OTHER -> ParseAnalytics(ranged, Asked(c).start, Asked(c).end, plan.zone, Asked(c).group)

Count(c) ==
    /\ At(c, {"count", "range", "buckets"})
    /\ Reply(c, 200, << >>, FALSE, Counts(c, Docs(c)))

\* countLimitedByOrganization and its likes.  A user of the organization 0 has none.
ReadAddresses(c) ==
    LET u == principal[c]
        id == Asked(c).id
    IN /\ At(c, OfOrganization)
       /\ IF ~IsSuper(u) /\ ~Manages(u) THEN Throw(c, "PermissionError")
          ELSE IF ~IsSuper(u) /\ u.organization = None THEN Throw(c, "TypeError")
          ELSE IF ~IsSuper(u) /\ u.organization.organizationId # id THEN Throw(c, "PermissionError")
          ELSE /\ addresses' = [addresses EXCEPT ![c] =
                     {a.address : a \in {a \in store["accounts"] : a.organization = id}}]
               /\ Continue(c, "count")
               /\ UNCHANGED <<plan, store, changes, principal, next, answer, listed, since, usable, now,
                              throttlingVars>>

\* The documents that the organization's accounts have created; accounts, which have no
\* creator in that field, are none.
Limited(c, docs) == {d \in docs : Matches(d, {[field |-> "by", op |-> "$in", value |-> addresses[c]]})}

CountOfOrganization(c) ==
    /\ pc[c] = "count"
    /\ Reply(c, 200, << >>, FALSE, Counts(c, Limited(c, Docs(c))))

--------------------------------------------------------------------------------
\* What happens meanwhile (modules Events, Accounts and Onboarding).

CreateEvent ==
    /\ plan.events
    /\ \E e \in Arriving \ store["events"] : store' = [store EXCEPT !["events"] = @ \cup {e}]
    /\ UNCHANGED <<plan, changes, pc, principal, next, answer, addresses, listed, since, usable, now,
                   throttlingVars>>

Change ==
    /\ changes < MaxChanges /\ changes' = changes + 1
    /\ \/ \E a \in store["accounts"] :
            /\ a.address \in plan.changes
            /\ store' = [store EXCEPT !["accounts"] = (@ \ {a}) \cup {Changed(a)}]
       \/ \E o \in store["organization"] :
            /\ o.organizationId \in plan.changes
            /\ store' = [store EXCEPT !["organization"] = (@ \ {o}) \cup {Changed(o)}]
    /\ usable' = [c \in Clients |-> [usable[c] EXCEPT !.who = @ \cup Active']]
    /\ UNCHANGED <<plan, pc, principal, next, answer, addresses, listed, since, now, throttlingVars>>

Pass == now < plan.time /\ Tick /\ UNCHANGED serving
Throttled == plan.petitions /\ Throttle /\ UNCHANGED serving

Serve(c) ==
    \/ Arrive(c) \/ ReadAccount(c) \/ ReadOrganization(c) \/ AuthenticationFails(c)
    \/ Authorize(c) \/ ReadFails(c)
    \/ ReadPage(c) \/ ReadMembers(c) \/ ReadOne(c) \/ ReadLatest(c)
    \/ Count(c) \/ ReadAddresses(c) \/ CountOfOrganization(c)

ServingNext ==
    \/ \E c \in Clients : Serve(c) \/ Follow(c)
    \/ CreateEvent \/ Change \/ Pass \/ Throttled

\* The server goes on with each request, and the client with its listing.
ServingSpec ==
    /\ ServingInit /\ [][ServingNext]_servingVars
    /\ \A c \in Clients : WF_servingVars(Serve(c) \/ Follow(c))

--------------------------------------------------------------------------------
Answered(c, answers) ==
    pc[c] = "answered" /\ answer[c].status = 200 /\ Asked(c).route.answer \in answers

\* A gated route is served to nobody but a user whose account and whose organization
\* were active, each at some moment of the request, and whose token had not expired
\* when it came.  (getUser, authorize)
ServedWhileActive ==
    \A c \in Clients :
        (pc[c] = "answered" /\ answer[c].status = 200 /\ Asked(c).route.gated) =>
            LET a == principal[c].account
            IN /\ a # None
               /\ a.address \in usable[c].who
               /\ a.organization \in usable[c].who \cup {0}
               /\ Asked(c).route.needs \subseteq a.perms
               /\ Asked(c).token.validUntil >= usable[c].at

\* What a listing gives, when its last page has come: each document once, newest first,
\* with each that was there when the first page was read and that is asked for, though
\* events came in between; and none that is not asked for, unless two filters compete.
\* Nothing of the kind is said of accounts: "Aggregation isn't returning the correct data
\* with paging".  (findWithPagination, getMongoFilter, queryEvents)
ListingIsComplete ==
    \A c \in Clients :
        LET route == Asked(c).route
            scope == Scope(principal[c], route)
            asked(d) == AskedFor(Asked(c).query, scope, d)
        IN (/\ Answered(c, {"page", "refused"}) /\ route.collection # "accounts"
            /\ ~answer[c].hasNext /\ ~Compete(Asked(c).query)) =>
             /\ \A i \in 1..(Len(listed[c]) - 1) :
                  Earlier(PaginatedField[route.collection], listed[c][i], listed[c][i + 1])
             /\ \A d \in since[c] : asked(d) => \E i \in DOMAIN listed[c] : listed[c][i].id = d.id
             /\ \A i \in DOMAIN listed[c] : asked(listed[c][i])

\* Under what conditions it does so.  The queries say something, and nothing of what may
\* change while the listing is read: who asks for the organizations that are active, and one
\* is turned off before its page comes, does not get it.
Expressible ==
    \A p \in Plans, c \in Clients :
        LET q == p.asks[c].query
        IN p.asks[c] # None /\ p.asks[c].route.answer \in {"page", "refused"} =>
             /\ DOMAIN q \subseteq Int
             /\ ValidateOperators(q) =>
                  \A i \in DOMAIN q : WellFormed(q[i]) /\ q[i].field # "active"

\* Whole listings are remembered.
Remembered == \A k \in Collections : Cardinality(All(k)) <= MaxListed

\* An account is shown to a user without super_account only if it is of the same
\* organization and of no higher level, whatever the request filters for.
\* (getJoinPipeline)
AccountsInScope ==
    \A c \in Clients :
        LET u == principal[c]
        IN (Answered(c, {"page", "members", "account", "account2"})
            /\ Asked(c).route.collection = "accounts" /\ ~IsSuper(u)) =>
             \A i \in DOMAIN answer[c].docs :
                 /\ answer[c].docs[i].organization = u.account.organization
                 /\ answer[c].docs[i].accessLevel <= u.account.accessLevel

\* The latest events are the latest that there were, one for each asset that had any,
\* in whatever order the database had them.  (getLatestAssetEventsOfType)
LatestIsLatest ==
    \A c \in Clients :
        LET events == {e \in since[c] : e.asset \in Asked(c).assets}
        IN Answered(c, {"latest"}) =>
             ToSet(answer[c].docs) = {e \in events : IsLatest(e, events)}

SumOf(counts) == FoldFunction(LAMBDA m, n : m + n, 0, counts)

\* When the points of the analytics reach every document.
Complete(zone, group, start) ==
    zone = UTC /\ PointUnit(group) = GroupUnit(group) /\ Begins(GroupUnit(group), start)

\* No document is counted twice by a server whose clocks are never changed; and by one
\* that runs in UTC, for a group in lower case and a range that begins with a unit of it,
\* each is counted.  (countForTimeRangeWithAggregate, parseAnalytics)
BucketsAddUp ==
    \A c \in Clients :
        LET limited == Asked(c).route.answer = "buckets of"
            docs == {d \in IF limited THEN Limited(c, since[c]) ELSE since[c] : Matches(d, InRange(c))}
            sum == SumOf(answer[c].counts)
        IN Answered(c, {"buckets", "buckets of"}) =>
             /\ plan.zone \in Steady => sum <= Cardinality(docs)
             /\ Complete(plan.zone, Asked(c).group, Asked(c).start) => sum = Cardinality(docs)

\* Every request is answered, and every listing ends, though events come in.
EveryListingEnds ==
    \A c \in Clients :
        (plan.asks[c] # None) => <>[](pc[c] = "answered" /\ ~answer[c].hasNext)
================================================================================
