# Formal models of the Hermes extended node

The extended node (`src/`) is an Express/inversify server in TypeScript over
MongoDB. Organizations and accounts are registered with it, assets and events are
stored in it, and a worker (another program) bundles them. Several server
processes may run on one database; a process serves many HTTP requests at once,
and two of its handlers interleave at every `await`. The code uses no
transaction and only a handful of unique indexes, so most of what makes it
correct is the order in which a handler reads, checks and writes. That is what
the modules of this directory model.

## 1. Inventory

| component | state | operations | interacts with | what makes it correct |
|---|---|---|---|---|
| Organizations, requests, invites (`service/organization.service.ts`, its repositories and controllers) | collections `organization`, `organizationKeys`, `organizationRequest`, `organizationInvite`, `identityCounter` | create, update; request, approve, refuse; invite, resend, delete, accept; backup, restore | calls `AccountService.createAccount` in the middle of approve, accept and restore; sends emails | identifiers are unique; an approval is never lost half-way; an invite is used up only for an account |
| Accounts (`service/account.service.ts`) | collections `accounts`, `accountDetail` | createAccount, modifyAccount, updateAccountDetail, reads | reads `organization`; called by the organization service and the account controllers | one account per address; nobody grants more than he has; a detail belongs to an account |
| Access checks (`security/access.check.ts`) | none | predicates that throw | read the modifier's organization | see accounts |
| Authentication, authorization (`middleware/`, `service/auth.service.ts`) | none (a principal per request) | getUser, authorize | read `accounts`, `organization` | decisions are taken on what is in the database when the request starts |
| Migrations (`migrations/Migrator.ts`) | `migration.server`, meant to be one document: version and flag | migrate, ensureMigrationIsComplete | every server at start-up; the migrations write to other collections | every migration carried out, in order; servers exclude one another; none waits for ever |
| Built-in check (`service/builtin.service.ts`) | account and organization 0, key in the state file | checkBuiltIn | state file, repositories | both are there after a start, and the key is kept |
| Database client (`database/client.ts`) | `connected`, `db`, the event emitter; the collection each repository keeps | getConnection, connect, close/reconnect callbacks | everything | listeners hear `dbConnected` once; `connected` and `db` say what the connection is; who waits for it is answered |
| State file (`service/state.service.ts`) | `state.json`, an in-process lock | read, write, readFile, writeFile | built-in check, email, administration | a write of one key loses no other |
| Administration (`service/admin.service.ts`, `controller/admin.controller.ts`) | the four configuration collections, worker intervals, email settings | getConfig, restoreConfig, pushBundle, email settings | repositories, state file | a restore replaces a fresh node only and is complete; a node that dies in the midst can be entered again |
| Throttling (`service/throttling.service.ts`) | collection `throttling` | update, check | controllers; checked in test mode only | requests one after the other keep the pace; no record is ahead of the requests |
| Assets, events (`service/asset.service.ts`, `service/event.service.ts`) | collections `assets`, `events` | createAsset, createEvent, queries, decryption | accounts, organization keys | identifiers are unique, an event has its asset |
| Queries, pages, bundles (`util/mongo.util.ts`, `model/query/`, `base.repository.ts`, `service/bundle.service.ts`) | none of their own | filters, pages, reads | MongoDB, the user's scope | the filter is what the request says, within the user's scope; a listing is complete |
| Analytics (`service/analytics.service.ts`, `util/datetime.util.ts`) | none | counts, ranges, buckets, limited by organization | MongoDB | the buckets add up |
| Shell (validation, error handling, DI, logging, email, web3, GraphQL) | none | routes and their guards | - | only the routes that read and the status of an error are modelled |

Hard to test, and the reason for these models: two handlers between the same
check and its insertion; a handler that stops between two writes; documents read
before an `await` and used or written back after it; insertions fired and not
awaited; several servers on one migrations document; callbacks of a connection
that comes and goes. `PROJECT.json` lists each hazard at its line.

## 2. Modules

| module | models | extends / instantiates |
|---|---|---|
| `AccessCheck` | the predicates of `security/access.check.ts` | |
| `Onboarding` | how organizations and accounts come into being: ten operations, one action per stretch of code between two awaits | extends `AccessCheck`, instantiates `OnboardingContract` |
| `OnboardingContract` | the promise: petition, enroll, found, settle | |
| `MCOnboarding` | small starting databases and inputs for TLC | extends `Onboarding` |
| `OnboardingProofs`, `ApprovalProofs` | theorems about `Onboarding` | |
| `Migrator` | `Migrator.migrate` of several servers | instantiates `MigrationContract` |
| `MigrationContract` | the promise: migrations take effect in order, and a server that finished finds all of them | |
| `MigratorProofs` | theorems about `Migrator` | |
| `Accounts` | how accounts change: modifyAccount, updateAccountDetail, the join of account and detail | extends `AccessCheck` |
| `MCAccounts`, `AccountsProofs` | instance and theorems | extend `Accounts` |
| `StateStore` | the state file: the built-in key, the email settings, crash and restart | |
| `Boot` | a start: the database client, its listeners, the repositories' collections, and the built-in check that waits for them | extends `StateStore` |
| `MCBoot`, `BootProofs` | three kinds of node; theorems about `Boot` and the state file | extend `Boot` |
| `Events` | assets, events, the keys they are sealed with, the key migration | |
| `MCEvents`, `EventsProofs` | instance and theorems | extend `Events` |
| `NodeConfig` | backup and restore of a node and of an organization, beside registrations, the built-in check and crashes | extends `Onboarding` |
| `MCNodeConfig`, `NodeConfigProofs` | a fresh node and what was saved of an earlier one; theorems about restores | extend `NodeConfig` |
| `Query` | pure operators: filters, pages, the latest event of each asset, buckets; and what each is for | |
| `Throttling` | check and update of a test node | |
| `Serving` | requests that read: authentication, authorization, the routes, pages; events and deactivations meanwhile | extends `Query`, `Throttling` |
| `MCServing`, `ServingProofs` | a small database and what is asked of it; theorems about what is read | extend `Serving` |

The modules share the database but are checked one by one: what one of them takes
for fixed is what another shows (or shows not) to hold. `Accounts` takes one account
per address for granted, which `TwoAccounts` shows can fail; `Events` takes accounts
and their organizations for fixed, as nothing ever changes an account's organization;
`Events` lets two servers migrate at once because `MigratorsOverlap` shows that they do.

### Onboarding

State: the collections as sets of documents (`accounts`, `details`,
`organizations`, `organizationKeys`, `requests`, `invites`), the counter
(`count`), the key insertions that nobody waits for (`keyInserts`), and for each
handler its label `pc`, its `input`, the arguments `call` of the nested
createOrganization or createAccount, the `creator` read and the request `found`
by a refusal. Sets of documents, not functions from keys, because the code does
not keep keys unique: the model must be able to hold two accounts for one
address. A document keeps only the fields a check or a property reads;
`origin` of an organization is a history field that says which operation made it.

A label is the next database access: `ca_` labels are createAccount, `co_`
createOrganization, `uo_` updateOrganization, `rq_`, `ap_`, `rf_` the requests,
`iv_`, `ac_`, `ex_` the invites. A check that fails is an exception that nobody
catches in these handlers, so the handler goes to `failed` with what it wrote in
place. `Abort` is a database access that fails at any label, or the death of the
process seen by one handler. `StartAsUser` is the middleware's decision and the
reads of it; `Inputs` are requests that schema validation lets through.

Abstractions, each named where it is made: the email services swallow their
errors and separate no accesses; a request for invites to several emails is
several requests; `deleteExpired` deletes its invites in one step (each stays
expired, and nothing else writes to them but deletions); the reads of
createOrganizationRequest stop at the first clash instead of collecting them.
External: MongoDB, whose single-document operations are atomic and whose unique
indexes (`accountDetail.email`, `organization.organizationId`,
`organization.owner`, `organizationKeys.organizationId`) refuse duplicates.

### Migrator

The documents `{version, migrationRunning}`, each named by the server that inserted it,
and each server's label and loop counter. A flag that is absent is as good as false, and
is modelled so. The collection is meant to be one document, but initMigrationsCollection
is an upsert with an empty filter and no unique index behind it, which two servers that
both find nothing turn into two insertions: `InitMigrationsCollection`, then
`InsertDocument`. From then on an access with an empty filter is to any of them, and there
are as many flags. The other interesting line is 39: recording a version *replaces* a
document, its flag goes with it, and the next server walks in. An access may also be
carried out and its response be lost. At the acquisition of the flag that is
`LoseAcquisition`: migrate ends before its `try`, and the flag stays set. `FailToMarkAsDone` is
the release in the `finally` that throws, carried out or not. A server that leaves the flag
set in one of these ways is `lost`, as one that dies is (`Crash`); a lost response elsewhere is `Fail` after the step. `completed` is a
history variable: the migrations whose `up()` has completed at least once.

### Accounts

`accounts` and `details` are functions from addresses. A handler keeps the documents
the code keeps: the `principal` that authentication read, the `modifier` and the
`target` that modifyAccount read, both *joined* with their details. `WriteAccount`
writes the whole joined target back with the fields of the request, as
`AccountRepository.update` does with `$set`: a modification made since is undone, and
the detail's fields end up in the account. `CheckAccess`, `UpdateDetail` and `Answer`
are updateAccountDetail, which modifyAccount calls at its end and the detail route
calls alone. `Sees` is the `$match` of the join.

### StateStore

One file, `Absent`, `Broken` (emptied, cut short or two texts mixed) or its contents,
and one server that starts up to `MaxBoots` times. A boot is a handler that runs the
built-in check; each request is a handler that changes the email settings. writeFile
is two steps, `Truncate` and `Fill`. The lock of `StateService` does not appear:
the service is not bound as a singleton, so each consumer has an instance and a lock
of its own. Requests do not wait for the check: `index.ts` starts the server and
the check independently (`:77`, `:166`). `stored.early` is history, whether a request has
begun while a check still had the file to read or to write. The key's properties promise
nothing after that: `SettingsMerge` shows the loss of the key, and the next start then makes
a new one; and a check that meets the file while it is being written may replace the key as well.

### Events

`keys` is a function from organizations, since the unique index on `organizationKeys`
holds (`StoreKey` refuses a second key); an insertion that has been fired sits in
`keyInserts` until it is stored, refused or lost. `OpenCursor` guesses which of the
organizations inserted later the migration's cursor will still return.
An item of an event's data is `clear`, `sealed` with a key, `lost` (replaced by the
message that there was no key, which the code stores as if it were data) or, in an
answer, `withheld`. Documents have an `_id`, so that two events of one identifier,
which the code allows, are two. Decryption with any key but the right one throws:
AES-CBC padding and `JSON.parse` refuse what comes out.

### Boot

`conn` is the sequence of connections asked for since the start, each pending, up,
closed, lost or failed and each for one repository (or for nobody: the call of
`index.ts`). The client's own fields are `connected`, `db` and `emitter`; the last is the
number of the connection that came with the present emitter, and the listeners are
registered with the first. `Connect` is the synchronous part of `connect`, `Succeed` the
driver's callback, which writes whatever the fields are *now*. `collection` is what
`BaseRepository` keeps, `check` the connection that the built-in check waits for. Actions
of `StateStore` that reach the database need the account repository's collection and its
connection (`Reached`); all others go on without. When the process dies everything but the
file and the database is gone.

In the code the first query of the built-in check comes as soon as the state file has been
read, often before the first connection is there. `connect` then replaces the emitter and
the listeners hear nothing: neither migrations nor unique indexes are made in that start.
`HeardOnce` states what is left: with no overtaking connection, exactly once; otherwise at
most once. No comment or test says that a start migrates, so this is a hazard and not a
finding. The organization of the check is in `NodeConfig`.

### NodeConfig

Adds to `Onboarding` the handlers of the super account. `data` is what a handler takes or
puts back, `plan` what each is asked in this behaviour (a bound: the plans of
`MCNodeConfig` are the pairs and triples that touch the same collections), `server` the
process and its built-in check. `restoreConfig` is ten accesses: two counts, four
deletions, four insertions. insertMany and deleteMany are one step each; the driver
refuses an empty list, and a unique index stops insertMany after any part of the list.
`BackupMembers` saves *some* of the members: `organization.service.ts:110` asks for the first
page alone (ten, unless configured otherwise), of the aggregation described under `Serving`.
A configuration is this node's own: the refusal of another address
(`admin.service.ts:111-115`) comes before anything is read and is left out. So is the refusal
to change an `_id` at the end of restoreOrganization, which can only happen when a
restoreConfig has meanwhile replaced the document, and is a failure like any other.
`restoreOrganization` calls createAccount for one member after the other, swallows what it
throws and drops the members' organization, as `member.organizationId` is a field accounts
do not have; the order of members, newest first in the code, is open in the model.
`SavedConfigs` are configurations of an earlier database, one of them *torn* (read while an
organization was being created). `started` and `disturbed` are history. `started` is what a
restore found and what of it is still there: a document that has been deleted and put back is
not what was found, though it may be equal to it. `disturbed` has the restores that overlap
another one or an insertion of an organization, and the restoreConfig that a later one follows;
of these less is promised. `NoAdoption` makes no promise about an organization that restoreOrganization has put in the place of another
(`PutBack`), since that is what it is for.

### Query, Throttling, Serving

`Query` has no state. Each algorithm stands beside what it is for: `GetMongoFilter` beside
`Means`, `FindPage` beside the order `Earlier`, `LatestOfEach` beside `IsLatest`,
`ParseAnalytics` beside a sum. A condition is a property of a query object, so a later
filter on the same field and operator replaces an earlier one (`Compete`), one on the same
field and another operator does not. `Sorted` puts each document where the number of those
before it says, and `FindPage` takes what comes after the cursor; mongo-cursor-pagination,
which does both in the code, is external, and takes a negative limit for 1. `AskedFor` is what
the filters mean together with the user's scope.

The analytics have two calendars. The database groups documents by the text of their time in
UTC, in the unit that the request names in any spelling (`GroupUnit`). The points step from the
start of the range by the calendar of the server's zone, are given texts in that zone, and
are of the unit only if it is spelled in lower case, of the day otherwise (`PointUnit`). A point
takes the count of the group that has its text. `Text(zone, unit, time)` and
`After(zone, unit, time)` are constants: any calendar that `QueryAssumption` admits; `Steady` are
the zones whose clocks are never changed. `Points` is the least set that has the start and with
each point the next. What follows for a user of the code: `group=Hour` gives a listing of days
in which every count is 0, since no text of a day is one of an hour; a server that does not run
in UTC shifts or loses counts at the ends of the range; so does a range that does not
begin with a unit; and when clocks are put back two points an hour apart have one text, so a
group is counted twice. `BucketsAddUp` says when none of that happens. No comment or test
promises more, so these are hazards and not findings.

`Throttling` is one remote address: `throttling` its record, `fired` the writes that have
left and not arrived. A record has an `_id`, so that a whole-record update of one that lost
the race of insertion fails, as it does in MongoDB.

`Serving` composes both. A client asks one thing (`plan`): a route, which says the guard,
the collection and the way it is answered (`page`, `one`, `latest`, `buckets`, ...), a
token, filters and a limit. getUser's two reads, authorize and the query are steps of their
own; `CreateEvent` and `Change` (an account or organization switched on or off) come in
between. `Follow` is the client that asks for the next page. That a request has a `principal` of its
own rests on inversify-express-utils, which is not part of the repository. A page of accounts
is taken by an aggregation into which the library puts its limit, and which "isn't returning
the correct data with paging" (FIXME, `base.repository.ts:215`): `Pageable` lets it be taken
from any part of the accounts asked for. `AccountsInScope` holds for what is shown all the same,
and `ListingIsComplete` leaves accounts out. `listed` and `since` are history:
what the client has got, and what there was when its first page was read; so is `usable`,
who was active since the request came. Whether a document is in the user's scope is decided
by the conditions that the code spreads over the query (`Scope`, `Override`).
`Expressible` says which questions have an answer that `ListingIsComplete` can promise: a
comparison is with one value, a range has bounds that compare (or lacks one and is refused),
and no filter is on `active`. The last is a limit of the code: an account that is turned off
between two pages is missing from a listing of the active ones, though it was there when the
listing began. `Remembered` says that the bound `MaxListed` is above what can be listed.

## 3. Runs

`TypeOK` of `StateStore`, `BootTypeOK`, `NodeTypeOK` and `ServingTypeOK` state the types in these
modules and hold in the instances of their runs; the runs list the properties that say more.
All runs have `CHECK_DEADLOCK FALSE`: the requests (or servers) are finitely many
and the system stops when each has been served.

| run | shows | bounds |
|---|---|---|
| `Requests` | `FreshOrganizationId`, `MemberOfOrganization`, `NoOrphanOrganization`, `RequestRemovedWhenServed`, `KeepsContract` over requests, approvals, refusals, direct creations and updates | 3 handlers, 2 addresses, 2 titles |
| `Invites` | `TypeOK`, `NoEscalation`, `DetailHasAccount`, `InviteUsedUpOnlyForAccount` over invites against direct registrations | 3 handlers, levels 0, 1, 2, 900, 1000 |
| `TwoAccounts` | violation of `UniqueAddress` | 2 handlers |
| `Migrators` | `TypeOK`, `VersionIsHonest`, `NothingSkipped`, `ExclusiveUntilRecorded`, `KeepsContract`, `EveryServerEnds`, with failures, lost responses and crashes | 3 servers, 2 versions, up to 3 documents |
| `MigratorsOverlap` | violation of `OneMigratorAtATime` | 2 servers, 2 versions, one document |
| `Modifications` | `TypeOK`, `LevelsGrantedFromAbove`, `SuperFromWithin`, `DetailWrittenFromWithin` | 2 handlers, 5 accounts in 3 organizations, 32 requests |
| `ReturnedName` | violation of `UpdateIsReturned` | 2 handlers |
| `StateKey` (of `MCBoot`) | `AccountKeyStored`, `KeyKept`, `HeardOnce`, `FlagTells`, `CheckEnds`; with crashes, restarts and requests at any time | 3 starts and 3 changes of the settings on one connection; 2 starts, 1 change, 2 connections and the check's, 1 outage; 1 start, 3 connections, 3 outages |
| `SettingsMerge` | violation of `MergeKeepsKey` | 1 start, 1 change |
| `Events` | `TypeOK`, `SealedStaysReadable`, `KeyedAfterMigration`, `EventHasAsset`, `DisclosedOnlyAbove` | 4 handlers up to symmetry, 3 organizations (one without a key, one created), levels 0, 1, 500 |
| `Restore` | `NoAdoption`, `DestroysNothingLiving`, `RestoredInFull`, `Recovers` | 3 handlers in 6 plans, 2 starts, 2 saved configurations, 1 saved organization |
| `Serving` | `ServedWhileActive`, `ListingIsComplete`, `AccountsInScope`, `LatestIsLatest`, `BucketsAddUp`, `PaceKept`, `EveryListingEnds` | 2 clients in 99 plans, 4 events and 2 that arrive, 6 accounts in 3 organizations, 2 changes, pages of 1 to 3, buckets of 4 units in 3 zones; 2 petitioners, 3 requests counted, 4 seconds |

Why the bounds are enough to be interesting. An approval interleaves with at most
two others that touch its documents (another approval and a refusal). For invites the
third handler lets a second acceptance, a deletion or a registration run between the
two accesses of the other two. Three servers let a slow one be overtaken twice, so the
recorded version goes back (2, then 1), and let two that have made a document each be joined by
one that finds both. A lost update needs two modifications, and the
accounts of `Modifications` stand above, below and outside one another. Three starts
are one that dies, one that repairs and one that reads the result. `Events` needs two
migrations to fire two keys for one organization, a third handler to seal with the
first of them, and a fourth to read. A restore needs a registration that slips between its
counts and its deletions, or a getConfig and a creation to make its configuration torn, and
one crash; a second crash finds nothing new, as a start depends on the database alone. Three
connections are two that are alive at once and one that comes after a loss, and three
outages let the two close and come back in either order. Pages of one document among events
of equal timestamps put every document on a page boundary; an arriving event may be older,
newer or of the same timestamp as the cursor. Three counted requests make the interval grow
twice. The theorems below remove the bounds for the
properties they cover.

Fairness is assumed for four properties. For `EveryServerEnds`: weak fairness of each live
server's steps. A node process whose event loop runs does take its next step, and the wait
is a poll that tries again after each sleep, so a server that finds the flag free
for ever takes it. A poll may miss the flag each time it is free for a moment; it
is free only finitely often before the last server has released it for good, so
weak fairness suffices. The property is conditional: a server that dies while it holds
the flag makes the others wait for ever, and so does one with its process alive whose
acquisition lost its response or whose release failed, which is what the code does. For `CheckEnds`: the driver answers or times out each connection and ends each outage
(`reconnectTries`), and the event loop carries the check on; the check may still hang on a
connection that fails, which the property says. For `Recovers`: the process manager starts
the server again, and the event loop carries the built-in check on, which may fail at any
access; that is in the property too. For `EveryListingEnds`: the server goes on with each
request, which may end in an error, and the client asks for the next page as long as there
is one; only finitely many events arrive. Nothing is assumed elsewhere: every handler may
stop anywhere.

### The violations

* `UniqueAddress`: `createAccount` refuses with "An account already exists with
  this address" (`service/account.service.ts:73`), but the check and the insertion
  are awaits apart and `accounts.address` has no unique index. Two registrations
  of one address, or an acceptance and a registration, both insert. `getAccount`
  then throws for that address, which can no longer authenticate.
* `OneMigratorAtATime`, of a collection that is one document as meant: "Another migration is running. Waiting for it to end."
  (`Migrator.ts:116`) is not what happens after the first version of a run has been
  recorded. `VersionIsHonest` and `NothingSkipped` say why the overlap is harmless
  for the version, `SealedStaysReadable` and `KeyedAfterMigration` why it is for the
  key migration; it still makes two servers carry out the same migration. (Two documents
  break the sentence even before: then two servers may migrate from the start.)
* `UpdateIsReturned`: the test `test/controller/account.controller.spec.ts:139`
  expects an update of a detail to answer with the new name. After any modifyAccount
  it does not: the modification has copied the old name into the account document,
  and the join prefers the account's fields.
* `MergeKeepsKey`: "Merge state.json and mailInfo contents"
  (`controller/admin.controller.ts:105`) merges into a copy. A key that the built-in
  check has stored since the copy was read is not in it, and is overwritten.

Two more sentences of the code that the code does not keep, for which there is no run of their
own. The exception of `ensureAccessLevelLess` (`security/access.check.ts:46`) says that the level
"must be less or equal" to the modifier's; the test in the line above it refuses equality, and so
does the name of the function. `NoEscalation` states what the test does; its mutant
`EnsureAccessLevelLessOrEqual` is what the message says, and `NoEscalation` is violated by it. One
of the two, message or test, is wrong, and only its authors can say which. The other is the FIXME of
`aggregatePaging`, see `Serving` in section 2.

## 4. Theorems

Each module of theorems assumes what the modules under it say of their constants: that the
starting database, the requests and the plans are well typed. These are `InputsAssumption`,
`IdAssumption`, `SeedAssumption` (a detail has its account, seeds are not approvals, their
identifiers have been counted) of `Onboarding`; `MigratorAssumption`; `InputsAssumption`,
`AccountsAssumption`, `OrganizationsAssumption` and `NoneAssumption` of `Accounts`;
`UsersAssumption`, `OrganizationsAssumption`, `NoneAssumption` and `InputsAssumption` of
`Events`; `StateAssumption` and `BootAssumption`; `ThrottlingAssumption`;
`QueryAssumption` (the calendar: where clocks are never changed texts go on with time and a unit
later stands the next; in UTC a unit after the beginning of one the next begins) and
`AnalyticsAssumption` (buckets are asked of times and units of that calendar);
`ServingAssumption` (the documents of a collection have identifiers of their own, the fields
they are listed by, and those that the scopes compare; times, and the ends of a range, are
whole seconds, as `datetime.util.ts:76` makes of the start it is given); `NodeAssumption` (what
has been saved is finite and its accounts have addresses, the requests beside the restores are
creations, and the collections at the start are finite and have none of the ids that restores
and starts give). TLC evaluates all of them in the runs.

One theorem has hypotheses besides: `ListingsComplete` takes `Expressible` and `Remembered`, which
`MCServing` assumes of its instance, so that TLC evaluates them. No theorem has a hypothesis about
when requests are served; where the code can break a promise, the exception is in the property
itself (`stored.early` in `KeyKept` and `AccountKeyStored`, the number of documents in
`ExclusiveUntilRecorded`, `Steady` and `Complete` in `BucketsAddUp`).

The theorems, and the inductive invariants they rest on:

* `ApprovalProofs!TypeCorrect`, `NoOrphan`, `DetailsOwned`, `RemovedWhenServed`,
  `Implements`. `TypeOK` is not inductive: a document is built from a handler's
  `call`, so `LocalInv` (in `OnboardingProofs`) states what `input`, `call` and `creator` are
  at each label. `NoOrphanOrganization` is not inductive either: `ApprovalInv` says what
  an approval in the middle relies on. Before it inserts the organization its
  address is pending (it has an account, or a request, perhaps not the one it
  found); after that the organization stays, because no handler deletes one and
  an update keeps id and owner; after the account that stays too. `IInv` is the
  conjunction. `WritesOf` (only six actions write to the three collections) keeps
  the step proofs short, and the refinement to `OnboardingContract` has one case
  for each of the six.
* `OnboardingProofs!IdentifiersFresh`. `IdInv`: every identifier in use, stored, on its way or
  taken by a handler, is at most `count`, so that the next one is in use nowhere.
* `ApprovalProofs!NothingEscalates`, `MembersHoused`. What createAccount has tested of the
  creator it has read must still be true at the insertion some awaits later. `CreatorInv`: the
  creator read is still among the accounts, was of the level and permissions that were tested,
  and its organization is there. `SponsorInv`: from the moment a registration or an invite is
  on its way, somebody of its maker's address is in the organization it is for. Both last
  because these operations add accounts and never change one (`Accounts`, which does, keeps
  the organization of each).
* `ApprovalProofs!InvitesServed`. `InviteInv`: an invite has the name of the handler that made
  it, which is through, so no other invite comes under a name that an acceptance remembers;
  the one it found is the one it deletes, and by then its email and organization are those
  of an account.
* `MigratorProofs!TypeCorrect`, `Honest`, `NoneSkipped`, `Exclusive`, `Implements`.
  The loop invariant `LoopInv`: whoever looks at file `f` knows that `1 .. f-1` are completed
  and, having run `f`, that `f` is. It holds although versions go back because
  what a server passes over is at most the recorded version, which is honest.
  `FlagInv` is for `Exclusive`: while nothing is recorded, the servers at work are no more than
  the flags that are up, since only who takes a flag that is down goes to work and only who
  ends puts one down; a lost response leaves a flag up too many.
* `AccountsProofs!TypeCorrect`, `LevelsBounded`, `SuperConfined`, `DetailsConfined`.
  A handler writes what it read some steps earlier, so the bounds must hold of the
  documents in the handlers' hands too: `Genuine(a, doc)` says that `doc` is one that
  account `a` could have had, and `LocalInv` that modifier, target and principal are
  genuine as long as they will still be used, and that at the write the requested
  level and permissions are within the bounds, though the modifier that justified
  them may have lost his rank.
* `EventsProofs!TypeCorrect`, `Readable`, `NonePassedOver`, `AssetsThere`,
  `DisclosureBounded`. One small invariant each, over the common `TypeInv`. `KeyInv`:
  items sealed for an event that is not yet inserted are readable too, and
  `KeysKept`, the unique index, carries them over every step. `MigrationInv`: what a
  cursor is through with is `Keyed`, and stays so however the insertion ends.
  `DisclosureInv`: nothing above level 0 is, or is about to be, stored in clear, and
  whoever is opening items has the level.
* `BootProofs!BootTypeCorrect`, `ListenersHearOnce`, `FlagIsTrue`. Of the client's state only
  what relates its fields is needed. `EmitterInv`: the emitter is the last connection's, so the
  listeners, who are on the first, hear at most the first. `DatabaseInv`: a collection and `db`
  are of connections that have been up, and while at most one connection is alive it is the
  one that `db` stands for. A connection that was closed and reconnects keeps its number.
* `BootProofs!AccountKeySafe`, `IdentityKept`, both from `FileInv`: as long as no request has come
  too early, `TurnInv` and `KeyInv` hold. `TurnInv`: the check of the present start has the file
  alone, and requests have it after it. `KeyInv`: a check that is going to write has found that no
  complete file has had a key, and finds the file still as it was, so a file that is broken
  stops it; a request that is going to write holds the last key.
* `ServingProofs!GatesHold`, from `UsersKnown`. `UserInv`: what authentication has read and what
  authorization has tested, label by label, stays true to the answer; each read falls on a
  moment of the request at which the document was active.
* `ServingProofs!PaceHolds`. The writes of `update` are fired, arrive in any order or fail, so
  both the stored record and those on their way must be counted. `CountInv`: none of them
  counts more than was granted. `PaceInv`: while requests come one after the other, all
  records on their way are one and the same, and when it has arrived it has exactly what was
  granted; then a request that passes `check` is due.
* `ServingProofs!ScopeHolds`. The scope of the principal binds every conjunction that a handler
  builds, whatever the filters are (`ScopeBinds`), and what is answered satisfies it
  (`PageInScope`, `ReadOneScoped`).
* `ServingProofs!ListingsComplete`. Three lemmas about the operators of `Query`: `SortedFacts`
  (`Sorted` has each document once and in order: the rank is a bijection), `PageFacts` (a page
  is the beginning of what comes after the cursor, and `hasNext` tells whether more does) and
  `FilterSays` (the conditions that GetMongoFilter writes say what the filters mean, unless two
  compete). `ListedInv`: what has been read so far is in order and asked for, and what was
  there when the first page was read has been read or comes after the cursor; `PageJoins`
  carries it from one page to the next. `DocsInv` makes it last while
  documents change under the listing: an account may be turned off, but keeps what it is
  compared by, so the scope is the same on every page.
* `ServingProofs!LatestHolds`. `OnceInv`: what is asked once is asked without a cursor and
  answered of the collection as it was read, so `since` is that collection. What is left is a
  fact about `LatestOfEach`, a fold over the events in any order (`LatestFacts`). The induction
  theorems of the library are out of reach, as they take an operator; instead `FoldsAgree`
  argues by a least counterexample among the subsets of a finite set (`SmallestSet`, from the
  library's theorem that strict inclusion is well founded): two functions on the subsets that
  agree on the empty one, and on each other one if they agree without some element, agree on
  all. `MeetOne` is the step: the latest of each asset so far and one more event.
* `ServingProofs!BucketsHold`, from `OnceInv` as well. `FoldsAgree` gives `SumOfParts`: the sum
  of the sizes of disjoint parts is the size of their union. The rest is about any calendar
  that `QueryAssumption` admits. `PointsFollow`: each point but the first comes a unit after
  another, as the points are the least closed set. So where clocks are never changed each
  point has a text of its own and no group is taken twice (`PointsApart`); and in UTC, from a
  start that begins a unit on, every time of the range has the text of a point (`PointsReach`).
* `NodeConfigProofs!NothingLivingDestroyed`, `ConfigurationRestored`, `NobodyAdopted`, for any
  handlers, configurations and starts, from `NodeInv`. `PlanInv` ties each handler's label to
  what it was asked, `FiniteInv` and `AddressInv` say that what may be put back is well formed.
  `FoundInv`: past each of the counts, at most one of what the restore found is still
  there, however many were created since. `AloneInv`: an undisturbed restoreConfig is the only
  restore, and while an undisturbed restoreOrganization or creation adds, no restoreConfig is
  going on.
  `FilledInv`: label by label, what an undisturbed restore has put back is there, and what it has
  cleared away is not. `KeptInv`: an account with an id that restoreConfig gives has an
  organization of the configuration, and each identifier of those is taken, by the
  configuration's organization or one put back, so that no creation can take it although the
  counter starts again.

Only model-checked:

* `EveryServerEnds`, `CheckEnds`, `Recovers`, `EveryListingEnds`: liveness. The prover does
  neither fairness nor ENABLED.

## 5. Plan

Order: the most state shared by the most handlers first.

1. (done) `Onboarding`, `Migrator`, their contracts and first theorems.
2. (done) `Accounts` and its theorems; `StateStore`; `Events` and its theorems.
3. (done) `NodeConfig`: backups and restores against registrations, the built-in check and
   crashes.
4. (done) `Query`, `Throttling` and `Serving`: what is read, by whom, and how long it takes.
5. (done) `Boot`: the database client and the built-in check that waits for it.
6. Left to model, each small: two servers whose built-in checks overlap; the test mode's use
   of the state file; listings of invites with their expiry.
7. (done) Theorems for every invariant and every action property that the runs check, those of
   `NodeConfig` and the folds of `Query` last.

## 6. Not modelled

Listed with reasons in `PROJECT.json`. In short: cryptography and web3, email and
SMS delivery, schema validation, GraphQL, logging, the worker. `pushBundle` inserts one record
for the worker and does not wait for it. `Serving` leaves out text search, distinct types,
new key pairs, the public details of an account, the stream of a bundle's contents, the
`previous` cursor, filters on fields that only the join adds (they match nothing), and the
unpaged lists of assets; pages of events are decrypted event by event as in `Events`. Invites
are listed after deleteExpired, which is in `Onboarding`. Two servers that start at once on
one database make two built-in accounts: nothing prevents it, and no property promises it.

Known and without a property, because the code does it every time or nothing in the code
prevents it, beside the hazards of `PROJECT.json` that carry a note: `createAsset` and
`createEvent` check identifiers without an index behind the check (`asset.service.ts:74`,
`event.service.ts:216`), as `createOrganizationInvites` does emails (`organization.service.ts:426`);
`restoreOrganization` that stops after its key cannot be repeated (`:155`), gives members no
organization (`:162`) and writes back a document that may have been updated (`:176`);
`fromRequest2` makes `limit` and `next` filters, so GET event2/list and asset2/list cannot be
paged (`api-query.model.ts:77`); filters of accounts are matched before the detail is joined
(`account.repository.ts:154`); a manager of the organization 0 has no organization document
(`analytics.service.ts:56`); the addresses of an organization are read before its documents are
counted (`analytics.service.ts:64`); the ten second timer of a close may take a later outage
for its own, and only logs (`client.ts:100`).
`resendOrganizationInvites` rewrites the invite it has read without changing a
field. The test mode (`config.test.mode`) that approves a request in the handler
that made it is a request followed by an approval of it; that it also asks for the
built-in key, and so may write the state file, is left out of `StateStore`. So is the
reload of the email settings after a change: `admin.controller.ts:44` is injected with
a `StateService` where it wants an `EmailService`, so the reload throws in a promise
that nobody awaits and changes nothing. An event without an access level, which schema
validation admits, is stored in clear and never found again; `Events` has only levels.

## 7. Running

    tlc -workers 4 -config Requests.cfg MCOnboarding
    tlc -workers 4 -config Migrators.cfg Migrator
    tlc -workers 4 -config Modifications.cfg MCAccounts
    tlc -workers 4 -config StateKey.cfg MCBoot
    tlc -workers 4 -config Events.cfg MCEvents
    tlc -workers 4 -config Restore.cfg MCNodeConfig
    tlc -workers 4 -config Serving.cfg MCServing
    tlapm ApprovalProofs.tla

and likewise `tlapm` on `OnboardingProofs`, `MigratorProofs`, `AccountsProofs`, `EventsProofs`,
`BootProofs`, `NodeConfigProofs` and `ServingProofs` (the last takes a few minutes).
