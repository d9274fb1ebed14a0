------------------------------- MODULE Accounts -------------------------------
(***************************************************************************)
(* How accounts change: AccountService.modifyAccount and                   *)
(* updateAccountDetail with the routes that call them                      *)
(* (src/controller/account2.controller.ts, account.controller.ts), the     *)
(* checks of src/security/access.check.ts, and the join of                 *)
(* AccountRepository.                                                      *)
(*                                                                         *)
(* As in Onboarding an action is the code from one await to the next, and  *)
(* a handler serves one request.  Here no account comes or goes, and an    *)
(* address has one account (Onboarding shows how it may get two, on which  *)
(* every read below throws).  An account has one or no detail document.    *)
(***************************************************************************)
EXTENDS AccessCheck

CONSTANTS Handlers, Address, Name, Email,
          None,                  \* the value of an absent field or document
          Inputs,                \* what the requests may ask
          InitAccounts,          \* the accounts at the start, by address
          InitDetails,           \* their detail documents
          ActiveOrganizations

Registered == DOMAIN InitAccounts
PermissionName == Permission \cup {"unknown"}

\* An account document with the fields that a modification copies into it from
\* the detail document: name stands for fullName and timeZone.
AccountDoc ==
    [address : Address, active : BOOLEAN, level : Nat, perms : SUBSET PermissionName,
     organization : Nat, name : Name \cup {None}, email : Email \cup {None}]
DetailDoc == [name : Name \cup {None}, email : Email \cup {None}]

\* A field is None when the request does not give it.
InputDoc ==
    [op : {"modifyAccount", "updateAccountDetail"}, user : Address, address : Address,
     active : BOOLEAN \cup {None}, level : Nat \cup {None},
     perms : (SUBSET PermissionName) \cup {None},
     name : Name \cup {None}, email : Email \cup {None}]

ASSUME InputsAssumption == Inputs \subseteq InputDoc
ASSUME AccountsAssumption ==
    /\ Registered \subseteq Address
    /\ InitAccounts \in [Registered -> AccountDoc]
    /\ InitDetails \in [Registered -> DetailDoc \cup {None}]
    /\ \A a \in Registered : InitAccounts[a].address = a
ASSUME OrganizationsAssumption == ActiveOrganizations \subseteq Nat
ASSUME NoneAssumption == None \notin Nat

VARIABLES
    accounts, details,   \* the collections
    pc,                  \* where each handler is
    input,               \* what it was asked
    principal,           \* its user's account, as authentication read it
    modifier, target,    \* the joined documents that modifyAccount read
    response             \* the account it answered with, or None

read == <<input, principal, modifier, target>>
vars == <<accounts, details, pc, read, response>>

Stopped == {"idle", "done", "failed"}
PC == Stopped \cup {"modifier", "target", "organization", "write", "access",
                    "detail", "answer"}

Continue(h, label) == pc' = [pc EXCEPT ![h] = label]

--------------------------------------------------------------------------------
\* Reads.

\* $mergeObjects: [detail, $$ROOT]; a field that the account has wins.
Merge(account, detail) ==
    [account EXCEPT !.name  = IF @ # None \/ detail = None THEN @ ELSE detail.name,
                    !.email = IF @ # None \/ detail = None THEN @ ELSE detail.email]

Joined(a) == Merge(accounts[a], details[a])

\* AccountService.getAccount: who may ask for an account ...
MayAskFor(p, a) ==
    \/ HasPermission(p, "super_account") \/ HasPermission(p, "manage_accounts")
    \/ p.address = a

\* Variant: the join forgets to match the organization.
SeesEverywhere(p, account) ==
    HasPermission(p, "super_account") \/ account.level <= p.level

\* ... and whom the $match of the join lets through.
Sees(p, account) ==
    \/ HasPermission(p, "super_account")
    \/ account.organization = p.organization /\ account.level <= p.level

--------------------------------------------------------------------------------
\* The start of a request.

Authorized(p, op) ==
    /\ p.active
    /\ p.organization = 0 \/ p.organization \in ActiveOrganizations
    /\ op = "modifyAccount" => HasPermission(p, "manage_accounts")

Start(h) ==
    /\ pc[h] = "idle"
    /\ \E i \in Inputs :
         /\ i.user \in Registered
         /\ Authorized(accounts[i.user], i.op)
         /\ input' = [input EXCEPT ![h] = i]
         /\ principal' = [principal EXCEPT ![h] = accounts[i.user]]
         /\ Continue(h, IF i.op = "modifyAccount" THEN "modifier" ELSE "access")
    /\ UNCHANGED <<accounts, details, modifier, target, response>>

--------------------------------------------------------------------------------
\* AccountService.modifyAccount

ReadModifier(h) ==
    /\ pc[h] = "modifier"
    /\ modifier' = [modifier EXCEPT ![h] = Joined(input[h].user)]
    /\ Continue(h, "target")
    /\ UNCHANGED <<accounts, details, input, principal, target, response>>

\* Variant: the new level is not compared, only the target's.
MayModifyToAnyLevel(m, t, i) ==
    /\ EnsureAccountIsActive(m)
    /\ i.level # None => EnsureAccessLevelLess(m, t.level) /\ EnsureNotSame(m, t)
    /\ EnsureSameOrganization(m, t)

\* What ensureCanModifyAccount tests before it awaits the organization; levels
\* are looked at only when the request gives one.
MayModify(m, t, i) ==
    /\ EnsureAccountIsActive(m)
    /\ i.level # None => /\ EnsureAccessLevelLess(m, t.level)
                         /\ EnsureAccessLevelLess(m, i.level)
                         /\ EnsureNotSame(m, t)
    /\ EnsureSameOrganization(m, t)

\* A target that is not there is undefined, on which the checks throw.
ReadTarget(h) ==
    LET i == input[h]
        allowed == /\ i.address \in Registered
                   /\ MayModify(modifier[h], Joined(i.address), i)
    IN /\ pc[h] = "target"
       /\ \/ /\ ~allowed
             /\ Continue(h, "failed")
             /\ UNCHANGED target
          \/ /\ allowed
             /\ target' = [target EXCEPT ![h] = Joined(i.address)]
             /\ Continue(h, "organization")
       /\ UNCHANGED <<accounts, details, input, principal, modifier, response>>

\* Variant: the permissions of the target are tested, not the new ones.
MayGrantByTarget(m, t, i) ==
    HasPermission(m, "super_account") \/ EnsureNoSuperPermission(t.perms)

\* What it tests after the await.
MayGrant(m, t, i) ==
    \/ HasPermission(m, "super_account")
    \/ i.perms # None => EnsureNoSuperPermission(i.perms)

ReadOrganization(h) ==
    LET m == modifier[h]
        allowed == /\ m.organization \in ActiveOrganizations
                   /\ MayGrant(m, target[h], input[h])
    IN /\ pc[h] = "organization"
       /\ Continue(h, IF allowed THEN "write" ELSE "failed")
       /\ UNCHANGED <<accounts, details, read, response>>

Given(field, old) == IF field = None THEN old ELSE field

\* Variant: a field that is not given is written as undefined.
ModifiedUnconditionally(t, i) ==
    [t EXCEPT !.active = i.active, !.level = i.level, !.perms = i.perms]

Modified(t, i) ==
    [t EXCEPT !.active = Given(i.active, @),
              !.level  = Given(i.level, @),
              !.perms  = Given(i.perms, @)]

\* AccountRepository.update sets every field of the joined document read before.
\* What it then reads back is not used.
WriteAccount(h) ==
    /\ pc[h] = "write"
    /\ accounts' = [accounts EXCEPT ![input[h].address] = Modified(target[h], input[h])]
    /\ Continue(h, "access")
    /\ UNCHANGED <<details, read, response>>

--------------------------------------------------------------------------------
\* AccountService.updateAccountDetail, by its own route or as the second part of
\* a modification.

CheckAccess(h) ==
    LET p == principal[h]
        a == input[h].address
        allowed == MayAskFor(p, a) /\ a \in Registered /\ Sees(p, accounts[a])
    IN /\ pc[h] = "access"
       /\ Continue(h, IF allowed THEN "detail" ELSE "failed")
       /\ UNCHANGED <<accounts, details, read, response>>

\* The upsert gives a missing detail the fields of the request only.
Updated(detail, i) ==
    LET old == Given(detail, [name |-> None, email |-> None])
    IN [name |-> Given(i.name, old.name), email |-> Given(i.email, old.email)]

\* The unique index on email counts an absent one as a value.
EmailClash(a, new) ==
    \E b \in Registered \ {a} : details[b] # None /\ details[b].email = new.email

UpdateDetail(h) ==
    LET a == input[h].address
        new == Updated(details[a], input[h])
    IN /\ pc[h] = "detail"
       /\ \/ /\ EmailClash(a, new)
             /\ Continue(h, "failed")
             /\ UNCHANGED details
          \/ /\ ~EmailClash(a, new)
             /\ details' = [details EXCEPT ![a] = new]
             /\ Continue(h, "answer")
       /\ UNCHANGED <<accounts, read, response>>

\* The account is read again, after a modification twice, and returned.
Answer(h) ==
    LET a == input[h].address
    IN /\ pc[h] = "answer"
       /\ response' = [response EXCEPT ![h] =
                         IF Sees(principal[h], accounts[a]) THEN Joined(a) ELSE None]
       /\ Continue(h, "done")
       /\ UNCHANGED <<accounts, details, read>>

--------------------------------------------------------------------------------
\* A database access fails, or the process dies.
Abort(h) ==
    /\ pc[h] \notin Stopped
    /\ Continue(h, "failed")
    /\ UNCHANGED <<accounts, details, read, response>>

Init ==
    /\ accounts = InitAccounts /\ details = InitDetails
    /\ pc = [h \in Handlers |-> "idle"]
    /\ input = [h \in Handlers |-> None]
    /\ principal = [h \in Handlers |-> None]
    /\ modifier = [h \in Handlers |-> None]
    /\ target = [h \in Handlers |-> None]
    /\ response = [h \in Handlers |-> None]

HandlerStep(h) ==
    \/ Start(h)
    \/ ReadModifier(h) \/ ReadTarget(h) \/ ReadOrganization(h) \/ WriteAccount(h)
    \/ CheckAccess(h) \/ UpdateDetail(h) \/ Answer(h)
    \/ Abort(h)

Next == \E h \in Handlers : HandlerStep(h)

Spec == Init /\ [][Next]_vars

--------------------------------------------------------------------------------
\* The types of the collections and of the handlers' local state.
TypeOK ==
    /\ accounts \in [Registered -> AccountDoc]
    /\ details \in [Registered -> DetailDoc \cup {None}]
    /\ pc \in [Handlers -> PC]
    /\ input \in [Handlers -> Inputs \cup {None}]
    /\ principal \in [Handlers -> AccountDoc \cup {None}]
    /\ modifier \in [Handlers -> AccountDoc \cup {None}]
    /\ target \in [Handlers -> AccountDoc \cup {None}]
    /\ response \in [Handlers -> AccountDoc \cup {None}]

\* Nobody rises above the ranks his organization had at the start: a level above
\* an account's first one is below the first level of some account of its
\* organization, however modifications by several modifiers, raised or lowered
\* themselves in the meantime, overwrite one another.
LevelsGrantedFromAbove ==
    \A a \in Registered :
        \/ accounts[a].level <= InitAccounts[a].level
        \/ \E b \in Registered :
             /\ InitAccounts[b].organization = InitAccounts[a].organization
             /\ accounts[a].level < InitAccounts[b].level

\* The super_account permission does not spread into an organization without
\* it, although modifyAccount writes back permissions that it read earlier.
SuperFromWithin ==
    \A a \in Registered : "super_account" \in accounts[a].perms =>
        \E b \in Registered :
            /\ InitAccounts[b].organization = accounts[a].organization
            /\ "super_account" \in InitAccounts[b].perms

\* A detail document is written for an account of the user's own organization, or
\* by a user who was a super account when authenticated, though the account and
\* the user may be modified between the check and the write.
DetailWrittenFromWithin ==
    [][\A a \in Registered : details'[a] # details[a] =>
         \E h \in Handlers :
            /\ pc[h] = "detail" /\ input[h].address = a
            /\ \/ accounts[input[h].user].organization = accounts[a].organization
               \/ "super_account" \in principal[h].perms]_vars

\* "fullName: 'Some Name'" ... "to.equal('Some Name')"
\* (test/controller/account.controller.spec.ts:139-143): an update of the detail
\* answers with the name it was given, or with one of another update.
UpdateIsReturned ==
    \A h \in Handlers :
        /\ pc[h] = "done" /\ input[h].op = "updateAccountDetail"
        /\ input[h].name # None /\ response[h] # None
        => \E g \in Handlers : /\ pc[g] # "idle"
                               /\ input[g].address = input[h].address
                               /\ response[h].name = input[g].name
================================================================================
