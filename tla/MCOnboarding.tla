----------------------------- MODULE MCOnboarding -----------------------------
(***************************************************************************)
(* Small instances of Onboarding.  The database starts as the built-in     *)
(* check and one earlier approval leave it: the built-in super account in  *)
(* organization 0, and (for the invites) the owner of organization 9.      *)
(***************************************************************************)
EXTENDS Onboarding

CONSTANTS builtIn, owner, ann, bob,      \* addresses
          ownerEmail, annEmail, bobEmail,
          acme, other, builtInTitle      \* titles

BuiltInAccount ==
    [id |-> "seed0", address |-> builtIn, level |-> 1000,
     perms |-> {"super_account", "manage_accounts", "register_accounts"},
     organization |-> 0, registeredBy |-> builtIn, active |-> TRUE]
OwnerAccount ==
    [id |-> "seed9", address |-> owner, level |-> 900,
     perms |-> {"create_asset", "create_event", "register_accounts", "manage_accounts"},
     organization |-> 9, registeredBy |-> builtIn, active |-> TRUE]
\* Its owner is config.builtinAddress, which nothing sets.
BuiltInOrganization ==
    [organizationId |-> 0, owner |-> None, title |-> builtInTitle, active |-> TRUE,
     origin |-> "boot"]
OwnerOrganization ==
    [organizationId |-> 9, owner |-> owner, title |-> acme, active |-> TRUE,
     origin |-> "boot"]

Seeds == {"seed0", "seed9"}
SeedAccounts == {BuiltInAccount, OwnerAccount}
SeedDetails == {[address |-> owner, email |-> ownerEmail]}
SeedOrganizations == {BuiltInOrganization, OwnerOrganization}

Addresses == {builtIn, owner, ann, bob}
Emails == {ownerEmail, annEmail, bobEmail}
Titles == {acme, other, builtInTitle}

\* An input with the fields that its operation does not read at fixed values.
Blank == [op |-> "createAccount", user |-> builtIn, address |-> ann,
          email |-> annEmail, title |-> None, level |-> 0, perms |-> {},
          organization |-> 9, active |-> None,
          invite |-> CHOOSE h \in Handlers : TRUE]

\* Requests for organizations, taken up by approvals and refusals, against
\* organizations created and renamed directly.
RequestInputs ==
    {[Blank EXCEPT !.op = "createOrganizationRequest", !.address = a, !.title = t] :
        a \in {ann, bob}, t \in {other, None}}
    \cup {[Blank EXCEPT !.op = o, !.address = a] :
        a \in {ann, bob},
        o \in {"organizationRequestApprove", "organizationRequestRefuse"}}
    \cup {[Blank EXCEPT !.op = "createOrganization", !.address = ann, !.title = other],
          [Blank EXCEPT !.op = "updateOrganization", !.title = other],
          [Blank EXCEPT !.op = "updateOrganization", !.organization = 0, !.active = FALSE]}

\* Invites against accounts registered directly.
InviteInputs ==
    {[Blank EXCEPT !.op = o, !.user = owner, !.email = annEmail] :
        o \in {"createOrganizationInvites", "organizationInviteExists"}}
    \cup {[Blank EXCEPT !.op = "deleteOrganizationInvite", !.user = owner, !.invite = h] :
        h \in Handlers}
    \cup {[Blank EXCEPT !.op = "acceptOrganizationInvite", !.address = a, !.invite = h] :
        a \in {ann, bob}, h \in Handlers}
    \cup {[Blank EXCEPT !.user = u, !.level = l, !.perms = p] :
        u \in {builtIn, owner}, l \in {0, 900}, p \in {{"super_account"}, {"unknown"}}}
    \cup {[Blank EXCEPT !.user = ann, !.address = bob, !.email = bobEmail,
                        !.level = 1, !.perms = {}],
          [Blank EXCEPT !.user = builtIn, !.level = 1000,
                        !.perms = {"register_accounts"}],
          [Blank EXCEPT !.user = builtIn, !.level = 2,
                        !.perms = {"register_accounts"}],
          [Blank EXCEPT !.op = "updateOrganization", !.user = owner, !.active = FALSE]}
================================================================================
