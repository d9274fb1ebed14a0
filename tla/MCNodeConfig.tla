----------------------------- MODULE MCNodeConfig -----------------------------
(***************************************************************************)
(* A small node, fresh but for what was saved of an earlier database.      *)
(***************************************************************************)
EXTENDS NodeConfig, TLC

CONSTANTS owner, ann, bob, ownerEmail, annEmail, bobEmail, acme, other,
          seed0, seed9, h1, h2, h3

Account(id, address, level, perms, organization, by) ==
    [id |-> id, address |-> address, level |-> level, perms |-> perms,
     organization |-> organization, registeredBy |-> by, active |-> TRUE]

Super == Account(seed0, BuiltIn, 1000,
                 {"super_account", "manage_accounts", "register_accounts"}, 0, BuiltIn)
Owner == Account(seed9, owner, 900, {"register_accounts"}, 9, BuiltIn)
Acme == [organizationId |-> 9, owner |-> owner, title |-> acme, active |-> TRUE,
         origin |-> "boot"]

\* The node after its first start ...
Seeds == {seed0, seed9}
SeedAccounts == {Super}
SeedDetails == {}
SeedOrganizations == {Organization0}

\* ... and what was saved of the database it had before: an organization whose owner
\* the super account had registered, and the same while the organization was being
\* created.
Details == {[address |-> owner, email |-> ownerEmail]}
Whole == [organizations |-> {Organization0, Acme}, keys |-> {0, 9},
          accounts |-> {Super, Owner}, details |-> Details]
Torn == [Whole EXCEPT !.organizations = {Organization0}, !.keys = {0}]
Configurations == {Whole, Torn}
Acmes == {[organization |-> Acme,
           members |-> {[address |-> owner, level |-> 900, perms |-> {"register_accounts"},
                         email |-> ownerEmail, by |-> BuiltIn, organization |-> None,
                         title |-> None]}]}

Addresses == {BuiltIn, owner, ann, bob}
Emails == {ownerEmail, annEmail, bobEmail}
Titles == {acme, other, BuiltInTitle}

Blank == [op |-> "createAccount", user |-> BuiltIn, address |-> ann,
          email |-> annEmail, title |-> None, level |-> 1, perms |-> {},
          organization |-> 9, active |-> None,
          invite |-> CHOOSE h \in Handlers : TRUE]

\* The super account registers an account and founds an organization.
NodeInputs ==
    {Blank,
     [Blank EXCEPT !.op = "createOrganization", !.address = bob, !.title = other]}

Plan(a, b, c) == h1 :> a @@ h2 :> b @@ h3 :> c
NodePlans ==
    {Plan("restoreConfig", "restoreConfig", None),
     Plan("restoreConfig", "restoreOrganization", None),
     Plan("restoreConfig", "getConfig", "createOrganization"),
     Plan("restoreConfig", "createAccount", None),
     Plan("restoreOrganization", "createOrganization", None),
     Plan("restoreOrganization", "backupOrganization", "createAccount")}
================================================================================
