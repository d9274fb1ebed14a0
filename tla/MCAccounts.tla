------------------------------ MODULE MCAccounts ------------------------------
(***************************************************************************)
(* Small instances of Accounts: two managers and a worker of organization  *)
(* 9, a manager of organization 18, and the built-in super account of      *)
(* organization 0.                                                         *)
(***************************************************************************)
EXTENDS Accounts

CONSTANTS boss, manager, worker, other, builtIn,    \* addresses
          oldName, newName, otherName,
          bossEmail, workerEmail, newEmail

Member(a, level, perms, organization) ==
    [address |-> a, active |-> TRUE, level |-> level, perms |-> perms,
     organization |-> organization, name |-> None, email |-> None]

SeedAccounts ==
    [a \in {boss, manager, worker, other, builtIn} |->
        CASE a = boss    -> Member(a, 900, {"manage_accounts"}, 9)
          [] a = manager -> Member(a, 500, {"manage_accounts"}, 9)
          [] a = worker  -> Member(a, 1, {"create_asset"}, 9)
          [] a = other   -> Member(a, 800, {"manage_accounts"}, 18)
          [] a = builtIn -> Member(a, 1000, {"super_account", "manage_accounts"}, 0)]

\* The registration of the manager failed half-way: it has no detail.
SeedDetails ==
    [a \in {boss, manager, worker, other, builtIn} |->
        CASE a = boss   -> [name |-> oldName, email |-> bossEmail]
          [] a = worker -> [name |-> oldName, email |-> workerEmail]
          [] OTHER      -> None]

Addresses == {boss, manager, worker, other, builtIn}
Names == {oldName, newName, otherName}
Emails == {bossEmail, workerEmail, newEmail}
Organizations == {0, 9, 18}

Blank == [op |-> "modifyAccount", user |-> boss, address |-> worker, active |-> None,
          level |-> None, perms |-> None, name |-> None, email |-> None]
Detail == [Blank EXCEPT !.op = "updateAccountDetail", !.name = newName]

\* Modifications of level, permissions and activity within the organization, by
\* modifiers above and below their targets.
ModifyInputs ==
    {[Blank EXCEPT !.user = u, !.address = manager, !.level = l] :
        u \in {boss, manager}, l \in {499, 899, 900}}
    \cup {[Blank EXCEPT !.user = manager, !.address = a, !.level = 499] :
        a \in {worker, boss, other}}
    \cup {[Blank EXCEPT !.user = manager, !.address = worker, !.perms = p] :
        p \in {{"manage_accounts"}, {"super_account"}}}
    \cup {[Blank EXCEPT !.user = manager, !.address = manager, !.active = FALSE]}
    \cup {[Blank EXCEPT !.user = builtIn, !.address = a] : a \in {worker, builtIn}}

\* Updates of details: of one's own, of one another's, with an email that is
\* taken, and across organizations.
DetailInputs ==
    {[Detail EXCEPT !.user = u, !.address = a] :
        u \in {boss, manager, builtIn, worker, other}, a \in {manager, worker, builtIn}}
    \cup {[Detail EXCEPT !.email = e] : e \in {bossEmail, newEmail}}
    \cup {[Blank EXCEPT !.level = 2, !.name = otherName]}

AllInputs == ModifyInputs \cup DetailInputs
================================================================================
