------------------------------ MODULE AccessCheck ------------------------------
(***************************************************************************)
(* The predicates of src/security/access.check.ts.  In the code each one   *)
(* throws when it is false; here each is a Boolean operator, and a caller  *)
(* turns FALSE into the failure of its handler.  The two checks that await *)
(* the modifier's organization are given the document that was read, so    *)
(* that a caller can put the read and the tests that follow it in a step   *)
(* of their own.                                                           *)
(*                                                                         *)
(* An account is a record with at least the fields address, level, perms,  *)
(* organization and active; levels are natural numbers, 0 being the level  *)
(* that JavaScript takes for "no level given".                             *)
(***************************************************************************)
EXTENDS Naturals

\* The permissions the program knows; a request may name others.
Permission == {"super_account", "register_accounts", "manage_accounts",
               "create_asset", "create_event"}

HasPermission(account, permission) == permission \in account.perms

EnsureAccountIsActive(modifier) == modifier.active

\* Variant, "less or equal" as the message of the check has it.
EnsureAccessLevelLessOrEqual(modifier, level) == level = 0 \/ modifier.level >= level

\* A level of 0 is falsy: the comparison is skipped.  Otherwise the new level must be
\* less, though the message of the exception has it "must be less or equal"
\* (src/security/access.check.ts:46).
EnsureAccessLevelLess(modifier, level) == level = 0 \/ modifier.level > level

EnsureNotSame(modifier, target) == modifier.address # target.address

EnsureSameOrganization(modifier, target) ==
    modifier.organization = target.organization

EnsureNoSuperPermission(perms) == "super_account" \notin perms

\* Variant: the permissions are not validated.
EnsureAnyPermissions(account) == TRUE

EnsureCorrectPermissions(account) == account.perms \subseteq Permission

\* What ensureCanCreateAccount tests before it awaits the organization ...
MayCreateAccount(creator, new) ==
    /\ EnsureAccountIsActive(creator)
    /\ EnsureAccessLevelLess(creator, new.level)
    /\ EnsureCorrectPermissions(new)

\* ... and what it tests on the organization document it then gets; found is
\* the set of documents with the creator's organization id.
MayCreateFor(found, creator, new) ==
    /\ \E o \in found : o.active
    /\ HasPermission(creator, "super_account") \/ EnsureNoSuperPermission(new.perms)
================================================================================
