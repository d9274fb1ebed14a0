------------------------------- MODULE MCEvents -------------------------------
(***************************************************************************)
(* Small instances of Events: organization 9 has no key at the start, as   *)
(* before the migration, organization 0 has one, and 18 may be created.    *)
(***************************************************************************)
EXTENDS Events, TLC

CONSTANTS low, high, newcomer,      \* users
          oldKey, oldAsset, newAsset, event

SeedUsers == [u \in {low, high, newcomer} |->
    CASE u = low      -> [level |-> 1, organization |-> 9]
      [] u = high     -> [level |-> 500, organization |-> 9]
      [] u = newcomer -> [level |-> 2, organization |-> 18]]
SeedIdentifiers == {0, 9, 18}
SeedOrganizations == {0, 9}
SeedKeys == [o \in SeedIdentifiers |-> IF o = 0 THEN oldKey ELSE None]

Blank == [op |-> "migrate", user |-> None, assetId |-> newAsset, eventId |-> event,
          level |-> 0, items |-> 0]
Create(u, a, level, items) ==
    [Blank EXCEPT !.op = "createEvent", !.user = u, !.assetId = a,
                  !.level = level, !.items = items]

SeedInputs ==
    {Blank, [Blank EXCEPT !.op = "createOrganization"]}
    \cup {[Blank EXCEPT !.op = "createAsset", !.user = low]}
    \cup {Create(low, newAsset, 0, 1), Create(low, oldAsset, 500, 2),
          Create(newcomer, oldAsset, 1, 1)}
    \cup {[Blank EXCEPT !.op = "getEvent", !.user = u] : u \in {low, high, None}}

Symmetry == Permutations(Handlers)
================================================================================
