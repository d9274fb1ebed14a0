-------------------------- MODULE OnboardingContract --------------------------
(***************************************************************************)
(* What onboarding promises, without handlers: an address petitions for an *)
(* organization; an organization is founded only for an address that has   *)
(* petitioned or that already is a member; and a petition is settled only  *)
(* once its address is a member.  So nobody who got an organization is     *)
(* left without both an account and a petition to take up again.           *)
(***************************************************************************)
CONSTANT Address

VARIABLES petitions,   \* addresses with a request on file
          members,     \* addresses with an account
          founders     \* owners of the organizations founded on a petition

vars == <<petitions, members, founders>>

Petition(a) == petitions' = petitions \cup {a} /\ UNCHANGED <<members, founders>>

Enroll(a) == members' = members \cup {a} /\ UNCHANGED <<petitions, founders>>

Found(a) ==
    /\ a \in petitions \cup members
    /\ founders' = founders \cup {a}
    /\ UNCHANGED <<petitions, members>>

Settle(a) ==
    /\ a \in petitions \cap members
    /\ petitions' = petitions \ {a}
    /\ UNCHANGED <<members, founders>>

Init == petitions = {} /\ members \subseteq Address /\ founders = {}

Next == \E a \in Address : Petition(a) \/ Enroll(a) \/ Found(a) \/ Settle(a)

Spec == Init /\ [][Next]_vars
================================================================================
