------------------------------- MODULE Throttling -------------------------------
(***************************************************************************)
(* The throttling of a test node (src/service/throttling.service.ts), by   *)
(* createOrganizationReguest for the item "organization" and by            *)
(* createOrganizationInvite for the item "account".  One remote address:   *)
(* the records of two addresses have nothing to do with each other.        *)
(*                                                                         *)
(* An action is the code from one await to the next.  update awaits its    *)
(* read only: the insertion of a new record and the update are fired, and  *)
(* reach the database later, in any order, or never.                       *)
(***************************************************************************)
EXTENDS Naturals, Sequences

CONSTANTS Petitioners,  \* the handlers of requests from the address
          Interval,     \* config.test.intervals: a function from the items
          MaxNow,       \* bound: seconds since the start
          MaxGranted,   \* bound: requests counted
          NoRecord

Items == {"organization", "account"}

\* What a record says of an item, and a record.
Entry0 == [count : 0..MaxGranted, last : 0..MaxNow]
Record == [_id : 0..MaxGranted, items : [Items -> Entry0 \cup {NoRecord}]]

ASSUME ThrottlingAssumption ==
    /\ Interval \in [Items -> Nat] /\ MaxNow \in Nat /\ MaxGranted \in Nat
    /\ NoRecord \notin Record /\ NoRecord \notin Entry0

VARIABLES
    now,
    throttling, \* the record of the address, NoRecord while there is none
    fired,      \* insertions and updates that have not reached the database
    petition,   \* where each handler is, and for which item
    granted,    \* history: when each item was counted
    crossed     \* history: a request began while another was not settled

throttlingVars == <<throttling, fired, petition, granted, crossed>>

Write == [op : {"create", "update"}, record : Record]

Total == Len(granted["organization"]) + Len(granted["account"])

Idle0 == [at |-> "idle", item |-> "account"]

ThrottlingTypeOK ==
    /\ now \in 0..MaxNow
    /\ throttling \in Record \cup {NoRecord}
    /\ fired \subseteq Write
    /\ petition \in [Petitioners -> [at : {"idle", "work", "get"}, item : Items]]
    /\ \A i \in Items : \A k \in DOMAIN granted[i] : granted[i][k] \in 0..MaxNow
    /\ crossed \in BOOLEAN

ThrottlingInit ==
    /\ now = 0 /\ throttling = NoRecord /\ fired = {}
    /\ petition = [p \in Petitioners |-> Idle0]
    /\ granted = [i \in Items |-> << >>]
    /\ crossed = FALSE

Tick ==
    /\ now < MaxNow /\ now' = now + 1
    /\ UNCHANGED throttlingVars

--------------------------------------------------------------------------------
\* Variant: the interval does not grow.
WaitAlike(item) ==
    IF throttling = NoRecord \/ throttling.items[item] = NoRecord THEN FALSE
    ELSE LET entry == throttling.items[item] IN Interval[item] > now - entry.last

\* check: the interval grows by a quarter with each request counted.
Wait(item) ==
    IF throttling = NoRecord THEN FALSE
    ELSE IF throttling.items[item] = NoRecord THEN FALSE
    ELSE LET entry == throttling.items[item]
         IN 4 * Interval[item] + Interval[item] * (entry.count - 1) > 4 * (now - entry.last)

Settled == fired = {} /\ \A p \in Petitioners : petition[p].at = "idle"

\* A request for an organization is created and approved before it is counted; the
\* invites are counted before they are created.
Check(p) ==
    /\ petition[p].at = "idle"
    /\ Total < MaxGranted
    /\ \E item \in Items :
         /\ ~Wait(item)
         /\ petition' = [petition EXCEPT ![p] =
                [at |-> IF item = "organization" THEN "work" ELSE "get", item |-> item]]
    /\ crossed' = (crossed \/ ~Settled)
    /\ UNCHANGED <<now, throttling, fired, granted>>

\* Creation and approval (module Onboarding); a request that fails is not counted.
Work(p) ==
    /\ petition[p].at = "work"
    /\ \E at \in {[petition[p] EXCEPT !.at = "get"], Idle0} :
         petition' = [petition EXCEPT ![p] = at]
    /\ UNCHANGED <<now, throttling, fired, granted, crossed>>

Counted(record, item) ==
    LET entry == IF record.items[item] = NoRecord THEN [count |-> 0, last |-> 0]
                 ELSE record.items[item]
    IN [record EXCEPT !.items[item] = [count |-> entry.count + 1, last |-> now]]

\* update, with the record that get has found; a new one gets an _id as it is inserted.
Update(p) ==
    LET item == petition[p].item
        fresh == [_id |-> Total, items |-> [i \in Items |-> NoRecord]]
        record == Counted(IF throttling = NoRecord THEN fresh ELSE throttling, item)
    IN /\ petition[p].at = "get" /\ Total < MaxGranted
       /\ fired' = fired \cup {[op |-> op, record |-> record] :
                                 op \in {"update"} \cup IF throttling = NoRecord THEN {"create"} ELSE {}}
       /\ granted' = [granted EXCEPT ![item] = Append(@, now)]
       /\ petition' = [petition EXCEPT ![p] = Idle0]
       /\ UNCHANGED <<now, throttling, crossed>>

\* insertOne, which the unique index on the address refuses when there is a record; and
\* findOneAndUpdate with the whole record, which fails when the _id is another one.
Reach ==
    \E w \in fired :
        /\ fired' = fired \ {w}
        /\ throttling' = IF w.op = "create"
                         THEN IF throttling = NoRecord THEN w.record ELSE throttling
                         ELSE IF throttling = NoRecord THEN NoRecord
                         ELSE IF throttling._id = w.record._id THEN w.record ELSE throttling
        /\ UNCHANGED <<now, petition, granted, crossed>>

Throttle == Reach \/ \E p \in Petitioners : Check(p) \/ Work(p) \/ Update(p)

--------------------------------------------------------------------------------
\* The record is true to the requests.  However they interleave, it counts none twice and
\* none that was refused; and as long as each request begins when the one before is
\* settled, the pace holds that the intervals set: the k-th gap between two requests for an
\* item is at least Interval * (1 + (k-1)/4).  (check, and update, whose writes overtake
\* each other)
PaceKept ==
    /\ throttling # NoRecord =>
        \A item \in Items : LET entry == throttling.items[item] IN
            entry # NoRecord => /\ entry.count \in 1..Len(granted[item])
                                /\ \E k \in DOMAIN granted[item] : granted[item][k] = entry.last
    /\ ~crossed =>
        \A item \in Items : \A k \in 1..(Len(granted[item]) - 1) :
            4 * (granted[item][k + 1] - granted[item][k]) >= Interval[item] * (k + 3)
================================================================================
