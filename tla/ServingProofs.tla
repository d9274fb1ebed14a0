----------------------------- MODULE ServingProofs ------------------------------
(***************************************************************************)
(* What holds of the requests that read, for every number of clients, all  *)
(* that they may ask and every content of the database:                    *)
(*   - a gated route is served to nobody but an active user (GatesHold);   *)
(*   - a test node's requests are granted at the pace that its waits set,  *)
(*     as long as they do not cross (PaceHolds);                           *)
(*   - nobody sees an account beyond what is in scope (ScopeHolds);        *)
(*   - a listing of other documents than accounts is complete, in order    *)
(*     and of what is asked for (ListingsComplete);                        *)
(*   - the latest events are the latest that there were (LatestHolds), and *)
(*     the buckets of the analytics add up (BucketsHold).                  *)
(* The lemmas on the way say what a filter finds (FilterSays), what a page *)
(* is (PageFacts), what a fold over a set computes (FoldsAgree), so that   *)
(* the latest of each asset are found (LatestFacts), and where a point of  *)
(* the analytics is (PointsApart, PointsReach).                            *)
(***************************************************************************)
EXTENDS Serving, FiniteSetTheorems, TLAPS

\* The labels past authentication's first read.
AtWork == {"read_account", "read_organization", "authorize", "read", "count", "answered"}

\* The route's conditions have been met by the user that authentication has found.
Entered(c) ==
    LET a == principal[c].account
    IN /\ a # None
       /\ a.address \in usable[c].who
       /\ a.organization \in usable[c].who \cup {0}
       /\ Asked(c).route.needs \subseteq a.perms
       /\ Asked(c).token.validUntil >= usable[c].at

\* Which variables are functions of what.
Shape ==
    /\ now \in Nat
    /\ plan \in Plans
    /\ DOMAIN pc = Clients /\ DOMAIN principal = Clients /\ DOMAIN usable = Clients
    /\ DOMAIN answer = Clients /\ DOMAIN store = Collections
    /\ \A c \in Clients :
         /\ DOMAIN principal[c] = {"account", "organization", "validUntil"}
         /\ DOMAIN usable[c] = {"who", "at"}

\* What is known of whoever asks: a user that has been found is the token's, was active at some
\* moment of the request if it was when it was found, and has met the route's conditions when it
\* has been let in.
UserOk(c) ==
    LET u == principal[c]
        a == u.account
        o == u.organization
    IN /\ pc[c] \in AtWork \cup {"arrive"} => Asked(c) # None
       /\ pc[c] \in AtWork =>
            /\ usable[c].at \in Nat /\ usable[c].at <= now
            /\ Active \subseteq usable[c].who
            /\ pc[c] = "read_account" => a = None /\ o = None
            /\ pc[c] = "read_organization" => o = None
            /\ pc[c] = "read_account" \/ a # None =>
                 Asked(c).token # None /\ u.validUntil = Asked(c).token.validUntil
            /\ a # None /\ a.active => a.address \in usable[c].who
            /\ a # None /\ o # None =>
                 /\ o.organizationId = a.organization
                 /\ o.active => a.organization \in usable[c].who
            /\ Asked(c).route.gated
               /\ \/ pc[c] \in {"read", "count"}
                  \/ pc[c] = "answered" /\ answer[c].status = 200
                 => Entered(c)
UserInv == \A c \in Clients : UserOk(c)

--------------------------------------------------------------------------------
\* A request that has been let in is answered.
Answers(c) ==
    /\ pc[c] \in {"read", "count"}
    /\ \E status, docs, hasNext, counts : Reply(c, status, docs, hasNext, counts)

\* It looks for the addresses of an organization first.
Addresses(c) ==
    /\ pc[c] = "read" /\ Continue(c, "count")
    /\ UNCHANGED <<plan, store, changes, principal, next, answer, listed, since, usable, now,
                   throttlingVars>>

\* What a step is to the requests.
ServingStep ==
    \/ \E c \in Clients :
         \/ Arrive(c) \/ ReadAccount(c) \/ ReadOrganization(c) \/ AuthenticationFails(c)
         \/ Authorize(c) \/ Answers(c) \/ Addresses(c) \/ Follow(c)
    \/ CreateEvent \/ Change
    \/ UNCHANGED serving /\ now' \in {now, now + 1}

\* What the handlers do, as far as it matters here.
LEMMA RequestSteps ==
    ASSUME NEW c \in Clients,
           \/ ReadFails(c) \/ ReadPage(c) \/ ReadMembers(c) \/ ReadOne(c) \/ ReadLatest(c)
           \/ Count(c) \/ ReadAddresses(c) \/ CountOfOrganization(c)
    PROVE  Answers(c) \/ Addresses(c)
<1>1. CASE ReadFails(c)
  BY <1>1 DEF ReadFails, Throw, Answers
<1>2. CASE ReadPage(c)
  BY <1>2 DEF ReadPage, Throw, Answers, At
<1>3. CASE ReadMembers(c)
  BY <1>3 DEF ReadMembers, Throw, Answers, At
<1>4. CASE ReadOne(c)
  BY <1>4 DEF ReadOne, Throw, Answers, At
<1>5. CASE ReadLatest(c)
  BY <1>5 DEF ReadLatest, Answers, At
<1>6. CASE Count(c)
  BY <1>6 DEF Count, Answers, At
<1>7. CASE CountOfOrganization(c)
  BY <1>7 DEF CountOfOrganization, Answers
<1>8. CASE ReadAddresses(c)
  BY <1>8 DEF ReadAddresses, Throw, Answers, Addresses, At
<1> QED
  BY <1>1, <1>2, <1>3, <1>4, <1>5, <1>6, <1>7, <1>8

\* Each step of the model is one of those.
LEMMA ServingSteps == [ServingNext]_servingVars => ServingStep
<1>1. ASSUME Pass PROVE UNCHANGED serving /\ now' \in {now, now + 1}
  BY <1>1 DEF Pass, Tick
<1>2. ASSUME Throttled PROVE UNCHANGED serving /\ now' \in {now, now + 1}
  BY <1>2 DEF Throttled, Throttle, Reach, Check, Work, Update
<1>3. ASSUME UNCHANGED servingVars PROVE UNCHANGED serving /\ now' \in {now, now + 1}
  BY <1>3 DEF servingVars
<1> QED
  BY <1>1, <1>2, <1>3, RequestSteps DEF ServingNext, Serve, ServingStep

\* The variables stay what they are.
LEMMA ShapeStep == Shape /\ ServingStep => Shape'
<1> SUFFICES ASSUME Shape, ServingStep PROVE Shape'
  OBVIOUS
<1> USE DEF Shape, Continue
<1>1. ASSUME NEW c \in Clients, Arrive(c) PROVE Shape'
  BY <1>1 DEF Arrive, Nobody
<1>2. ASSUME NEW c \in Clients, ReadAccount(c) PROVE Shape'
  BY <1>2 DEF ReadAccount, Learn
<1>3. ASSUME NEW c \in Clients, ReadOrganization(c) \/ AuthenticationFails(c) PROVE Shape'
  BY <1>3 DEF ReadOrganization, AuthenticationFails, Learn
<1>4. ASSUME NEW c \in Clients, Authorize(c) \/ Answers(c) PROVE Shape'
  BY <1>4 DEF Authorize, Answers, Throw, Reply
<1>5. ASSUME NEW c \in Clients, Addresses(c) \/ Follow(c) PROVE Shape'
  BY <1>5 DEF Addresses, Follow
<1>6. CASE CreateEvent
  BY <1>6 DEF CreateEvent
<1>7. CASE Change
  BY <1>7 DEF Change
<1>8. CASE UNCHANGED serving /\ now' \in {now, now + 1}
  BY <1>8 DEF serving
<1> QED
  BY <1>1, <1>2, <1>3, <1>4, <1>5, <1>6, <1>7, <1>8 DEF ServingStep

--------------------------------------------------------------------------------
\* Whom the other clients' steps leave alone.
Unmoved(c) ==
    /\ pc'[c] = pc[c] /\ principal'[c] = principal[c] /\ answer'[c] = answer[c]
    /\ usable'[c] = usable[c]

\* A request that does not move, while nobody is turned off or on.
LEMMA UserFrame ==
    ASSUME Shape, NEW c \in Clients, UserOk(c), Unmoved(c), Active' = Active,
           UNCHANGED plan, now' \in {now, now + 1}
    PROVE  UserOk(c)'
  BY DEF Shape, UserOk, Unmoved, Entered, Asked

\* A request that arrives is nobody's yet.
LEMMA ArriveUser ==
    ASSUME Shape, NEW c \in Clients, UserOk(c), Arrive(c)
    PROVE  UserOk(c)'
<1> USE DEF Shape
<1>1. Active' = Active /\ UNCHANGED <<plan, now>>
  BY DEF Arrive, Active
<1>2. pc'[c] \in {"authorize", "read_account"} /\ (pc'[c] = "read_account" => Asked(c).token # None)
  BY DEF Arrive, Continue
<1>3. /\ principal'[c].account = None /\ principal'[c].organization = None
      /\ Asked(c).token # None => principal'[c].validUntil = Asked(c).token.validUntil
  BY DEF Arrive, Nobody
<1>4. usable'[c] = [who |-> Active, at |-> now]
  BY DEF Arrive
<1>5. Asked(c) # None
  BY DEF Arrive, UserOk
<1> QED
  BY <1>1, <1>2, <1>3, <1>4, <1>5 DEF UserOk, Asked, AtWork

\* The account that is found is the token's, and active now if it is active.
LEMMA ReadAccountUser ==
    ASSUME Shape, NEW c \in Clients, UserOk(c), ReadAccount(c)
    PROVE  UserOk(c)'
<1> USE DEF Shape
<1> DEFINE own == {a \in store["accounts"] : a.address = Asked(c).token.by}
<1>1. /\ Active' = Active /\ UNCHANGED <<plan, now, usable, answer>>
      /\ pc[c] = "read_account" /\ pc'[c] \in {"authorize", "read_organization"}
  BY DEF ReadAccount, Learn, Continue, Active
<1>2. /\ principal'[c].organization = principal[c].organization
      /\ principal'[c].validUntil = principal[c].validUntil
      /\ principal'[c].account = IF Cardinality(own) = 1 THEN CHOOSE d \in own : TRUE ELSE None
  BY DEF ReadAccount, Learn
<1>3. Cardinality(own) = 1 => own # {}
  <2>1. Cardinality({}) # 1
    BY FS_EmptySet
  <2> QED
    BY <2>1
<1>4. principal'[c].account # None => principal'[c].account \in store["accounts"]
  BY <1>2, <1>3
<1>5. principal'[c].account # None /\ principal'[c].account.active =>
        principal'[c].account.address \in Active
  BY <1>4 DEF Active
<1> QED
  BY <1>1, <1>2, <1>5 DEF UserOk, Asked, AtWork

\* The organization that is found is the account's, and active now if it is active.
LEMMA ReadOrganizationUser ==
    ASSUME Shape, NEW c \in Clients, UserOk(c), ReadOrganization(c) \/ AuthenticationFails(c)
    PROVE  UserOk(c)'
<1> USE DEF Shape
<1> DEFINE own == {o \in store["organization"] :
                     o.organizationId = principal[c].account.organization}
<1>1. /\ Active' = Active /\ UNCHANGED <<plan, now, usable, answer>>
      /\ pc[c] \in {"read_account", "read_organization"} /\ pc'[c] = "authorize"
  BY DEF ReadOrganization, AuthenticationFails, Learn, Continue, Active
<1>2. /\ principal'[c].account = principal[c].account
      /\ principal'[c].validUntil = principal[c].validUntil
  BY DEF ReadOrganization, AuthenticationFails, Learn
<1>3. \/ principal'[c].organization = None
      \/ principal'[c].organization \in own
  <2>1. Cardinality({}) # 1
    BY FS_EmptySet
  <2>2. Cardinality(own) = 1 => own # {}
    BY <2>1
  <2> QED
    BY <2>1, <2>2 DEF ReadOrganization, AuthenticationFails, Learn
<1>4. principal'[c].organization # None =>
        /\ principal'[c].organization.organizationId = principal[c].account.organization
        /\ principal'[c].organization.active => principal[c].account.organization \in Active
  BY <1>3 DEF Active
<1> QED
  BY <1>1, <1>2, <1>4 DEF UserOk, Asked, AtWork

\* A token ends some time.
LEMMA TokenTypes ==
    \A p \in Plans, c \in Clients :
        p.asks[c] # None /\ p.asks[c].token # None => p.asks[c].token.validUntil \in Nat
  BY ServingAssumption

\* Who is let in meets the route's conditions.
LEMMA AuthorizeUser ==
    ASSUME Shape, NEW c \in Clients, UserOk(c), Authorize(c)
    PROVE  UserOk(c)'
<1> USE DEF Shape
<1>1. /\ Active' = Active /\ UNCHANGED <<plan, now, usable, principal>>
      /\ pc[c] = "authorize"
  BY DEF Authorize, Throw, Reply, Active
<1>2. CASE Asked(c).route.gated /\ ~MayEnter(principal[c], Asked(c).route)
  <2>1. pc'[c] = "answered" /\ answer'[c].status = 403
    BY <1>2 DEF Authorize, Throw, Reply, Continue, StatusOf
  <2> QED
    BY <1>1, <2>1 DEF UserOk, Asked, AtWork
<1>3. CASE ~Asked(c).route.gated
  BY <1>1, <1>3 DEF Authorize, Continue, UserOk, Asked, AtWork
<1>4. CASE Asked(c).route.gated /\ MayEnter(principal[c], Asked(c).route)
  <2>1. pc'[c] = "read"
    BY <1>4 DEF Authorize, Continue
  <2>2. Asked(c).token.validUntil \in Nat
    <3>1. Asked(c) # None /\ Asked(c).token # None
      BY <1>1, <1>4 DEF UserOk, AtWork, MayEnter, IsAuthorized
    <3> QED
      BY <3>1, TokenTypes DEF Asked
  <2>3. Asked(c).token.validUntil >= usable[c].at
    BY <1>1, <1>4, <2>2 DEF UserOk, AtWork, MayEnter, IsAuthorized
  <2>4. principal[c].account # None /\ principal[c].account.address \in usable[c].who
    BY <1>1, <1>4 DEF UserOk, AtWork, MayEnter, IsAuthorized, IsActive
  <2>5. principal[c].account.organization \in usable[c].who \cup {0}
    BY <1>1, <1>4, <2>4 DEF UserOk, AtWork, MayEnter, IsOrganizationActive
  <2>6. Entered(c)
    BY <1>4, <2>3, <2>4, <2>5 DEF Entered, MayEnter, HasPermissions
  <2> QED
    BY <1>1, <2>1, <2>6 DEF UserOk, Entered, Asked, AtWork
<1> QED
  BY <1>2, <1>3, <1>4

\* One who has been let in stays so.
LEMMA EnteredUser ==
    ASSUME NEW c \in Clients, UserOk(c), pc[c] \in {"read", "count"},
           pc'[c] \in {"count", "answered"}, Active' = Active,
           UNCHANGED <<plan, now, usable, principal>>
    PROVE  UserOk(c)'
<1>1. Asked(c)' = Asked(c) /\ (Entered(c)' <=> Entered(c))
  BY DEF Asked, Entered
<1>2. ASSUME Asked(c).route.gated PROVE Entered(c)
  BY <1>2 DEF UserOk, AtWork
<1> QED
  BY <1>1, <1>2 DEF UserOk, AtWork

\* Every step keeps what is known of the users.
LEMMA UserStep == Shape /\ UserInv /\ ServingStep => UserInv'
<1> SUFFICES ASSUME Shape, UserInv, ServingStep, NEW d \in Clients
             PROVE  UserOk(d)'
  BY DEF UserInv
<1>1. UserOk(d)
  BY DEF UserInv
<1>2. ASSUME NEW c \in Clients, \/ Arrive(c) \/ ReadAccount(c) \/ ReadOrganization(c)
                                \/ AuthenticationFails(c) \/ Authorize(c) \/ Answers(c)
                                \/ Addresses(c) \/ Follow(c)
      PROVE  UserOk(d)'
  <2>1. CASE c # d
    <3>1. Unmoved(d)
      BY <1>2, <2>1 DEF Shape, Unmoved, Arrive, ReadAccount, ReadOrganization,
            AuthenticationFails, Learn, Authorize, Answers, Throw, Reply, Addresses, Follow, Continue
    <3>2. Active' = Active /\ UNCHANGED <<plan, now>>
      BY <1>2 DEF Active, Arrive, ReadAccount, ReadOrganization,
            AuthenticationFails, Learn, Authorize, Answers, Throw, Reply, Addresses, Follow
    <3> QED
      BY <1>1, <3>1, <3>2, UserFrame
  <2>2. CASE c = d /\ Answers(d)
    <3>1. /\ Active' = Active /\ UNCHANGED <<plan, now, usable, principal>>
          /\ pc[d] \in {"read", "count"} /\ pc'[d] = "answered"
      BY <2>2 DEF Shape, Answers, Reply, Continue, Active
    <3> QED
      BY <1>1, <3>1, EnteredUser
  <2>3. CASE c = d /\ (Addresses(d) \/ Follow(d))
    <3>1. Active' = Active /\ UNCHANGED <<plan, now, usable, principal>>
      BY <2>3 DEF Addresses, Follow, Active
    <3>2. CASE pc[d] = "read" /\ pc'[d] = "count"
      BY <1>1, <3>1, <3>2, EnteredUser
    <3>3. CASE pc[d] = "answered" /\ pc'[d] = "arrive"
      BY <1>1, <3>1, <3>3 DEF UserOk, Entered, Asked, AtWork
    <3> QED
      BY <2>3, <3>2, <3>3 DEF Shape, Addresses, Follow, Continue
  <2> QED
    BY <1>1, <1>2, <2>1, <2>2, <2>3, ArriveUser, ReadAccountUser, ReadOrganizationUser,
       AuthorizeUser
<1>3. CASE CreateEvent
  <2>1. Unmoved(d) /\ Active' = Active /\ UNCHANGED <<plan, now>>
    BY <1>3 DEF CreateEvent, Unmoved, Active, Shape
  <2> QED
    BY <1>1, <2>1, UserFrame
<1>4. CASE Change
  <2>1. /\ UNCHANGED <<plan, now, pc, principal, answer>>
        /\ usable'[d].at = usable[d].at /\ usable'[d].who = usable[d].who \cup Active'
    BY <1>4 DEF Change, Shape
  <2> QED
    BY <1>1, <2>1 DEF UserOk, Entered, Asked, AtWork
<1>5. CASE UNCHANGED serving /\ now' \in {now, now + 1}
  <2>1. Unmoved(d) /\ Active' = Active /\ UNCHANGED plan
    BY <1>5 DEF serving, Unmoved, Active
  <2> QED
    BY <1>1, <1>5, <2>1, UserFrame
<1> QED
  BY <1>2, <1>3, <1>4, <1>5 DEF ServingStep

\* It holds at the start.
LEMMA ServingStart == ServingInit => Shape /\ UserInv
<1> SUFFICES ASSUME ServingInit PROVE Shape /\ UserInv
  OBVIOUS
<1>1. Shape
  BY ServingAssumption DEF ServingInit, ThrottlingInit, Shape, Nobody
<1>2. \A c \in Clients : pc[c] = IF plan.asks[c] = None THEN "idle" ELSE "arrive"
  BY DEF ServingInit
<1>3. UserInv
  BY <1>2 DEF UserInv, UserOk, AtWork, Asked
<1> QED
  BY <1>1, <1>3

\* What authentication found, and what it was checked for, stays true to the answer.
THEOREM UsersKnown == ServingSpec => [](Shape /\ UserInv)
<1>1. ServingInit => Shape /\ UserInv
  BY ServingStart
<1>2. Shape /\ UserInv /\ [ServingNext]_servingVars => (Shape /\ UserInv)'
  BY ServingSteps, ShapeStep, UserStep
<1> QED
  BY <1>1, <1>2, PTL DEF ServingSpec

\* A gated route is served to nobody but a user whose account and organization were
\* active at some moment of the request, and whose token had not expired when it came,
\* however the changes of accounts and organizations fall between the reads.
THEOREM GatesHold == ServingSpec => []ServedWhileActive
<1>1. Shape /\ UserInv => ServedWhileActive
  BY DEF Shape, UserInv, UserOk, Entered, ServedWhileActive, AtWork
<1> QED
  BY <1>1, UsersKnown, PTL

--------------------------------------------------------------------------------
\* Throttling.

\* What has been granted, and when.
GrantedTypes ==
    /\ granted \in [Items -> Seq(0..MaxNow)]
    /\ Total <= MaxGranted

\* The record r counts none twice, and none that was refused.
Sound(r) ==
    \A item \in Items : r.items[item] # NoRecord =>
        /\ r.items[item].count \in 1..Len(granted[item])
        /\ \E k \in DOMAIN granted[item] : granted[item][k] = r.items[item].last

\* Every request that was granted.
Exact(r) ==
    \A item \in Items :
        IF granted[item] = << >> THEN r.items[item] = NoRecord
        ELSE r.items[item] = [count |-> Len(granted[item]),
                              last |-> granted[item][Len(granted[item])]]

\* The record that is stored and those that are on their way.
CountInv ==
    /\ throttling # NoRecord => Sound(throttling)
    /\ \A w \in fired : Sound(w.record)

\* A request for the item may be granted now.
Due(item) ==
    granted[item] # << >> =>
        4 * (now - granted[item][Len(granted[item])]) >= Interval[item] * (Len(granted[item]) + 3)

\* Each request was granted after its wait (PaceKept without its condition).
Paced ==
    \A item \in Items : \A k \in 1..(Len(granted[item]) - 1) :
        4 * (granted[item][k + 1] - granted[item][k]) >= Interval[item] * (k + 3)

\* While no two requests have crossed, there is one at a time, it is due, and what is stored or
\* about to be has every request that was granted.
PaceInv ==
    ~crossed =>
        /\ \A p, q \in Petitioners :
             petition[p].at # "idle" /\ petition[q].at # "idle" => p = q
        /\ \A p \in Petitioners :
             petition[p].at # "idle" => fired = {} /\ Due(petition[p].item)
        /\ fired = {} => IF throttling = NoRecord THEN \A i \in Items : granted[i] = << >>
                         ELSE Exact(throttling)
        /\ fired # {} => \E r \in Record :
             /\ Exact(r)
             /\ \A w \in fired : w.record = r
             /\ \/ throttling = NoRecord /\ [op |-> "create", record |-> r] \in fired
                \/ throttling = r
                \/ /\ throttling # NoRecord /\ throttling._id = r._id
                   /\ [op |-> "update", record |-> r] \in fired
        /\ Paced

\* What a step is to the throttling, and the types of what it keeps.
ThrottlingStep == Tick \/ Throttle \/ UNCHANGED <<now, throttlingVars>>

TypedThrottling == ThrottlingTypeOK /\ GrantedTypes

\* The sum of two numbers grows with either.
LEMMA SumGrows ==
    \A x, y \in Nat : (x + 1) + y = (x + y) + 1 /\ x + (y + 1) = (x + y) + 1
  OBVIOUS

\* It is a number.
LEMMA SumNat == \A x, y \in Nat : x + y \in Nat
  OBVIOUS

\* Total counts both items.
LEMMA TotalGrows ==
    ASSUME NEW a \in Items, NEW b \in Items, a # b,
           Len(granted[a]) \in Nat, Len(granted[b]) \in Nat,
           Len(granted'[a]) = Len(granted[a]) + 1, granted'[b] = granted[b]
    PROVE  Total' = Total + 1
<1>1. CASE a = "organization" /\ b = "account"
  <2>1. /\ Len(granted["organization"]) \in Nat /\ Len(granted["account"]) \in Nat
        /\ Len(granted'["organization"]) = Len(granted["organization"]) + 1
        /\ Len(granted'["account"]) = Len(granted["account"])
    BY <1>1
  <2>2. Len(granted'["organization"]) + Len(granted'["account"])
          = Len(granted["organization"]) + Len(granted["account"]) + 1
    BY <2>1, SumGrows, Zenon
  <2> QED
    BY <2>2 DEF Total
<1>2. CASE a = "account" /\ b = "organization"
  <2>1. /\ Len(granted["organization"]) \in Nat /\ Len(granted["account"]) \in Nat
        /\ Len(granted'["account"]) = Len(granted["account"]) + 1
        /\ Len(granted'["organization"]) = Len(granted["organization"])
    BY <1>2
  <2>2. Len(granted'["organization"]) + Len(granted'["account"])
          = Len(granted["organization"]) + Len(granted["account"]) + 1
    BY <2>1, SumGrows, Zenon
  <2> QED
    BY <2>2 DEF Total
<1> QED
  BY <1>1, <1>2 DEF Items

\* A sequence is a function from its indices.
LEMMA Indices ==
    ASSUME NEW S, NEW s \in Seq(S)
    PROVE  Len(s) \in Nat /\ DOMAIN s = 1..Len(s) /\ \A k \in 1..Len(s) : s[k] \in S
  OBVIOUS

\* What Update appends.
LEMMA GrantsOne ==
    ASSUME TypedThrottling, NEW item \in Items, Total < MaxGranted,
           granted' = [granted EXCEPT ![item] = Append(@, now)]
    PROVE  /\ granted' \in [Items -> Seq(0..MaxNow)] /\ Total' = Total + 1
           /\ Len(granted'[item]) = Len(granted[item]) + 1
           /\ granted'[item][Len(granted[item]) + 1] = now
           /\ \A k \in 1..Len(granted[item]) : granted'[item][k] = granted[item][k]
           /\ \A i \in Items \ {item} : granted'[i] = granted[i]
<1> USE DEF TypedThrottling, GrantedTypes
<1>1. now \in 0..MaxNow
  BY DEF ThrottlingTypeOK
<1>2. granted' \in [Items -> Seq(0..MaxNow)]
  BY <1>1
<1>3. granted'[item] = Append(granted[item], now)
  OBVIOUS
<1>4. /\ Len(granted'[item]) = Len(granted[item]) + 1
      /\ granted'[item][Len(granted[item]) + 1] = now
      /\ \A k \in 1..Len(granted[item]) : granted'[item][k] = granted[item][k]
  BY <1>1, <1>3
<1>5. \A i \in Items \ {item} : granted'[i] = granted[i]
  OBVIOUS
<1>6. Len(granted["organization"]) \in Nat /\ Len(granted["account"]) \in Nat
  BY DEF Items
<1>7. PICK b \in Items : b # item
  BY DEF Items
<1>8. Total' = Total + 1
  BY <1>4, <1>5, <1>6, <1>7, TotalGrows DEF Items
<1> QED
  BY <1>2, <1>4, <1>5, <1>8

\* Total is a number.
LEMMA TotalNat == TypedThrottling => Total \in 0..MaxGranted
<1> SUFFICES ASSUME TypedThrottling PROVE Total \in 0..MaxGranted
  OBVIOUS
<1>1. granted["organization"] \in Seq(0..MaxNow) /\ granted["account"] \in Seq(0..MaxNow)
  BY DEF TypedThrottling, GrantedTypes, Items
<1>2. Len(granted["organization"]) \in Nat /\ Len(granted["account"]) \in Nat
  BY <1>1, Indices
<1>3. Total \in Nat
  BY <1>2, SumNat, Zenon DEF Total
<1> QED
  BY <1>3, ThrottlingAssumption DEF TypedThrottling, GrantedTypes

\* The counts that have been granted are below the bound.
LEMMA LenBound ==
    ASSUME TypedThrottling, NEW item \in Items
    PROVE  /\ Len(granted[item]) \in Nat /\ Len(granted[item]) <= Total
           /\ DOMAIN granted[item] = 1..Len(granted[item])
           /\ \A k \in 1..Len(granted[item]) : granted[item][k] \in 0..MaxNow
<1> USE DEF TypedThrottling, GrantedTypes
<1>1. \A i \in Items : granted[i] \in Seq(0..MaxNow) /\ Len(granted[i]) \in Nat
  OBVIOUS
<1>2. Len(granted["organization"]) \in Nat /\ Len(granted["account"]) \in Nat
  BY <1>1 DEF Items
<1>3. Len(granted[item]) <= Total
  BY <1>2 DEF Total, Items
<1>4. /\ DOMAIN granted[item] = 1..Len(granted[item])
      /\ \A k \in 1..Len(granted[item]) : granted[item][k] \in 0..MaxNow
  BY <1>1, Indices
<1> QED
  BY <1>1, <1>3, <1>4

\* The record that an update writes is the one before with one more request counted.
LEMMA CountsOne ==
    ASSUME TypedThrottling, NEW r \in Record, NEW item \in Items, Sound(r),
           Total < MaxGranted
    PROVE  LET n == IF r.items[item] = NoRecord THEN 0 ELSE r.items[item].count
               e == [count |-> n + 1, last |-> now]
           IN /\ n \in 0..Len(granted[item]) /\ e \in Entry0
              /\ Counted(r, item) \in Record /\ Counted(r, item)._id = r._id
              /\ Counted(r, item).items[item] = e
              /\ \A i \in Items \ {item} : Counted(r, item).items[i] = r.items[i]
<1> DEFINE n == IF r.items[item] = NoRecord THEN 0 ELSE r.items[item].count
           e == [count |-> n + 1, last |-> now]
<1>1. Len(granted[item]) \in Nat /\ Len(granted[item]) <= Total /\ Total \in Nat
  BY LenBound DEF TypedThrottling, GrantedTypes, Total, Items
<1>2. n \in 0..Len(granted[item])
  BY <1>1 DEF Sound
<1>3. e \in Entry0
  BY <1>1, <1>2, ThrottlingAssumption DEF Entry0, TypedThrottling, ThrottlingTypeOK
<1>4. Counted(r, item) = [r EXCEPT !.items[item] = e]
  BY DEF Counted
<1>5. r.items \in [Items -> Entry0 \cup {NoRecord}] /\ r._id \in 0..MaxGranted
  BY DEF Record
<1> HIDE DEF e, n
<1>6. Counted(r, item) \in Record /\ Counted(r, item)._id = r._id
  BY <1>3, <1>4, <1>5 DEF Record
<1>7. Counted(r, item).items = [r.items EXCEPT ![item] = e]
  BY <1>4 DEF Record
<1>8. /\ Counted(r, item).items[item] = e
      /\ \A i \in Items \ {item} : Counted(r, item).items[i] = r.items[i]
  BY <1>5, <1>7
<1> QED
  BY <1>2, <1>3, <1>6, <1>8 DEF n, e

\* The record that get has found, or a new one; and the one that Update writes.
Base == IF throttling = NoRecord THEN [_id |-> Total, items |-> [i \in Items |-> NoRecord]]
        ELSE throttling
\* What it then writes.
Written(p) == Counted(Base, petition[p].item)

\* The record that a request counts on is one, and sound.
LEMMA BaseSound == TypedThrottling /\ CountInv => Base \in Record /\ Sound(Base)
<1> SUFFICES ASSUME TypedThrottling, CountInv PROVE Base \in Record /\ Sound(Base)
  OBVIOUS
<1>1. CASE throttling = NoRecord
  <2>1. Total \in 0..MaxGranted
    BY TotalNat
  <2>2. /\ Base = [_id |-> Total, items |-> [i \in Items |-> NoRecord]]
        /\ \A i \in Items : Base.items[i] = NoRecord
    BY <1>1 DEF Base
  <2> QED
    BY <2>1, <2>2 DEF Record, Sound
<1>2. CASE throttling # NoRecord
  BY <1>2 DEF Base, TypedThrottling, ThrottlingTypeOK, CountInv
<1> QED
  BY <1>1, <1>2

\* What Update changes.
LEMMA UpdateFacts ==
    ASSUME TypedThrottling, CountInv, NEW p \in Petitioners, Update(p)
    PROVE  LET r == Written(p)
               item == petition[p].item
               n == IF Base.items[item] = NoRecord THEN 0 ELSE Base.items[item].count
           IN /\ item \in Items /\ r \in Record /\ r._id = Base._id
              /\ n \in 0..Len(granted[item])
              /\ r.items[item] = [count |-> n + 1, last |-> now]
              /\ r.items[item] \in Entry0
              /\ \A i \in Items \ {item} : r.items[i] = Base.items[i]
              /\ [op |-> "update", record |-> r] \in fired'
              /\ throttling = NoRecord => [op |-> "create", record |-> r] \in fired'
              /\ fired' \subseteq fired \cup {[op |-> op, record |-> r] : op \in {"create", "update"}}
              /\ granted' = [granted EXCEPT ![item] = Append(@, now)]
              /\ Total < MaxGranted
              /\ petition' = [petition EXCEPT ![p] = Idle0]
              /\ UNCHANGED <<now, throttling, crossed>>
<1> DEFINE item == petition[p].item
           r == Written(p)
<1>1. item \in Items /\ Total < MaxGranted
  BY DEF Update, TypedThrottling, ThrottlingTypeOK
<1>2. fired' = fired \cup {[op |-> op, record |-> r] :
                  op \in {"update"} \cup IF throttling = NoRecord THEN {"create"} ELSE {}}
  BY DEF Update, Written, Base
<1>3. /\ granted' = [granted EXCEPT ![item] = Append(@, now)]
      /\ petition' = [petition EXCEPT ![p] = Idle0]
      /\ UNCHANGED <<now, throttling, crossed>>
  BY DEF Update
<1>4. Base \in Record /\ Sound(Base)
  BY BaseSound
<1> HIDE DEF r, item
<1>5. /\ [op |-> "update", record |-> r] \in fired'
      /\ throttling = NoRecord => [op |-> "create", record |-> r] \in fired'
      /\ fired' \subseteq fired \cup {[op |-> op, record |-> r] : op \in {"create", "update"}}
  BY <1>2
<1>6. LET n == IF Base.items[item] = NoRecord THEN 0 ELSE Base.items[item].count
          e == [count |-> n + 1, last |-> now]
      IN /\ n \in 0..Len(granted[item]) /\ e \in Entry0
         /\ Counted(Base, item) \in Record /\ Counted(Base, item)._id = Base._id
         /\ Counted(Base, item).items[item] = e
         /\ \A i \in Items \ {item} : Counted(Base, item).items[i] = Base.items[i]
  BY <1>1, <1>4, CountsOne
<1>7. Counted(Base, item) = r
  BY DEF r, Written, item
<1> HIDE DEF Base
<1> QED
  BY <1>1, <1>3, <1>5, <1>6, <1>7 DEF r, item

--------------------------------------------------------------------------------
\* Every step keeps the types.
LEMMA ThrottlingTypes ==
    TypedThrottling /\ CountInv /\ ThrottlingStep => TypedThrottling'
<1> SUFFICES ASSUME TypedThrottling, CountInv, ThrottlingStep PROVE TypedThrottling'
  OBVIOUS
<1> USE ThrottlingAssumption
<1>1. CASE Tick
  <2>1. now' \in 0..MaxNow
    BY <1>1 DEF Tick, TypedThrottling, ThrottlingTypeOK
  <2>2. UNCHANGED throttlingVars
    BY <1>1 DEF Tick
  <2> QED
    BY <2>1, <2>2 DEF throttlingVars, TypedThrottling, ThrottlingTypeOK, GrantedTypes, Total, Write
<1>2. CASE UNCHANGED <<now, throttlingVars>>
  BY <1>2 DEF throttlingVars, TypedThrottling, ThrottlingTypeOK, GrantedTypes, Total, Write
<1>3. CASE Reach
  BY <1>3 DEF Reach, TypedThrottling, ThrottlingTypeOK, GrantedTypes, Total, Write
<1>4. ASSUME NEW p \in Petitioners, Check(p) PROVE TypedThrottling'
  <2>1. petition' \in [Petitioners -> [at : {"idle", "work", "get"}, item : Items]]
    BY <1>4 DEF Check, TypedThrottling, ThrottlingTypeOK
  <2>2. crossed' \in BOOLEAN
    BY <1>4 DEF Check, TypedThrottling, ThrottlingTypeOK, Settled
  <2> QED
    BY <1>4, <2>1, <2>2 DEF Check, TypedThrottling, ThrottlingTypeOK, GrantedTypes, Total, Write
<1>5. ASSUME NEW p \in Petitioners, Work(p) PROVE TypedThrottling'
  <2>1. petition' \in [Petitioners -> [at : {"idle", "work", "get"}, item : Items]]
    BY <1>5 DEF Work, TypedThrottling, ThrottlingTypeOK, Idle0, Items
  <2> QED
    BY <1>5, <2>1 DEF Work, TypedThrottling, ThrottlingTypeOK, GrantedTypes, Total, Write
<1>6. ASSUME NEW p \in Petitioners, Update(p) PROVE TypedThrottling'
  <2> DEFINE r == Written(p)
             item == petition[p].item
  <2>1. /\ item \in Items /\ r \in Record
        /\ fired' \subseteq fired \cup {[op |-> op, record |-> r] : op \in {"create", "update"}}
        /\ granted' = [granted EXCEPT ![item] = Append(@, now)]
        /\ Total < MaxGranted
        /\ petition' = [petition EXCEPT ![p] = Idle0]
        /\ UNCHANGED <<now, throttling, crossed>>
    BY <1>6, UpdateFacts
  <2> HIDE DEF r, item
  <2>2. fired' \subseteq Write
    BY <2>1 DEF Write, TypedThrottling, ThrottlingTypeOK
  <2>3. petition' \in [Petitioners -> [at : {"idle", "work", "get"}, item : Items]]
    BY <2>1 DEF TypedThrottling, ThrottlingTypeOK, Idle0, Items
  <2>4. granted' \in [Items -> Seq(0..MaxNow)] /\ Total' = Total + 1
    BY <2>1, GrantsOne
  <2>5. GrantedTypes'
    <3>1. Total + 1 <= MaxGranted
      BY <2>1, TotalNat
    <3> QED
      BY <2>4, <3>1 DEF GrantedTypes
  <2>6. \A i \in Items : \A k \in DOMAIN granted'[i] : granted'[i][k] \in 0..MaxNow
    BY <2>4, Indices
  <2> QED
    BY <2>1, <2>2, <2>3, <2>5, <2>6 DEF TypedThrottling, ThrottlingTypeOK
<1> QED
  BY <1>1, <1>2, <1>3, <1>4, <1>5, <1>6 DEF ThrottlingStep, Throttle

\* No record counts a request twice, or one that was refused.
LEMMA CountStep ==
    TypedThrottling /\ CountInv /\ ThrottlingStep => CountInv'
<1> SUFFICES ASSUME TypedThrottling, CountInv, ThrottlingStep PROVE CountInv'
  OBVIOUS
<1>1. CASE UNCHANGED <<throttling, fired, granted>>
  BY <1>1 DEF CountInv, Sound
<1>2. CASE Reach
  <2>1. granted' = granted /\ fired' \subseteq fired
    BY <1>2 DEF Reach
  <2>2. \A r : Sound(r) => Sound(r)'
    BY <2>1 DEF Sound
  <2>3. throttling' # NoRecord => throttling' = throttling \/ \E w \in fired : throttling' = w.record
    BY <1>2 DEF Reach
  <2>4. throttling' # NoRecord => Sound(throttling')
    BY <2>3 DEF CountInv
  <2>5. \A w \in fired' : Sound(w.record)
    BY <2>1 DEF CountInv
  <2> QED
    BY <2>1, <2>4, <2>5 DEF CountInv, Sound
<1>3. ASSUME NEW p \in Petitioners, Update(p) PROVE CountInv'
  <2>1. PICK r \in Record, item \in Items :
        /\ \E n \in 0..Len(granted[item]) : r.items[item] = [count |-> n + 1, last |-> now]
        /\ fired' \subseteq fired \cup {[op |-> op, record |-> r] : op \in {"create", "update"}}
        /\ granted' = [granted EXCEPT ![item] = Append(@, now)]
        /\ Total < MaxGranted
        /\ UNCHANGED throttling
        /\ \A i \in Items \ {item} : r.items[i] = Base.items[i]
    <3> DEFINE i0 == petition[p].item
               n0 == IF Base.items[i0] = NoRecord THEN 0 ELSE Base.items[i0].count
    <3>1. /\ n0 \in 0..Len(granted[i0])
          /\ Written(p).items[i0] = [count |-> n0 + 1, last |-> now]
      BY <1>3, UpdateFacts
    <3>2. \E n \in 0..Len(granted[i0]) : Written(p).items[i0] = [count |-> n + 1, last |-> now]
      BY <3>1
    <3> QED
      BY <1>3, <3>2, UpdateFacts
  <2>2. PICK n \in 0..Len(granted[item]) : r.items[item] = [count |-> n + 1, last |-> now]
    BY <2>1
  <2>3. Sound(Base)
    BY BaseSound
  <2>4. /\ Len(granted'[item]) = Len(granted[item]) + 1
        /\ granted'[item][Len(granted[item]) + 1] = now
        /\ \A k \in 1..Len(granted[item]) : granted'[item][k] = granted[item][k]
        /\ \A i \in Items \ {item} : granted'[i] = granted[i]
        /\ granted' \in [Items -> Seq(0..MaxNow)]
    BY <2>1, GrantsOne
  <2>5. /\ Len(granted[item]) \in Nat
        /\ DOMAIN granted[item] = 1..Len(granted[item])
        /\ DOMAIN granted'[item] = 1..(Len(granted[item]) + 1)
    BY <2>1, <2>4, LenBound, Indices
  <2>6. ASSUME NEW q, Sound(q) PROVE Sound(q)'
    <3> SUFFICES ASSUME NEW i \in Items, q.items[i] # NoRecord
                 PROVE  /\ q.items[i].count \in 1..Len(granted'[i])
                        /\ \E k \in DOMAIN granted'[i] : granted'[i][k] = q.items[i].last
      BY DEF Sound
    <3>1. /\ q.items[i].count \in 1..Len(granted[i])
          /\ \E k \in DOMAIN granted[i] : granted[i][k] = q.items[i].last
      BY <2>6 DEF Sound
    <3>2. CASE i # item
      BY <2>4, <3>1, <3>2
    <3>3. CASE i = item
      <4>1. PICK k \in 1..Len(granted[item]) : granted[item][k] = q.items[i].last
        BY <2>5, <3>1, <3>3
      <4>2. k \in DOMAIN granted'[i] /\ granted'[i][k] = q.items[i].last
        BY <2>4, <2>5, <3>3, <4>1
      <4>3. q.items[i].count \in 1..Len(granted'[i])
        BY <2>4, <2>5, <3>1, <3>3
      <4> QED
        BY <4>2, <4>3
    <3> QED
      BY <3>2, <3>3
  <2>7. Sound(r)'
    <3> SUFFICES ASSUME NEW i \in Items, r.items[i] # NoRecord
                 PROVE  /\ r.items[i].count \in 1..Len(granted'[i])
                        /\ \E k \in DOMAIN granted'[i] : granted'[i][k] = r.items[i].last
      BY DEF Sound
    <3>1. CASE i # item
      <4>1. r.items[i] = Base.items[i] /\ granted'[i] = granted[i]
        BY <2>1, <2>4, <3>1
      <4>2. /\ Base.items[i].count \in 1..Len(granted[i])
            /\ \E k \in DOMAIN granted[i] : granted[i][k] = Base.items[i].last
        BY <2>3, <4>1 DEF Sound
      <4> QED
        BY <4>1, <4>2
    <3>2. CASE i = item
      <4>1. r.items[i].count = n + 1 /\ r.items[i].last = now
        BY <2>2, <3>2
      <4>2. n + 1 \in 1..(Len(granted[item]) + 1)
        BY <2>2, <2>5
      <4> QED
        BY <2>4, <2>5, <3>2, <4>1, <4>2
    <3> QED
      BY <3>1, <3>2
  <2> QED
    <3>1. ASSUME NEW w \in fired' PROVE Sound(w.record)'
      <4>1. CASE w \in fired
        BY <2>6, <4>1 DEF CountInv
      <4>2. CASE w.record = r
        BY <2>7, <4>2
      <4> QED
        BY <2>1, <4>1, <4>2
    <3>2. throttling' # NoRecord => Sound(throttling)'
      <4>1. PICK q : q = throttling
        OBVIOUS
      <4>2. throttling' = q
        BY <2>1, <4>1
      <4>3. q # NoRecord => Sound(q)'
        BY <2>6, <4>1 DEF CountInv
      <4> QED
        BY <4>2, <4>3 DEF Sound
    <3> QED
      BY <3>1, <3>2 DEF CountInv
<1>4. CASE Tick \/ UNCHANGED <<now, throttlingVars>>
  BY <1>1, <1>4 DEF Tick, throttlingVars
<1>5. ASSUME NEW p \in Petitioners, Check(p) \/ Work(p) PROVE CountInv'
  BY <1>1, <1>5 DEF Check, Work
<1> QED
  BY <1>2, <1>3, <1>4, <1>5 DEF ThrottlingStep, Throttle

--------------------------------------------------------------------------------
\* A quarter of the interval for each request counted.
LEMMA Quarters ==
    \A i, n \in Nat : 4 * i + i * (n - 1) = i * (n + 3)
  OBVIOUS

\* What is exact stays so while nothing is granted.
LEMMA ExactStays ==
    ASSUME NEW r, UNCHANGED granted PROVE Exact(r) <=> Exact(r)'
  BY DEF Exact

\* check lets through what is due.
LEMMA CheckedDue ==
    ASSUME TypedThrottling, PaceInv, ~crossed, Settled, NEW item \in Items, ~Wait(item)
    PROVE  Due(item)
<1> DEFINE n == Len(granted[item])
           last == granted[item][n]
<1>1. CASE throttling = NoRecord
  BY <1>1 DEF PaceInv, Settled, Due
<1>2. CASE throttling # NoRecord /\ granted[item] = << >>
  BY <1>2 DEF Due
<1>3. CASE throttling # NoRecord /\ granted[item] # << >>
  <2>1. throttling.items[item] = [count |-> n, last |-> last]
    BY <1>3 DEF PaceInv, Settled, Exact
  <2>2. throttling.items[item] # NoRecord
    <3>1. n \in 1..MaxGranted /\ last \in 0..MaxNow
      <4>1. n \in Nat /\ n <= Total /\ \A k \in 1..n : granted[item][k] \in 0..MaxNow
        BY LenBound
      <4>2. n # 0
        BY <1>3 DEF TypedThrottling, GrantedTypes
      <4> QED
        BY <4>1, <4>2, TotalNat, ThrottlingAssumption
    <3>2. [count |-> n, last |-> last] \in Entry0
      BY <3>1, ThrottlingAssumption DEF Entry0
    <3> QED
      BY <2>1, <3>2, ThrottlingAssumption
  <2>3. ~(4 * Interval[item] + Interval[item] * (n - 1) > 4 * (now - last))
    BY <1>3, <2>1, <2>2 DEF Wait
  <2>4. Interval[item] \in Nat /\ n \in Nat /\ last \in Nat /\ now \in Nat
    <3>1. n \in Nat /\ \A k \in 1..n : granted[item][k] \in 0..MaxNow
      BY LenBound
    <3>2. n # 0
      BY <1>3 DEF TypedThrottling, GrantedTypes
    <3> QED
      BY <3>1, <3>2, ThrottlingAssumption DEF TypedThrottling, ThrottlingTypeOK
  <2> HIDE DEF n, last
  <2>5. ~(Interval[item] * (n + 3) > 4 * (now - last))
    BY <2>3, <2>4, Quarters
  <2>6. Interval[item] * (n + 3) \in Nat
    BY <2>4
  <2>7. 4 * (now - last) >= Interval[item] * (n + 3)
    BY <2>4, <2>5, <2>6
  <2> QED
    BY <2>7 DEF Due, n, last
<1> QED
  BY <1>1, <1>2, <1>3

\* What is due stays due.
LEMMA DueStays ==
    ASSUME TypedThrottling, NEW item \in Items, Due(item), UNCHANGED granted, now' \in {now, now + 1}
    PROVE  Due(item)'
<1> DEFINE n == Len(granted[item])
           last == granted[item][n]
<1>1. SUFFICES ASSUME granted[item] # << >>
               PROVE  4 * (now' - last) >= Interval[item] * (n + 3)
  BY DEF Due
<1>2. n \in Nat /\ last \in Nat
  <2>1. n \in Nat /\ \A k \in 1..n : granted[item][k] \in 0..MaxNow
    BY LenBound
  <2>2. n # 0
    BY <1>1 DEF TypedThrottling, GrantedTypes
  <2> QED
    BY <2>1, <2>2, ThrottlingAssumption
<1>3. now \in Nat /\ Interval[item] \in Nat
  BY ThrottlingAssumption DEF TypedThrottling, ThrottlingTypeOK
<1>4. 4 * (now - last) >= Interval[item] * (n + 3)
  BY <1>1 DEF Due
<1> HIDE DEF n, last
<1>5. Interval[item] * (n + 3) \in Nat
  BY <1>2, <1>3
<1> QED
  BY <1>2, <1>3, <1>4, <1>5

\* What PaceInv says of the writes that are under way.
Underway(r) ==
    /\ Exact(r)
    /\ \A w \in fired : w.record = r
    /\ \/ throttling = NoRecord /\ [op |-> "create", record |-> r] \in fired
       \/ throttling = r
       \/ /\ throttling # NoRecord /\ throttling._id = r._id
          /\ [op |-> "update", record |-> r] \in fired

\* A write that reaches the database keeps the pace.
LEMMA PaceReach ==
    ASSUME TypedThrottling, PaceInv, Reach PROVE PaceInv'
<1>0. UNCHANGED crossed
  BY DEF Reach
<1> SUFFICES ASSUME ~crossed PROVE PaceInv'
  BY <1>0 DEF PaceInv
<1>1. PICK w \in fired :
        /\ fired' = fired \ {w}
        /\ throttling' = IF w.op = "create"
                         THEN IF throttling = NoRecord THEN w.record ELSE throttling
                         ELSE IF throttling = NoRecord THEN NoRecord
                         ELSE IF throttling._id = w.record._id THEN w.record ELSE throttling
        /\ UNCHANGED <<now, petition, granted, crossed>>
  BY DEF Reach
<1>2. PICK r \in Record : Underway(r)
  BY <1>1 DEF PaceInv, Underway
<1>3. w.record = r /\ w.op \in {"create", "update"} /\ w = [op |-> w.op, record |-> r] /\ r # NoRecord
  BY <1>1, <1>2, ThrottlingAssumption DEF TypedThrottling, ThrottlingTypeOK, Write, Underway
<1>4. \A p \in Petitioners : petition'[p].at = "idle"
  BY <1>1 DEF PaceInv
<1>5. /\ \/ throttling' = NoRecord /\ [op |-> "create", record |-> r] \in fired'
         \/ throttling' = r
         \/ /\ throttling' # NoRecord /\ throttling'._id = r._id
            /\ [op |-> "update", record |-> r] \in fired'
      /\ \A v \in fired' : v.record = r
  <2> DEFINE C == [op |-> "create", record |-> r]
             U == [op |-> "update", record |-> r]
  <2>0. C # U /\ (w.op = "create" => w = C) /\ (w.op = "update" => w = U)
    BY <1>3
  <2>1. /\ w.op = "create" /\ throttling = NoRecord => throttling' = r
        /\ w.op = "create" /\ throttling # NoRecord => throttling' = throttling
        /\ w.op = "update" /\ throttling = NoRecord => throttling' = NoRecord
        /\ w.op = "update" /\ throttling # NoRecord /\ throttling._id = r._id => throttling' = r
    BY <1>1, <1>3
  <2>2. /\ w.op = "update" /\ C \in fired => C \in fired'
        /\ w.op = "create" /\ U \in fired => U \in fired'
    BY <1>1, <2>0
  <2>3. \/ throttling' = NoRecord /\ C \in fired'
        \/ throttling' = r
        \/ throttling' # NoRecord /\ throttling'._id = r._id /\ U \in fired'
    <3>1. \/ throttling = NoRecord /\ C \in fired
          \/ throttling = r
          \/ throttling # NoRecord /\ throttling._id = r._id /\ U \in fired
      BY <1>2 DEF Underway
    <3> HIDE DEF C, U
    <3> QED
      BY <1>3, <2>1, <2>2, <3>1
  <2>4. \A v \in fired' : v.record = r
    BY <1>1, <1>2 DEF Underway
  <2> QED
    BY <2>3, <2>4
<1>6. Exact(r)'
  BY <1>1, <1>2, ExactStays DEF Underway
<1>7. fired' = {} => throttling' = r
  BY <1>5
<1>8. Paced'
  BY <1>1 DEF PaceInv, Paced
<1>9. fired' = {} => IF throttling' = NoRecord THEN \A i \in Items : granted'[i] = << >>
                     ELSE Exact(throttling)'
  BY <1>3, <1>6, <1>7 DEF Exact
<1> QED
  BY <1>4, <1>5, <1>6, <1>8, <1>9 DEF PaceInv

\* A request that passes the check keeps it.
LEMMA PaceCheck ==
    ASSUME TypedThrottling, PaceInv, NEW p \in Petitioners, Check(p) PROVE PaceInv'
<1> SUFFICES ASSUME ~crossed' PROVE PaceInv'
  BY DEF PaceInv
<1>1. PICK item \in Items :
        /\ ~Wait(item)
        /\ petition' = [petition EXCEPT ![p] =
               [at |-> IF item = "organization" THEN "work" ELSE "get", item |-> item]]
  BY DEF Check
<1>2. ~crossed /\ Settled /\ UNCHANGED <<now, throttling, fired, granted>>
  BY DEF Check
<1>3. fired = {} /\ \A q \in Petitioners : petition[q].at = "idle"
  BY <1>2 DEF Settled
<1>4. Due(item)
  BY <1>1, <1>2, CheckedDue
<1>5. Due(item)'
  BY <1>2, <1>4 DEF Due
<1>6. petition'[p].item = item /\ \A q \in Petitioners : petition'[q].at # "idle" => q = p
  BY <1>1, <1>3 DEF TypedThrottling, ThrottlingTypeOK
<1>7. Paced' /\ fired' = {}
  BY <1>2, <1>3 DEF PaceInv, Paced
<1>8. IF throttling' = NoRecord THEN \A i \in Items : granted'[i] = << >> ELSE Exact(throttling)'
  BY <1>2, <1>3 DEF PaceInv, Exact
<1>9. \A q \in Petitioners : petition'[q].at # "idle" => Due(petition[q].item)'
  BY <1>5, <1>6 DEF Due
<1> QED
  BY <1>6, <1>7, <1>8, <1>9 DEF PaceInv

\* A request that is granted keeps it: it has waited for the next step of the count.
LEMMA PaceUpdate ==
    ASSUME TypedThrottling, CountInv, PaceInv, NEW p \in Petitioners, Update(p) PROVE PaceInv'
<1> SUFFICES ASSUME ~crossed PROVE PaceInv'
  BY DEF PaceInv, Update
<1>1. PICK r \in Record, item \in Items :
        /\ item = petition[p].item /\ r = Written(p)
  BY UpdateFacts
<1>2. /\ fired = {} /\ Due(item)
      /\ \A q \in Petitioners : petition[q].at # "idle" => q = p
  BY <1>1 DEF PaceInv, Update
<1> DEFINE n == Len(granted[item])
<1>3. Base.items[item] # NoRecord => Base.items[item].count = n
  <2>1. CASE throttling = NoRecord
    BY <2>1 DEF Base
  <2>2. CASE throttling # NoRecord /\ granted[item] # << >>
    <3>1. throttling.items[item] = [count |-> n, last |-> granted[item][n]]
      BY <1>2, <2>2 DEF PaceInv, Exact
    <3> QED
      BY <2>2, <3>1 DEF Base
  <2>3. CASE throttling # NoRecord /\ granted[item] = << >>
    BY <1>2, <2>3 DEF PaceInv, Exact, Base
  <2> QED
    BY <2>1, <2>2, <2>3
<1>4. Base.items[item] = NoRecord => n = 0
  <2>1. CASE throttling = NoRecord
    BY <1>2, <2>1 DEF PaceInv
  <2>2. CASE throttling # NoRecord /\ granted[item] # << >>
    <3>1. throttling.items[item] = [count |-> n, last |-> granted[item][n]]
      BY <1>2, <2>2 DEF PaceInv, Exact
    <3>2. n \in 1..MaxGranted /\ granted[item][n] \in 0..MaxNow
      <4>1. n \in Nat /\ n <= Total /\ \A k \in 1..n : granted[item][k] \in 0..MaxNow
        BY LenBound
      <4>2. n # 0
        BY <2>2 DEF TypedThrottling, GrantedTypes
      <4> QED
        BY <4>1, <4>2, TotalNat, ThrottlingAssumption
    <3>3. throttling.items[item] \in Entry0
      BY <3>1, <3>2, ThrottlingAssumption DEF Entry0
    <3> QED
      BY <2>2, <3>3, ThrottlingAssumption DEF Base
  <2>3. CASE throttling # NoRecord /\ granted[item] = << >>
    BY <2>3
  <2> QED
    BY <2>1, <2>2, <2>3
<1>5. /\ r.items[item] = [count |-> n + 1, last |-> now]
      /\ r._id = Base._id
      /\ \A i \in Items \ {item} : r.items[i] = Base.items[i]
      /\ [op |-> "update", record |-> r] \in fired'
      /\ throttling = NoRecord => [op |-> "create", record |-> r] \in fired'
      /\ fired' \subseteq fired \cup {[op |-> op, record |-> r] : op \in {"create", "update"}}
      /\ granted' = [granted EXCEPT ![item] = Append(@, now)]
      /\ Total < MaxGranted
      /\ petition' = [petition EXCEPT ![p] = Idle0]
      /\ UNCHANGED <<now, throttling, crossed>>
  BY <1>1, <1>3, <1>4, UpdateFacts
<1>6. /\ Len(granted'[item]) = n + 1
      /\ granted'[item][n + 1] = now
      /\ \A k \in 1..n : granted'[item][k] = granted[item][k]
      /\ \A i \in Items \ {item} : granted'[i] = granted[i]
      /\ granted' \in [Items -> Seq(0..MaxNow)]
  BY <1>5, GrantsOne
<1>7. n \in Nat
  BY LenBound
<1>8. \A q \in Petitioners : petition'[q].at = "idle"
  BY <1>2, <1>5 DEF Idle0, TypedThrottling, ThrottlingTypeOK
<1>9. Exact(r)'
  <2> SUFFICES ASSUME NEW i \in Items
               PROVE  IF granted'[i] = << >> THEN r.items[i] = NoRecord
                      ELSE r.items[i] = [count |-> Len(granted'[i]),
                                         last |-> granted'[i][Len(granted'[i])]]
    BY DEF Exact
  <2>1. CASE i = item
    <3>1. granted'[i] # << >>
      <4>1. Len(granted'[i]) # 0
        BY <1>6, <1>7, <2>1
      <4> QED
        BY <4>1
    <3> QED
      BY <1>5, <1>6, <2>1, <3>1
  <2>2. CASE i # item
    <3>1. r.items[i] = Base.items[i] /\ granted'[i] = granted[i]
      BY <1>5, <1>6, <2>2
    <3>2. IF granted[i] = << >> THEN Base.items[i] = NoRecord
          ELSE Base.items[i] = [count |-> Len(granted[i]), last |-> granted[i][Len(granted[i])]]
      BY <1>2 DEF PaceInv, Exact, Base
    <3> QED
      BY <3>1, <3>2
  <2> QED
    BY <2>1, <2>2
<1>10. /\ fired' # {}
       /\ \A w \in fired' : w.record = r
       /\ \/ throttling' = NoRecord /\ [op |-> "create", record |-> r] \in fired'
          \/ /\ throttling' # NoRecord /\ throttling'._id = r._id
             /\ [op |-> "update", record |-> r] \in fired'
  BY <1>2, <1>5 DEF Base
<1>11. Paced'
  <2> SUFFICES ASSUME NEW i \in Items, NEW k \in 1..(Len(granted'[i]) - 1)
               PROVE  4 * (granted'[i][k + 1] - granted'[i][k]) >= Interval[i] * (k + 3)
    BY DEF Paced
  <2>1. CASE i # item
    <3>1. granted'[i] = granted[i]
      BY <1>6, <2>1
    <3> QED
      BY <3>1 DEF PaceInv, Paced
  <2>2. CASE i = item /\ k # n
    <3>1. k \in 1..(n - 1) /\ k \in 1..n /\ k + 1 \in 1..n
      BY <1>6, <1>7, <2>2
    <3>2. granted'[item][k + 1] = granted[item][k + 1] /\ granted'[item][k] = granted[item][k]
      BY <1>6, <3>1
    <3>3. 4 * (granted[item][k + 1] - granted[item][k]) >= Interval[item] * (k + 3)
      BY <3>1 DEF PaceInv, Paced
    <3> QED
      BY <2>2, <3>2, <3>3
  <2>3. CASE i = item /\ k = n
    <3>1. granted'[item][n + 1] = now /\ granted'[item][n] = granted[item][n] /\ n \in 1..n
      BY <1>6, <1>7, <2>3
    <3>2. granted[item] # << >>
      <4>1. n # 0
        BY <3>1, <1>7
      <4> QED
        BY <4>1
    <3>3. 4 * (now - granted[item][n]) >= Interval[item] * (n + 3)
      BY <1>2, <3>2 DEF Due
    <3> QED
      BY <2>3, <3>1, <3>3
  <2> QED
    BY <2>1, <2>2, <2>3
<1> HIDE DEF n
<1> QED
  BY <1>8, <1>9, <1>10, <1>11 DEF PaceInv

\* As long as each request begins when the one before is settled, the record is exact and
\* a request is let through only when it is due.
LEMMA PaceStep ==
    TypedThrottling /\ CountInv /\ PaceInv /\ ThrottlingStep => PaceInv'
<1> SUFFICES ASSUME TypedThrottling, CountInv, PaceInv, ThrottlingStep PROVE PaceInv'
  OBVIOUS
<1>1. CASE Tick \/ UNCHANGED <<now, throttlingVars>>
  <2> SUFFICES ASSUME ~crossed PROVE PaceInv'
    BY <1>1 DEF PaceInv, Tick, throttlingVars
  <2>1. UNCHANGED throttlingVars /\ now' \in {now, now + 1}
    BY <1>1 DEF Tick
  <2>2. \A q \in Petitioners : petition[q].at # "idle" => Due(petition[q].item)'
    <3> SUFFICES ASSUME NEW q \in Petitioners, petition[q].at # "idle"
                 PROVE  Due(petition[q].item)'
      OBVIOUS
    <3>1. PICK item \in Items : item = petition[q].item
      BY DEF TypedThrottling, ThrottlingTypeOK
    <3>2. Due(item)'
      BY <2>1, <3>1, DueStays DEF throttlingVars, PaceInv
    <3> QED
      BY <2>1, <3>1, <3>2 DEF Due, throttlingVars
  <2> QED
    BY <2>1, <2>2 DEF PaceInv, Exact, Paced, throttlingVars
<1>2. ASSUME NEW p \in Petitioners, Work(p) PROVE PaceInv'
  <2> SUFFICES ASSUME ~crossed PROVE PaceInv'
    BY <1>2 DEF PaceInv, Work
  <2>1. /\ petition[p].at = "work" /\ UNCHANGED <<now, throttling, fired, granted, crossed>>
        /\ \A q \in Petitioners : q # p => petition'[q] = petition[q]
        /\ petition'[p].at # "idle" => petition'[p].item = petition[p].item
    BY <1>2 DEF Work, Idle0, TypedThrottling, ThrottlingTypeOK
  <2>2. \A q \in Petitioners : petition'[q].at # "idle" =>
          petition[q].at # "idle" /\ petition'[q].item = petition[q].item
    BY <2>1
  <2>3. \A i \in Items : Due(i) => Due(i)'
    BY <2>1 DEF Due
  <2>4. \A q \in Petitioners : petition'[q].at # "idle" => Due(petition[q].item)'
    BY <2>1, <2>2 DEF PaceInv, Due
  <2> QED
    BY <2>1, <2>2, <2>4 DEF PaceInv, Exact, Paced
<1> QED
  BY <1>1, <1>2, PaceReach, PaceCheck, PaceUpdate DEF ThrottlingStep, Throttle

\* What a step of the server is to the throttling.
LEMMA ThrottlingSteps == [ServingNext]_servingVars => ThrottlingStep
<1> SUFFICES ASSUME [ServingNext]_servingVars PROVE ThrottlingStep
  OBVIOUS
<1>1. ASSUME NEW c \in Clients, Serve(c) PROVE UNCHANGED <<now, throttlingVars>>
  BY <1>1 DEF Serve, Arrive, ReadAccount, ReadOrganization, AuthenticationFails, Learn,
        Authorize, ReadFails, Throw, Reply, ReadPage, ReadMembers, ReadOne, ReadLatest, Count,
        ReadAddresses, CountOfOrganization
<1>2. ASSUME NEW c \in Clients, Follow(c) PROVE UNCHANGED <<now, throttlingVars>>
  BY <1>2 DEF Follow
<1>3. CASE CreateEvent \/ Change
  BY <1>3 DEF CreateEvent, Change, ThrottlingStep
<1>4. CASE Pass \/ Throttled
  BY <1>4 DEF Pass, Throttled, ThrottlingStep
<1>5. CASE UNCHANGED servingVars
  BY <1>5 DEF servingVars, ThrottlingStep
<1> QED
  BY <1>1, <1>2, <1>3, <1>4, <1>5 DEF ServingNext, ThrottlingStep

\* All of it holds at the start.
LEMMA ThrottlingStart == ThrottlingInit => TypedThrottling /\ CountInv /\ PaceInv
<1> SUFFICES ASSUME ThrottlingInit PROVE TypedThrottling /\ CountInv /\ PaceInv
  OBVIOUS
<1>1. /\ now = 0 /\ throttling = NoRecord /\ fired = {} /\ crossed = FALSE
      /\ \A p \in Petitioners : petition[p].at = "idle"
      /\ petition \in [Petitioners -> [at : {"idle", "work", "get"}, item : Items]]
      /\ \A i \in Items : granted[i] = << >>
      /\ granted = [i \in Items |-> << >>]
  BY DEF ThrottlingInit, Idle0, Items
<1>2. Total <= MaxGranted
  <2>1. granted["organization"] = << >> /\ granted["account"] = << >>
    BY <1>1 DEF Items
  <2> QED
    BY <2>1, ThrottlingAssumption DEF Total
<1>3. \A i \in Items : DOMAIN granted[i] = {} /\ Len(granted[i]) = 0
  BY <1>1
<1>4. granted \in [Items -> Seq(0..MaxNow)]
  BY <1>1
<1>5. TypedThrottling
  <2>1. crossed \in BOOLEAN
    BY <1>1, Zenon
  <2>2. now \in 0..MaxNow /\ throttling \in Record \cup {NoRecord} /\ fired \subseteq Write
    BY <1>1, ThrottlingAssumption
  <2>3. \A i \in Items : \A k \in DOMAIN granted[i] : granted[i][k] \in 0..MaxNow
    BY <1>3
  <2> QED
    BY <1>1, <1>2, <1>4, <2>1, <2>2, <2>3, Zenon DEF TypedThrottling, ThrottlingTypeOK, GrantedTypes
<1>6. CountInv
  BY <1>1 DEF CountInv
<1>7. PaceInv
  BY <1>1, <1>3 DEF PaceInv, Paced
<1> QED
  BY <1>5, <1>6, <1>7

\* The record is sound, and exact while no two requests cross, in every state.
THEOREM ThrottlingInvariant == ServingSpec => [](TypedThrottling /\ CountInv /\ PaceInv)
<1>1. ServingInit => TypedThrottling /\ CountInv /\ PaceInv
  BY ThrottlingStart DEF ServingInit
<1>2. TypedThrottling /\ CountInv /\ PaceInv /\ [ServingNext]_servingVars
        => (TypedThrottling /\ CountInv /\ PaceInv)'
  BY ThrottlingSteps, ThrottlingTypes, CountStep, PaceStep
<1> QED
  BY <1>1, <1>2, PTL DEF ServingSpec

\* However the requests of an address interleave, and in whatever order their writes reach
\* the database or fail to, the record counts no request twice and none that was refused;
\* and while each begins when the one before is settled, the intervals between them grow
\* as the configuration has it.
THEOREM PaceHolds == ServingSpec => []PaceKept
<1>1. TypedThrottling /\ CountInv /\ PaceInv => PaceKept
  BY DEF CountInv, Sound, PaceInv, Paced, PaceKept
<1> QED
  BY <1>1, ThrottlingInvariant, PTL

--------------------------------------------------------------------------------
\* Pages.

\* How many documents come before this one.
Rank(field, docs, d) == Cardinality({e \in docs : Earlier(field, e, d)})

\* The order is a total one.
LEMMA EarlierIsOrder ==
    ASSUME NEW field, NEW docs, Listable(field, docs),
           NEW d \in docs, NEW e \in docs, NEW f \in docs
    PROVE  /\ ~Earlier(field, d, d)
           /\ Earlier(field, d, e) /\ Earlier(field, e, f) => Earlier(field, d, f)
           /\ d # e => Earlier(field, d, e) \/ Earlier(field, e, d)
           /\ ~(Earlier(field, d, e) /\ Earlier(field, e, d))
  BY DEF Listable, Earlier

\* Part of a listing.
LEMMA PartListable ==
    ASSUME NEW field, NEW docs, Listable(field, docs), NEW part \in SUBSET docs
    PROVE  Listable(field, part)
  BY FS_Subset DEF Listable

\* The number of documents before one is a rank.
LEMMA RankBelow ==
    ASSUME NEW field, NEW docs, Listable(field, docs), NEW d \in docs
    PROVE  /\ Rank(field, docs, d) \in 0..(Cardinality(docs) - 1)
           /\ \A e \in docs : Earlier(field, d, e) => Rank(field, docs, d) < Rank(field, docs, e)
<1> DEFINE B(x) == {e \in docs : Earlier(field, e, x)}
<1>1. IsFiniteSet(docs)
  BY DEF Listable
<1>2. ASSUME NEW x \in docs
      PROVE  IsFiniteSet(B(x)) /\ Cardinality(B(x)) \in Nat /\ Rank(field, docs, x) = Cardinality(B(x))
  BY <1>1, FS_Subset, FS_CardinalityType DEF Rank
<1>3. ASSUME NEW x \in docs, NEW big \in SUBSET docs, B(x) \subseteq big, x \in big
      PROVE  Cardinality(B(x)) < Cardinality(big)
  <2>1. IsFiniteSet(big) /\ Cardinality(big) \in Nat
    BY <1>1, FS_Subset, FS_CardinalityType
  <2>2. x \notin B(x)
    BY EarlierIsOrder
  <2>3. Cardinality(B(x)) <= Cardinality(big)
    BY <1>3, <2>1, FS_Subset
  <2>4. Cardinality(B(x)) # Cardinality(big)
    BY <1>3, <2>1, <2>2, FS_Subset
  <2> QED
    BY <1>2, <2>1, <2>3, <2>4
<1>4. Cardinality(docs) \in Nat
  BY <1>1, FS_CardinalityType
<1>5. Cardinality(B(d)) < Cardinality(docs)
  BY <1>3
<1>6. ASSUME NEW e \in docs, Earlier(field, d, e) PROVE Cardinality(B(d)) < Cardinality(B(e))
  <2>1. B(d) \subseteq B(e) /\ d \in B(e)
    BY <1>6, EarlierIsOrder
  <2> QED
    BY <1>3, <2>1
<1> HIDE DEF B
<1> QED
  BY <1>2, <1>4, <1>5, <1>6

\* Each number of documents is the rank of one.
LEMMA RankOnto ==
    ASSUME NEW field, NEW docs, Listable(field, docs), NEW i \in 0..(Cardinality(docs) - 1)
    PROVE  \E d \in docs : Rank(field, docs, d) = i
<1> DEFINE n == Cardinality(docs)
           f == [d \in docs |-> Rank(field, docs, d)]
<1>1. n \in Nat /\ IsFiniteSet(docs)
  BY FS_CardinalityType DEF Listable
<1>2. IsFiniteSet(0..(n - 1)) /\ Cardinality(0..(n - 1)) = n
  BY <1>1, FS_Interval
<1>3. f \in [docs -> 0..(n - 1)]
  BY RankBelow
<1>4. ASSUME NEW d \in docs, NEW e \in docs, f[d] = f[e] PROVE d = e
  <2>1. Rank(field, docs, d) = Rank(field, docs, e)
    BY <1>4
  <2>2. Rank(field, docs, d) \in Int /\ Rank(field, docs, e) \in Int
    BY RankBelow, <1>1
  <2>3. ~Earlier(field, d, e) /\ ~Earlier(field, e, d)
    BY <2>1, <2>2, RankBelow
  <2> QED
    BY <2>3, EarlierIsOrder
<1>5. f \in Injection(docs, 0..(n - 1))
  BY <1>3, <1>4 DEF Injection, IsInjective
<1>6. f \in Surjection(docs, 0..(n - 1))
  BY <1>2, <1>5, FS_Injection
<1> QED
  BY <1>6 DEF Surjection

\* The documents in their order: each of them once, each before the next.
LEMMA SortedFacts ==
    ASSUME NEW field, NEW docs, Listable(field, docs)
    PROVE  LET s == Sorted(field, docs)
           IN /\ s \in [1..Cardinality(docs) -> docs] /\ Cardinality(docs) \in Nat
              /\ s \in Seq(docs) /\ Len(s) = Cardinality(docs)
              /\ \A i \in DOMAIN s : Rank(field, docs, s[i]) = i - 1
              /\ \A d \in docs : \E i \in 1..Len(s) : s[i] = d
              /\ \A i, j \in 1..Len(s) : i < j => Earlier(field, s[i], s[j])
<1> DEFINE n == Cardinality(docs)
           s == Sorted(field, docs)
<1>1. n \in Nat
  BY FS_CardinalityType DEF Listable
<1>2. s = [i \in 1..n |-> CHOOSE d \in docs : Rank(field, docs, d) = i - 1]
  BY DEF Sorted, Rank
<1>3. ASSUME NEW i \in 1..n PROVE s[i] \in docs /\ Rank(field, docs, s[i]) = i - 1
  <2>1. i - 1 \in 0..(n - 1)
    BY <1>1
  <2>2. \E d \in docs : Rank(field, docs, d) = i - 1
    BY <2>1, RankOnto
  <2>3. s[i] = CHOOSE d \in docs : Rank(field, docs, d) = i - 1
    BY <1>2
  <2> QED
    BY <2>2, <2>3
<1>4. s \in [1..n -> docs]
  BY <1>2, <1>3
<1>5. s \in Seq(docs) /\ Len(s) = n
  BY <1>1, <1>4
<1>6. ASSUME NEW d \in docs, NEW e \in docs, Rank(field, docs, d) = Rank(field, docs, e)
      PROVE  d = e
  <2>1. Rank(field, docs, d) \in Int /\ Rank(field, docs, e) \in Int
    BY <1>1, RankBelow
  <2>2. ~Earlier(field, d, e) /\ ~Earlier(field, e, d)
    BY <1>6, <2>1, RankBelow
  <2> QED
    BY <2>2, EarlierIsOrder
<1>7. ASSUME NEW d \in docs PROVE \E i \in 1..n : s[i] = d
  <2> DEFINE i == Rank(field, docs, d) + 1
  <2>1. i \in 1..n /\ i - 1 = Rank(field, docs, d)
    BY <1>1, RankBelow
  <2> QED
    BY <1>3, <1>6, <2>1
<1>8. ASSUME NEW i \in 1..n, NEW j \in 1..n, i < j PROVE Earlier(field, s[i], s[j])
  <2>1. /\ s[i] \in docs /\ Rank(field, docs, s[i]) = i - 1
        /\ s[j] \in docs /\ Rank(field, docs, s[j]) = j - 1
    BY <1>3
  <2>2. i - 1 < j - 1 /\ i - 1 \in Int /\ j - 1 \in Int
    BY <1>1, <1>8
  <2>3. s[i] # s[j]
    BY <2>1, <2>2
  <2>4. ~Earlier(field, s[j], s[i])
    BY <2>1, <2>2, RankBelow
  <2> QED
    BY <2>1, <2>3, <2>4, EarlierIsOrder
<1> HIDE DEF s
<1> QED
  BY <1>1, <1>3, <1>4, <1>5, <1>7, <1>8 DEF s

\* The start of a sequence.
LEMMA Start ==
    ASSUME NEW S, NEW s \in Seq(S), NEW n \in 0..Len(s)
    PROVE  /\ SubSeq(s, 1, n) \in Seq(S) /\ Len(SubSeq(s, 1, n)) = n
           /\ \A i \in 1..n : SubSeq(s, 1, n)[i] = s[i]
  OBVIOUS

\* A page of rest: each document before the next, and the others of rest are after the
\* page, which then says that there are more.
PageOk(field, rest, page) ==
    /\ page.results \in Seq(rest) /\ page.hasNext \in BOOLEAN
    /\ \A i, j \in 1..Len(page.results) :
         i < j => Earlier(field, page.results[i], page.results[j])
    /\ page.hasNext => Len(page.results) > 0
    /\ \A d \in rest :
         \/ \E i \in 1..Len(page.results) : page.results[i] = d
         \/ page.hasNext /\ Earlier(field, page.results[Len(page.results)], d)

\* That is what FindPage makes of the documents after the cursor.
LEMMA PageFacts ==
    ASSUME NEW field, NEW docs, Listable(field, docs), NEW cursor,
           NEW limit, limit = None \/ limit \in Int
    PROVE  PageOk(field, {d \in docs : cursor = None \/ Earlier(field, cursor, d)},
                  FindPage(docs, field, limit, cursor))
<1> DEFINE rest == {d \in docs : cursor = None \/ Earlier(field, cursor, d)}
           s == Sorted(field, rest)
           size == LimitOf(limit)
           m == IF Len(s) < size THEN Len(s) ELSE size
           page == FindPage(docs, field, limit, cursor)
<1>1. Listable(field, rest)
  BY PartListable
<1>2. /\ s \in Seq(rest)
      /\ \A d \in rest : \E i \in 1..Len(s) : s[i] = d
      /\ \A i, j \in 1..Len(s) : i < j => Earlier(field, s[i], s[j])
  BY <1>1, SortedFacts
<1>3. size \in Nat \ {0}
  BY QueryAssumption DEF LimitOf
<1>4. page.results = SubSeq(s, 1, m) /\ page.hasNext = (Len(s) > size)
  BY DEF FindPage
<1> HIDE DEF page, rest, s, size
<1>5. Len(s) \in Nat
  BY <1>2
<1>6. m \in 0..Len(s) /\ (Len(s) > size => m = size) /\ (~(Len(s) > size) => m = Len(s))
  BY <1>3, <1>5
<1> HIDE DEF m
<1>7. /\ page.results \in Seq(rest) /\ Len(page.results) = m
      /\ \A i \in 1..m : page.results[i] = s[i]
  BY <1>2, <1>4, <1>6, Start
<1>8. \A i, j \in 1..m : i < j => Earlier(field, page.results[i], page.results[j])
  <2> SUFFICES ASSUME NEW i \in 1..m, NEW j \in 1..m, i < j
               PROVE  Earlier(field, page.results[i], page.results[j])
    OBVIOUS
  <2>1. i \in 1..Len(s) /\ j \in 1..Len(s)
    BY <1>5, <1>6
  <2>2. Earlier(field, s[i], s[j])
    BY <1>2, <2>1
  <2> QED
    BY <1>7, <2>2
<1>9. page.hasNext \in BOOLEAN
  BY <1>4
<1>10. page.hasNext => m > 0
  <2>1. page.hasNext => Len(s) > size
    BY <1>4
  <2>2. Len(s) > size => m = size
    BY <1>6
  <2> QED
    BY <1>3, <2>1, <2>2
<1>11. ASSUME NEW d \in rest
       PROVE  \/ \E i \in 1..m : page.results[i] = d
              \/ page.hasNext /\ Earlier(field, page.results[m], d)
  <2>1. PICK i \in 1..Len(s) : s[i] = d
    BY <1>2
  <2>2. CASE i \in 1..m
    BY <1>7, <2>1, <2>2
  <2>3. CASE i \notin 1..m
    <3>1. m < i /\ Len(s) > size
      BY <1>5, <1>6, <2>3
    <3>2. m \in 1..m /\ m \in 1..Len(s)
      BY <1>3, <1>5, <1>6, <3>1
    <3> QED
      BY <1>2, <1>4, <1>7, <2>1, <3>1, <3>2
  <2> QED
    BY <2>2, <2>3
<1>12. PageOk(field, rest, page)
  BY <1>7, <1>8, <1>9, <1>10, <1>11 DEF PageOk
<1> QED
  BY <1>12 DEF page, rest

--------------------------------------------------------------------------------
\* Accounts in scope.

\* The fields that an account and an organization have.
Has == [accounts |-> {"id", "address", "organization", "accessLevel", "perms"},
        organization |-> {"id", "createdOn"}]

\* The documents keep what they are listed by.
StoreInv ==
    /\ store["events"] \subseteq Store["events"] \cup Arriving
    /\ \A k \in Collections : Listable(PaginatedField[k], store[k])
    /\ \A k \in {"accounts", "organization"} :
         Switchable(store[k]) /\ \A d \in store[k] : Has[k] \subseteq DOMAIN d

\* What Change does to a document.
LEMMA ChangedFacts ==
    ASSUME NEW doc, "active" \in DOMAIN doc, doc = [field \in DOMAIN doc |-> doc[field]],
           doc.active \in BOOLEAN
    PROVE  LET new == Changed(doc)
           IN /\ DOMAIN new = DOMAIN doc /\ new = [field \in DOMAIN new |-> new[field]]
              /\ new.active \in BOOLEAN
              /\ \A field \in DOMAIN doc : field # "active" => new[field] = doc[field]
  BY DEF Changed

\* One document changes to another with its identifier and its place.
LEMMA ReplaceOne ==
    ASSUME NEW field, NEW docs, Listable(field, docs), NEW a \in docs, NEW b,
           b.id = a.id, b[field] = a[field]
    PROVE  Listable(field, (docs \ {a}) \cup {b})
<1>1. IsFiniteSet((docs \ {a}) \cup {b})
  BY FS_RemoveElement, FS_AddElement DEF Listable
<1>2. \A d \in (docs \ {a}) \cup {b} : d.id \in Int /\ d[field] \in Int
  BY DEF Listable
<1>3. \A d, e \in (docs \ {a}) \cup {b} : d.id = e.id => d = e
  BY DEF Listable
<1> QED
  BY <1>1, <1>2, <1>3 DEF Listable

\* They have them at the start.
LEMMA StoreStart == ServingInit => StoreInv
<1> SUFFICES ASSUME ServingInit PROVE StoreInv
  OBVIOUS
<1>1. store = Store
  BY DEF ServingInit
<1>2. ASSUME NEW k \in Collections PROVE Listable(PaginatedField[k], store[k])
  <2> DEFINE all == Store[k] \cup IF k = "events" THEN Arriving ELSE {}
  <2>1. Listable(PaginatedField[k], all) /\ store[k] \in SUBSET all
    BY <1>1, ServingAssumption DEF All
  <2> HIDE DEF all
  <2> QED
    BY <2>1, PartListable
<1>3. \A k \in {"accounts", "organization"} :
        Switchable(store[k]) /\ \A d \in store[k] : Has[k] \subseteq DOMAIN d
  BY <1>1, ServingAssumption DEF Has
<1> QED
  BY <1>1, <1>2, <1>3 DEF StoreInv

\* Neither a new event nor turning a document on or off changes that.
LEMMA StoreStep == Shape /\ StoreInv /\ ServingStep => StoreInv'
<1> SUFFICES ASSUME Shape, StoreInv, ServingStep PROVE StoreInv'
  OBVIOUS
<1>1. CASE UNCHANGED store
  BY <1>1 DEF StoreInv
<1>2. CASE CreateEvent
  <2>1. PICK e \in Arriving : store' = [store EXCEPT !["events"] = @ \cup {e}]
    BY <1>2 DEF CreateEvent
  <2>2. /\ store'["events"] = store["events"] \cup {e}
        /\ \A k \in Collections \ {"events"} : store'[k] = store[k]
    BY <2>1 DEF Shape, Collections
  <2>3. store'["events"] \subseteq Store["events"] \cup Arriving
    BY <2>2 DEF StoreInv
  <2>4. Listable(PaginatedField["events"], Store["events"] \cup Arriving)
    <3>1. "events" \in Collections
      BY DEF Collections
    <3> QED
      BY <3>1, ServingAssumption DEF All
  <2>5. Listable(PaginatedField["events"], store'["events"])
    BY <2>3, <2>4, PartListable
  <2>6. \A k \in Collections : Listable(PaginatedField[k], store'[k])
    BY <2>2, <2>5 DEF StoreInv
  <2>7. store'["accounts"] = store["accounts"] /\ store'["organization"] = store["organization"]
    BY <2>2 DEF Collections
  <2> QED
    BY <2>3, <2>6, <2>7 DEF StoreInv
<1>3. CASE Change
  <2>1. PICK k \in {"accounts", "organization"} :
          \E a \in store[k] : store' = [store EXCEPT ![k] = (@ \ {a}) \cup {Changed(a)}]
    BY <1>3 DEF Change
  <2>2. PICK a \in store[k] : store' = [store EXCEPT ![k] = (@ \ {a}) \cup {Changed(a)}]
    BY <2>1
  <2>3. /\ "active" \in DOMAIN a /\ a = [field \in DOMAIN a |-> a[field]] /\ a.active \in BOOLEAN
        /\ Has[k] \subseteq DOMAIN a
    BY DEF StoreInv, Switchable
  <2>4. /\ DOMAIN Changed(a) = DOMAIN a
        /\ Changed(a) = [field \in DOMAIN Changed(a) |-> Changed(a)[field]]
        /\ Changed(a).active \in BOOLEAN
        /\ \A field \in DOMAIN a : field # "active" => Changed(a)[field] = a[field]
    BY <2>3, ChangedFacts
  <2>5. /\ "id" \in Has[k] /\ PaginatedField[k] \in Has[k] /\ PaginatedField[k] # "active"
        /\ k \in Collections /\ k # "events"
    BY DEF Has, PaginatedField, Collections
  <2>6. Changed(a).id = a.id /\ Changed(a)[PaginatedField[k]] = a[PaginatedField[k]]
    BY <2>3, <2>4, <2>5
  <2>7. /\ store'[k] = (store[k] \ {a}) \cup {Changed(a)}
        /\ \A j \in Collections \ {k} : store'[j] = store[j]
    BY <2>2, <2>5 DEF Shape
  <2>8. Listable(PaginatedField[k], store'[k])
    BY <2>5, <2>6, <2>7, ReplaceOne DEF StoreInv
  <2>9. \A j \in Collections : Listable(PaginatedField[j], store'[j])
    BY <2>7, <2>8 DEF StoreInv
  <2>10. Switchable(store'[k]) /\ \A d \in store'[k] : Has[k] \subseteq DOMAIN d
    BY <2>3, <2>4, <2>7 DEF StoreInv, Switchable
  <2>11. \A j \in {"accounts", "organization"} :
           Switchable(store'[j]) /\ \A d \in store'[j] : Has[j] \subseteq DOMAIN d
    BY <2>7, <2>10 DEF StoreInv, Collections
  <2>12. store'["events"] = store["events"]
    BY <2>5, <2>7 DEF Collections
  <2> QED
    BY <2>9, <2>11, <2>12 DEF StoreInv
<1> QED
  <2>1. CreateEvent \/ Change \/ UNCHANGED store
    BY DEF ServingStep, Arrive, ReadAccount, ReadOrganization, AuthenticationFails, Learn,
           Authorize, Throw, Answers, Reply, Addresses, Follow, serving
  <2> QED
    BY <1>1, <1>2, <1>3, <2>1

--------------------------------------------------------------------------------
\* AccountsInScope, of one client.
InScope(d, u) == d.organization = u.account.organization /\ d.accessLevel <= u.account.accessLevel

\* AccountsInScope of one client.
ScopedAnswer(c) ==
    (Answered(c, {"page", "members", "account", "account2"})
     /\ Asked(c).route.collection = "accounts" /\ ~IsSuper(principal[c])) =>
        \A i \in DOMAIN answer[c].docs : InScope(answer[c].docs[i], principal[c])

\* What Scope makes of accounts, whatever conditions come with it.
LEMMA ScopeBinds ==
    ASSUME NEW d, NEW u, NEW route, route.collection = "accounts", ~IsSuper(u),
           NEW conditions, Scope(u, route) \subseteq conditions, Matches(d, conditions),
           {"organization", "accessLevel"} \subseteq DOMAIN d
    PROVE  InScope(d, u)
<1> DEFINE o == Condition("organization", "$eq", u.account.organization)
           l == Condition("accessLevel", "$lte", u.account.accessLevel)
<1>1. Scope(u, route) = {o, l}
  BY DEF Scope
<1>2. /\ o.field = "organization" /\ o.op = "$eq" /\ o.value = {u.account.organization}
      /\ l.field = "accessLevel" /\ l.op = "$lte" /\ l.value = {u.account.accessLevel}
  BY DEF Condition
<1>3. o \in conditions /\ l \in conditions
  BY <1>1
<1> HIDE DEF o, l
<1>4. Holds("$eq", d["organization"], {u.account.organization})
  BY <1>2, <1>3 DEF Matches
<1>5. Holds("$lte", d["accessLevel"], {u.account.accessLevel})
  BY <1>2, <1>3 DEF Matches
<1>6. d.organization = u.account.organization
  BY <1>4 DEF Holds
<1>7. d.accessLevel <= u.account.accessLevel
  BY <1>5 DEF Holds
<1> QED
  BY <1>6, <1>7 DEF InScope

\* A page of a listing of accounts, with any conditions that Scope has the last word on.
LEMMA PageInScope ==
    ASSUME StoreInv, NEW u, NEW route, route.collection = "accounts", ~IsSuper(u),
           NEW asked, NEW limit, limit = None \/ limit \in Int, NEW cursor,
           NEW docs \in SUBSET {d \in store["accounts"] :
                                 Matches(d, Override(asked, Scope(u, route)))}
    PROVE  LET page == FindPage(docs, PaginatedField["accounts"], limit, cursor)
           IN \A i \in DOMAIN page.results : InScope(page.results[i], u)
<1> DEFINE conditions == Override(asked, Scope(u, route))
           field == PaginatedField["accounts"]
           rest == {d \in docs : cursor = None \/ Earlier(field, cursor, d)}
           page == FindPage(docs, field, limit, cursor)
<1>1. Listable(field, docs)
  <2>1. Listable(field, store["accounts"])
    BY DEF StoreInv, Collections
  <2> HIDE DEF field, conditions
  <2> QED
    BY <2>1, PartListable
<1>2. page.results \in Seq(rest)
  <2> HIDE DEF field
  <2>1. PageOk(field, rest, page)
    BY <1>1, PageFacts
  <2> HIDE DEF rest, page
  <2> QED
    BY <2>1 DEF PageOk
<1>3. Scope(u, route) \subseteq conditions
  BY DEF Override
<1>4. \A d \in docs : InScope(d, u)
  <2> SUFFICES ASSUME NEW d \in docs PROVE InScope(d, u)
    OBVIOUS
  <2>1. d \in store["accounts"] /\ Matches(d, conditions)
    OBVIOUS
  <2>2. {"organization", "accessLevel"} \subseteq DOMAIN d
    BY <2>1 DEF StoreInv, Has
  <2> HIDE DEF conditions
  <2> QED
    BY <1>3, <2>1, <2>2, ScopeBinds
<1> HIDE DEF page
<1>5. \A i \in DOMAIN page.results : page.results[i] \in docs
  BY <1>2
<1> QED
  BY <1>4, <1>5 DEF page

\* An error shows no account.
LEMMA ThrownScoped ==
    ASSUME Shape, NEW c \in Clients, NEW error, Throw(c, error),
           error \in {"ValidationError", "RepositoryError", "PermissionError", "NotFoundError", "TypeError"}
    PROVE  ScopedAnswer(c)'
<1>1. answer'[c].status \in {400, 403, 404, 500}
  BY DEF Throw, Reply, Shape, StatusOf
<1> QED
  BY <1>1 DEF ScopedAnswer, Answered

\* A page shows what is in scope.
LEMMA ReadPageScoped ==
    ASSUME Shape, StoreInv, UserInv, NEW c \in Clients, ReadPage(c)
    PROVE  ScopedAnswer(c)'
<1> DEFINE route == Asked(c).route
           list == route.answer = "list"
           conditions == Override(Filter(c), Scope(principal[c], route))
           limit == IF list THEN None ELSE Asked(c).limit
           cursor == IF list THEN None ELSE next[c]
           pageOf(docs) == FindPage(docs, PaginatedField[route.collection], limit, cursor)
<1>1. \/ Throw(c, "ValidationError") \/ Throw(c, "RepositoryError")
      \/ \E docs \in Pageable(c, conditions) :
           Reply(c, 200, pageOf(docs).results, pageOf(docs).hasNext, << >>)
  BY DEF ReadPage
<1>2. ASSUME NEW docs \in Pageable(c, conditions),
             Reply(c, 200, pageOf(docs).results, pageOf(docs).hasNext, << >>)
      PROVE  ScopedAnswer(c)'
  <2> DEFINE page == pageOf(docs)
  <2>1. answer'[c].docs = page.results /\ UNCHANGED <<plan, principal>>
    <3>1. Reply(c, 200, page.results, page.hasNext, << >>)
      BY <1>2
    <3> HIDE DEF page
    <3> QED
      BY <3>1 DEF Reply, Shape
  <2>2. SUFFICES ASSUME route.collection = "accounts", ~IsSuper(principal[c])
                 PROVE  \A i \in DOMAIN page.results : InScope(page.results[i], principal[c])
    <3> HIDE DEF page
    <3> QED
      BY <2>1 DEF ScopedAnswer, Asked, IsSuper, InScope
  <2>3. limit = None \/ limit \in Int
    <3>1. Asked(c) # None
      BY DEF UserInv, UserOk, ReadPage, At, AtWork
    <3> QED
      BY <3>1, ServingAssumption DEF Shape, Asked
  <2>4. /\ page = FindPage(docs, PaginatedField["accounts"], limit, cursor)
        /\ docs \in SUBSET {d \in store["accounts"] : Matches(d, conditions)}
    BY <2>2 DEF Docs, Pageable
  <2> HIDE DEF page, limit, cursor
  <2> QED
    BY <2>2, <2>3, <2>4, PageInScope
<1> QED
  BY <1>1, <1>2, ThrownScoped

\* So do the members of an organization.
LEMMA ReadMembersScoped ==
    ASSUME Shape, StoreInv, NEW c \in Clients, ReadMembers(c)
    PROVE  ScopedAnswer(c)'
<1> DEFINE u == principal[c]
           asked == {Condition("organization", "$eq", Asked(c).id)}
           conditions == Override(asked, Scope(u, Asked(c).route))
<1>1. \/ Throw(c, "ValidationError") \/ Throw(c, "PermissionError")
      \/ \E docs \in Pageable(c, conditions) :
           Reply(c, 200, FindPage(docs, "id", None, None).results, FALSE, << >>)
  BY DEF ReadMembers
<1>2. ASSUME NEW docs \in Pageable(c, conditions),
             Reply(c, 200, FindPage(docs, "id", None, None).results, FALSE, << >>)
      PROVE  ScopedAnswer(c)'
  <2> DEFINE page == FindPage(docs, "id", None, None)
  <2>1. answer'[c].docs = page.results /\ UNCHANGED <<plan, principal>>
    <3>1. Reply(c, 200, page.results, FALSE, << >>)
      BY <1>2
    <3> HIDE DEF page
    <3> QED
      BY <3>1 DEF Reply, Shape
  <2>2. SUFFICES ASSUME Asked(c).route.collection = "accounts", ~IsSuper(u)
                 PROVE  \A i \in DOMAIN page.results : InScope(page.results[i], principal[c])
    <3> HIDE DEF page
    <3> QED
      BY <2>1 DEF ScopedAnswer, Asked, IsSuper, InScope
  <2>3. /\ page = FindPage(docs, PaginatedField["accounts"], None, None)
        /\ docs \in SUBSET {d \in store["accounts"] : Matches(d, conditions)}
    BY <2>2 DEF Docs, PaginatedField, Pageable
  <2> HIDE DEF page, asked
  <2> QED
    BY <2>2, <2>3, PageInScope
<1> QED
  BY <1>1, <1>2, ThrownScoped

\* And a single account.
LEMMA ReadOneScoped ==
    ASSUME Shape, StoreInv, NEW c \in Clients, ReadOne(c)
    PROVE  ScopedAnswer(c)'
<1> DEFINE u == principal[c]
           route == Asked(c).route
           docs == Seen(u, route, Found(c))
           one == CHOOSE d \in docs : TRUE
<1>1. \/ Throw(c, "ValidationError") \/ Throw(c, "PermissionError") \/ Throw(c, "TypeError")
      \/ Throw(c, "NotFoundError")
      \/ docs # {} /\ Reply(c, 200, <<one>>, FALSE, << >>)
  BY DEF ReadOne
<1>2. CASE docs # {} /\ Reply(c, 200, <<one>>, FALSE, << >>)
  <2>1. answer'[c].docs = <<one>> /\ UNCHANGED <<plan, principal>>
    <3>1. Reply(c, 200, <<one>>, FALSE, << >>)
      BY <1>2
    <3> QED
      BY <3>1 DEF Reply, Shape
  <2>2. one \in docs
    BY <1>2
  <2> HIDE DEF one
  <2>3. SUFFICES ASSUME route.collection = "accounts", ~IsSuper(u),
                        route.answer \in {"page", "members", "account", "account2"}
                 PROVE  InScope(one, u)
    <3>1. DOMAIN <<one>> = {1} /\ <<one>>[1] = one
      OBVIOUS
    <3> QED
      BY <2>1, <3>1 DEF ScopedAnswer, Answered, Asked, IsSuper, InScope
  <2>4. route.answer \in {"account", "account2"}
    BY <2>3 DEF ReadOne, At
  <2>5. one \in store["accounts"] /\ Matches(one, Scope(u, route))
    BY <2>2, <2>3, <2>4 DEF Seen, Found, Docs
  <2>6. {"organization", "accessLevel"} \subseteq DOMAIN one
    BY <2>5 DEF StoreInv, Has
  <2> QED
    BY <2>3, <2>5, <2>6, ScopeBinds
<1> QED
  BY <1>1, <1>2, ThrownScoped

\* Every step keeps to the scope.
LEMMA ScopedStep ==
    Shape /\ StoreInv /\ UserInv /\ AccountsInScope /\ [ServingNext]_servingVars
      => AccountsInScope'
<1> SUFFICES ASSUME Shape, StoreInv, UserInv, AccountsInScope, [ServingNext]_servingVars,
                    NEW d \in Clients
             PROVE  ScopedAnswer(d)'
  BY DEF AccountsInScope, ScopedAnswer, InScope
<1>1. ScopedAnswer(d)
  BY DEF AccountsInScope, ScopedAnswer, InScope
<1>2. ASSUME UNCHANGED plan, pc'[d] = pc[d], principal'[d] = principal[d], answer'[d] = answer[d]
      PROVE  ScopedAnswer(d)'
  BY <1>1, <1>2 DEF ScopedAnswer, Answered, Asked, IsSuper, InScope
<1>3. ASSUME pc'[d] # "answered"
      PROVE  ScopedAnswer(d)'
  BY <1>3 DEF ScopedAnswer, Answered
<1>4. ASSUME \/ Arrive(d) \/ ReadAccount(d) \/ ReadOrganization(d) \/ AuthenticationFails(d)
             \/ Addresses(d) \/ Follow(d)
      PROVE  ScopedAnswer(d)'
  <2>1. pc'[d] # "answered"
    BY <1>4 DEF Shape, Arrive, ReadAccount, ReadOrganization, AuthenticationFails, Learn,
          Addresses, Follow, Continue
  <2> QED
    BY <1>3, <2>1
<1>5. ASSUME Authorize(d) PROVE ScopedAnswer(d)'
  <2>1. Throw(d, "PermissionError") \/ pc'[d] = "read"
    BY <1>5 DEF Authorize, Continue, Shape
  <2> QED
    BY <1>3, <2>1, ThrownScoped
<1>6. ASSUME ReadFails(d) PROVE ScopedAnswer(d)'
  BY <1>6, ThrownScoped DEF ReadFails
<1>7. ASSUME ReadPage(d) \/ ReadMembers(d) \/ ReadOne(d) PROVE ScopedAnswer(d)'
  BY <1>7, ReadPageScoped, ReadMembersScoped, ReadOneScoped
<1>8. ASSUME ReadLatest(d) \/ Count(d) \/ ReadAddresses(d) PROVE ScopedAnswer(d)'
  <2>1. Asked(d).route.answer \notin {"page", "members", "account", "account2"} /\ UNCHANGED plan
    BY <1>8 DEF ReadLatest, Count, ReadAddresses, At, OfOrganization, Reply, Throw
  <2> QED
    BY <2>1 DEF ScopedAnswer, Answered, Asked
<1>9. ASSUME CountOfOrganization(d) PROVE ScopedAnswer(d)'
  <2>1. answer'[d].docs = << >>
    BY <1>9 DEF CountOfOrganization, Reply, Shape
  <2> QED
    BY <2>1 DEF ScopedAnswer
<1>10. CASE CreateEvent \/ Change \/ UNCHANGED serving
  <2>1. UNCHANGED <<plan, pc, principal, answer>>
    BY <1>10 DEF CreateEvent, Change, serving
  <2> QED
    BY <1>2, <2>1
<1>11. ASSUME NEW c \in Clients, c # d, Serve(c) \/ Follow(c) PROVE ScopedAnswer(d)'
  <2>1. UNCHANGED plan /\ pc'[d] = pc[d] /\ principal'[d] = principal[d] /\ answer'[d] = answer[d]
    BY <1>11 DEF Shape, Serve, Arrive, ReadAccount, ReadOrganization, AuthenticationFails, Learn,
          Authorize, ReadFails, ReadPage, ReadMembers, ReadOne, ReadLatest, Count, ReadAddresses,
          CountOfOrganization, Throw, Reply, Follow, Continue
  <2> QED
    BY <1>2, <2>1
<1>12. CASE UNCHANGED servingVars \/ Pass \/ Throttled
  BY <1>10, <1>12 DEF servingVars, Pass, Throttled
<1> QED
  BY <1>4, <1>5, <1>6, <1>7, <1>8, <1>9, <1>10, <1>11, <1>12 DEF ServingNext, Serve

\* The documents keep what they are listed by.
THEOREM StoreKept == ServingSpec => []StoreInv
<1>1. ServingInit => StoreInv
  BY StoreStart
<1>2. Shape /\ UserInv /\ StoreInv /\ [ServingNext]_servingVars => StoreInv'
  BY ServingSteps, StoreStep
<1> QED
  BY <1>1, <1>2, UsersKnown, PTL DEF ServingSpec

\* An account is shown to a user without super_account only if it is of the same
\* organization and of no higher level, whatever the request filters for, on whatever page
\* of the listing, and whatever has changed meanwhile.
THEOREM ScopeHolds == ServingSpec => []AccountsInScope
<1>1. ServingInit => AccountsInScope
  BY DEF ServingInit, AccountsInScope, Answered
<1>2. /\ Shape /\ UserInv /\ StoreInv /\ AccountsInScope
      /\ [ServingNext]_servingVars
      => AccountsInScope'
  BY ScopedStep
<1> QED
  BY <1>1, <1>2, UsersKnown, StoreKept, PTL DEF ServingSpec

--------------------------------------------------------------------------------
\* A document passes one condition.
Passes(d, w) ==
    IF w.field \in DOMAIN d THEN Holds(w.op, d[w.field], w.value) ELSE w.op \in {"$ne", "$nin"}

\* A comparison with one value says what its name says.
LEMMA ComparisonSays ==
    ASSUME NEW name \in Comparisons, NEW v, NEW value, OneValue(value)
    PROVE  /\ Holds(OperatorOf(name), v, value) <=> Says(name, v, value)
           /\ OperatorOf(name) \in {"$gt", "$gte", "$lt", "$lte"}
<1>1. PICK x \in value : value = {x}
  BY DEF OneValue
<1>2. CASE name = "greater-than"
  BY <1>1, <1>2 DEF OperatorOf, MatchMongoOperator, Operators, Comparisons, Holds, Says
<1>3. CASE name = "greater-than-equal"
  BY <1>1, <1>3 DEF OperatorOf, MatchMongoOperator, Operators, Comparisons, Holds, Says
<1>4. CASE name = "less-than"
  BY <1>1, <1>4 DEF OperatorOf, MatchMongoOperator, Operators, Comparisons, Holds, Says
<1>5. CASE name = "less-than-equal"
  BY <1>1, <1>5 DEF OperatorOf, MatchMongoOperator, Operators, Comparisons, Holds, Says
<1> QED
  BY <1>2, <1>3, <1>4, <1>5 DEF Comparisons

\* So does every other operator but the range, and the database tells a document that lacks the
\* field by the negative ones only.
LEMMA NamedSays ==
    ASSUME NEW v, NEW value,
           NEW name \in {"equal", "not-equal", "equal-array", "not-equal-array", "startsWith", "contains"}
    PROVE  /\ Holds(OperatorOf(name), v, value) <=> Says(name, v, value)
           /\ OperatorOf(name) \in {"$ne", "$nin"} <=> name \in {"not-equal", "not-equal-array"}
<1> USE DEF OperatorOf, MatchMongoOperator, Operators, Comparisons, Holds, Says
<1>1. CASE name = "equal"
  BY <1>1
<1>2. CASE name = "not-equal"
  BY <1>2
<1>3. CASE name = "equal-array"
  BY <1>3
<1>4. CASE name = "not-equal-array"
  BY <1>4
<1>5. CASE name \in {"startsWith", "contains"}
  BY <1>5
<1> QED
  BY <1>1, <1>2, <1>3, <1>4, <1>5

\* What one filter writes says what the filter means.
LEMMA WritesSay ==
    ASSUME NEW f, f.operator \in Operators, WellFormed(f), NEW d,
           \A w \in Writes(f) : w.op \notin {"undefined", "$range"}
    PROVE  (\A w \in Writes(f) : Passes(d, w)) <=> Means(f, d)
<1> DEFINE write(name, value) == [field |-> f.field, op |-> OperatorOf(name), value |-> value]
<1>1. ASSUME NEW name, NEW value
      PROVE  /\ write(name, value).field = f.field /\ write(name, value).op = OperatorOf(name)
             /\ write(name, value).value = value
  OBVIOUS
<1>2. CASE f.operator = "inrange"
  <2>1. Writes(f) = {write(b.operator, b.value) : b \in f.value}
                    \cup IF Cardinality(f.value) < 2 THEN {write("none", {})} ELSE {}
    BY <1>2 DEF Writes
  <2>2. write("none", {}).op = "undefined"
    BY DEF OperatorOf, Operators, Comparisons
  <2> HIDE DEF write
  <2>3. ~(Cardinality(f.value) < 2)
    BY <2>1, <2>2
  <2>4. /\ Writes(f) = {write(b.operator, b.value) : b \in f.value}
        /\ \A b \in f.value : b.operator \in Comparisons /\ OneValue(b.value)
    BY <1>2, <2>1, <2>3 DEF WellFormed
  <2>5. f.value # {}
    BY <2>3, FS_EmptySet
  <2>6. ASSUME NEW b \in f.value
        PROVE  Passes(d, write(b.operator, b.value)) <=>
                 f.field \in DOMAIN d /\ Says(b.operator, d[f.field], b.value)
    <3>1. /\ Holds(OperatorOf(b.operator), d[f.field], b.value) <=> Says(b.operator, d[f.field], b.value)
          /\ OperatorOf(b.operator) \in {"$gt", "$gte", "$lt", "$lte"}
      BY <2>4, ComparisonSays
    <3> QED
      BY <1>1, <3>1 DEF Passes
  <2>7. Means(f, d) <=> f.field \in DOMAIN d /\ \A b \in f.value : Says(b.operator, d[f.field], b.value)
    BY <1>2 DEF Means
  <2> QED
    BY <2>4, <2>5, <2>6, <2>7
<1>3. CASE f.operator # "inrange"
  <2>1. PICK name : /\ Writes(f) = {write(name, f.value)}
                    /\ \/ name = f.operator
                       \/ f.operator = "equal" /\ name = "equal-array"
                       \/ f.operator = "not-equal" /\ name = "not-equal-array"
    BY <1>3 DEF Writes
  <2> HIDE DEF write
  <2>2. (\A w \in Writes(f) : Passes(d, w)) <=>
          IF f.field \in DOMAIN d THEN Holds(OperatorOf(name), d[f.field], f.value)
          ELSE OperatorOf(name) \in {"$ne", "$nin"}
    BY <1>1, <2>1 DEF Passes
  <2>3. Means(f, d) <=> IF f.field \in DOMAIN d THEN Says(f.operator, d[f.field], f.value)
                        ELSE f.operator \in {"not-equal", "not-equal-array"}
    BY <1>3 DEF Means
  <2>4. CASE f.operator \in Comparisons
    <3>1. name = f.operator /\ OneValue(f.value)
      BY <2>1, <2>4 DEF Comparisons, WellFormed
    <3>2. f.operator \notin {"not-equal", "not-equal-array"}
      BY <2>4 DEF Comparisons
    <3>3. /\ Holds(OperatorOf(name), d[f.field], f.value) <=> Says(name, d[f.field], f.value)
          /\ OperatorOf(name) \in {"$gt", "$gte", "$lt", "$lte"}
      BY <2>4, <3>1, ComparisonSays
    <3> QED
      BY <2>2, <2>3, <3>1, <3>2, <3>3
  <2>5. CASE f.operator \notin Comparisons
    <3>1. /\ name \in {"equal", "not-equal", "equal-array", "not-equal-array", "startsWith", "contains"}
          /\ f.operator \in {"not-equal", "not-equal-array"} <=> name \in {"not-equal", "not-equal-array"}
      BY <1>3, <2>1, <2>5 DEF Operators
    <3>2. Says(f.operator, d[f.field], f.value) <=> Says(name, d[f.field], f.value)
      BY <2>1 DEF Says
    <3>3. /\ Holds(OperatorOf(name), d[f.field], f.value) <=> Says(name, d[f.field], f.value)
          /\ OperatorOf(name) \in {"$ne", "$nin"} <=> name \in {"not-equal", "not-equal-array"}
      BY <3>1, NamedSays
    <3> QED
      BY <2>2, <2>3, <3>1, <3>2, <3>3
  <2> QED
    BY <2>4, <2>5
<1> QED
  BY <1>2, <1>3

\* A filter writes conditions on its own field.
LEMMA WritesField == ASSUME NEW f, NEW w \in Writes(f) PROVE w.field = f.field
  BY DEF Writes

\* A query that is accepted finds what is asked for.
LEMMA FilterSays ==
    ASSUME NEW q, DOMAIN q \subseteq Int, ValidateOperators(q), ~Compete(q),
           \A i \in DOMAIN q : WellFormed(q[i]),
           NEW scope, Accepted(Override(GetMongoFilter(q), scope)), NEW d
    PROVE  Matches(d, Override(GetMongoFilter(q), scope)) <=> AskedFor(q, scope, d)
<1> DEFINE M == GetMongoFilter(q)
           conditions == Override(M, scope)
           own(f) == \E s \in scope : s.field = f.field
<1>1. ASSUME NEW i \in DOMAIN q, NEW w \in Writes(q[i]) PROVE w \in M
  <2>1. \A j \in DOMAIN q : j > i => \A v \in Writes(q[j]) : ~SameProperty(v, w)
    BY DEF Compete, SameProperty
  <2> QED
    BY <2>1 DEF GetMongoFilter
<1>2. \A w \in M : \E i \in DOMAIN q : w \in Writes(q[i])
  BY DEF GetMongoFilter
<1>3. \A x : x \in conditions <=> x \in scope \/ (x \in M /\ ~own(x))
  BY DEF Override
<1>4. Matches(d, conditions) <=> \A w \in conditions : Passes(d, w)
  BY DEF Matches, Passes
<1>5. Matches(d, scope) <=> \A w \in scope : Passes(d, w)
  BY DEF Matches, Passes
<1> HIDE DEF M, conditions
<1>6. ASSUME NEW i \in DOMAIN q, ~own(q[i])
      PROVE  (\A w \in Writes(q[i]) : Passes(d, w)) <=> Means(q[i], d)
  <2>1. \A w \in Writes(q[i]) : w \in conditions
    BY <1>1, <1>3, <1>6, WritesField
  <2>2. \A w \in Writes(q[i]) : w.op \notin {"undefined", "$range"}
    BY <2>1 DEF Accepted, conditions, M
  <2>3. q[i].operator \in Operators
    BY DEF ValidateOperators
  <2> QED
    BY <2>2, <2>3, WritesSay
<1>7. ASSUME \A w \in conditions : Passes(d, w)
      PROVE  AskedFor(q, scope, d)
  <2>1. Matches(d, scope)
    BY <1>3, <1>5, <1>7
  <2>2. ASSUME NEW i \in DOMAIN q, ~own(q[i]) PROVE Means(q[i], d)
    <3>1. \A w \in Writes(q[i]) : w \in conditions
      BY <1>1, <1>3, <2>2, WritesField
    <3> QED
      BY <1>6, <1>7, <2>2, <3>1
  <2> QED
    BY <2>1, <2>2 DEF AskedFor
<1>8. ASSUME AskedFor(q, scope, d), NEW w \in conditions
      PROVE  Passes(d, w)
  <2>1. CASE w \in scope
    BY <1>5, <1>8, <2>1 DEF AskedFor
  <2>2. CASE w \in M /\ ~own(w)
    <3>1. PICK i \in DOMAIN q : w \in Writes(q[i])
      BY <1>2, <2>2
    <3>2. ~own(q[i])
      BY <2>2, <3>1, WritesField
    <3>3. Means(q[i], d)
      BY <1>8, <3>2 DEF AskedFor
    <3> QED
      BY <1>6, <3>1, <3>2, <3>3
  <2> QED
    BY <1>3, <2>1, <2>2
<1> QED
  BY <1>4, <1>7, <1>8 DEF conditions, M

--------------------------------------------------------------------------------
\* What a document of the collection may be, turned on or off.
Versions(k) ==
    All(k) \cup IF k \in {"accounts", "organization"} THEN {Changed(d) : d \in Store[k]} ELSE {}

\* Each document is one of them, and none is removed.
DocsInv == \A k \in Collections : store[k] \subseteq Versions(k)

\* The scope of a listing that is not of accounts, whoever asks.
ListingScope(c) == Scope(Nobody, Asked(c).route)

\* A listing of other documents than accounts, with a query that is accepted and whose
\* filters do not compete.
IsListing(c) == /\ plan.asks[c] # None /\ Asked(c).route.answer \in {"page", "refused"}
                /\ Asked(c).route.collection # "accounts"
                /\ ValidateOperators(Asked(c).query) /\ ~Compete(Asked(c).query)

\* The listing has each document that it is to have, but for those after d.
CompleteTo(c, d) ==
    \A e \in since[c] : AskedFor(Asked(c).query, ListingScope(c), e) =>
        \/ \E i \in 1..Len(listed[c]) : listed[c][i].id = e.id
        \/ d # None /\ Earlier(PaginatedField[Asked(c).route.collection], d, e)

\* How far a listing is: what has been read of it is in order and of what is asked for, and
\* what was there when the first page was read has been read or comes after the cursor.
ListedOk(c) ==
    LET k == Asked(c).route.collection
        f == PaginatedField[k]
        so_far == listed[c]
        n == Len(so_far)
    IN /\ so_far \in Seq(Versions(k)) /\ since[c] \subseteq Versions(k)
       /\ \A e \in since[c] : \E d \in store[k] : d.id = e.id
       /\ \A i, j \in 1..n : i < j => Earlier(f, so_far[i], so_far[j])
       /\ \A i \in 1..n : AskedFor(Asked(c).query, ListingScope(c), so_far[i])
       /\ pc[c] # "count"
       /\ pc[c] # "answered" =>
            IF next[c] = None THEN so_far = << >>
            ELSE n > 0 /\ next[c] = so_far[n] /\ CompleteTo(c, next[c])
       /\ pc[c] = "answered" =>
            /\ answer[c].hasNext =>
                 LET docs == answer[c].docs
                 IN n > 0 /\ docs[Len(docs)] = so_far[n] /\ CompleteTo(c, so_far[n])
            /\ answer[c].status = 200 /\ ~answer[c].hasNext => CompleteTo(c, None)
\* A listing is not answered unless its query is valid, and only analytics count.
ValidInv ==
    \A c \in Clients :
        /\ pc[c] = "count" => Asked(c).route.answer \in OfOrganization
        /\ Answered(c, {"page", "refused"}) => ValidateOperators(Asked(c).query)
ListedInv ==
    /\ DOMAIN listed = Clients /\ DOMAIN since = Clients /\ DOMAIN next = Clients
    /\ \A c \in Clients : IsListing(c) => ListedOk(c)

--------------------------------------------------------------------------------
\* What may come can be listed.
LEMMA AllListable ==
    ASSUME NEW k \in Collections
    PROVE  Listable(PaginatedField[k], All(k)) /\ None \notin All(k)
  BY ServingAssumption DEF All

\* A document that is turned on or off is the same but for that.
LEMMA Turned ==
    ASSUME NEW k \in {"accounts", "organization"}, NEW x \in Store[k]
    PROVE  /\ DOMAIN Changed(x) = DOMAIN x
           /\ \A field \in DOMAIN x : field # "active" => Changed(x)[field] = x[field]
           /\ Changed(x).id = x.id /\ Changed(x)[PaginatedField[k]] = x[PaginatedField[k]]
           /\ Changed(Changed(x)) = x /\ Changed(x) # None
<1>1. /\ "active" \in DOMAIN x /\ x.active \in BOOLEAN /\ x = [field \in DOMAIN x |-> x[field]]
      /\ Changed(x) # None
  BY ServingAssumption DEF Switchable
<1>2. {"id", PaginatedField[k]} \subseteq DOMAIN x /\ PaginatedField[k] # "active"
  <2>1. CASE k = "accounts"
    <3>1. {"id"} \subseteq DOMAIN x
      BY <2>1, ServingAssumption
    <3> QED
      BY <2>1, <3>1 DEF PaginatedField
  <2>2. CASE k = "organization"
    <3>1. {"id", "createdOn"} \subseteq DOMAIN x
      BY <2>2, ServingAssumption
    <3> QED
      BY <2>2, <3>1 DEF PaginatedField
  <2> QED
    BY <2>1, <2>2
<1>3. /\ DOMAIN Changed(x) = DOMAIN x /\ Changed(x) = [field \in DOMAIN Changed(x) |-> Changed(x)[field]]
      /\ \A field \in DOMAIN x : field # "active" => Changed(x)[field] = x[field]
  BY <1>1, ChangedFacts
<1>4. Changed(Changed(x)) = x
  <2>1. Changed(x) = [field \in DOMAIN x |-> IF field = "active" THEN ~x.active ELSE x[field]]
    BY <1>1 DEF Changed
  <2>2. Changed(x)["active"] = ~x["active"]
    BY <1>1, <2>1
  <2>3. Changed(Changed(x)) = [field \in DOMAIN x |->
                                IF field = "active" THEN ~Changed(x)["active"] ELSE Changed(x)[field]]
    BY <1>1, <1>3 DEF Changed
  <2>4. (~Changed(x)["active"]) = x["active"]
    BY <1>1, <2>2
  <2>5. \A field \in DOMAIN x :
          (IF field = "active" THEN ~Changed(x)["active"] ELSE Changed(x)[field]) = x[field]
    BY <1>3, <2>4
  <2>6. Changed(Changed(x)) = [field \in DOMAIN x |-> x[field]]
    BY <2>3, <2>5
  <2> QED
    BY <1>1, <2>6
<1> QED
  BY <1>1, <1>2, <1>3, <1>4

\* What all versions of a document have in common.
LEMMA VersionOf ==
    ASSUME NEW k \in Collections, NEW d \in Versions(k)
    PROVE  /\ d # None /\ d.id \in Int /\ d[PaginatedField[k]] \in Int
           /\ \E x \in All(k) :
                /\ d.id = x.id /\ DOMAIN d = DOMAIN x
                /\ d[PaginatedField[k]] = x[PaginatedField[k]]
                /\ \A field \in DOMAIN x : field # "active" => d[field] = x[field]
<1>1. CASE d \in All(k)
  BY <1>1, AllListable DEF Listable
<1>2. CASE k \in {"accounts", "organization"} /\ \E x \in Store[k] : d = Changed(x)
  <2>1. PICK x \in Store[k] : d = Changed(x)
    BY <1>2
  <2>2. x \in All(k)
    BY <2>1 DEF All
  <2>3. x.id \in Int /\ x[PaginatedField[k]] \in Int
    BY <2>2, AllListable DEF Listable
  <2> QED
    BY <1>2, <2>1, <2>2, <2>3, Turned
<1> QED
  BY <1>1, <1>2 DEF Versions

\* Two versions of a document differ in nothing but their being active.
LEMMA SameVersions ==
    ASSUME NEW k \in Collections, NEW d \in Versions(k), NEW e \in Versions(k), d.id = e.id
    PROVE  /\ DOMAIN d = DOMAIN e /\ d[PaginatedField[k]] = e[PaginatedField[k]]
           /\ \A field \in DOMAIN d : field # "active" => d[field] = e[field]
<1>1. PICK x \in All(k) :
        /\ d.id = x.id /\ DOMAIN d = DOMAIN x
        /\ d[PaginatedField[k]] = x[PaginatedField[k]]
        /\ \A field \in DOMAIN x : field # "active" => d[field] = x[field]
  BY VersionOf
<1>2. PICK y \in All(k) :
        /\ e.id = y.id /\ DOMAIN e = DOMAIN y
        /\ e[PaginatedField[k]] = y[PaginatedField[k]]
        /\ \A field \in DOMAIN y : field # "active" => e[field] = y[field]
  BY VersionOf
<1>3. x = y
  BY <1>1, <1>2, AllListable DEF Listable
<1> QED
  BY <1>1, <1>2, <1>3

\* A version that is turned on or off is a version.
LEMMA ChangedVersion ==
    ASSUME NEW k \in {"accounts", "organization"}, NEW d \in Versions(k)
    PROVE  Changed(d) \in Versions(k) /\ Changed(d).id = d.id
<1>1. CASE d \in Store[k]
  BY <1>1, Turned DEF Versions
<1>2. CASE d \notin Store[k]
  <2>1. PICK x \in Store[k] : d = Changed(x)
    BY <1>2 DEF Versions, All
  <2> QED
    BY <2>1, Turned DEF Versions, All
<1> QED
  BY <1>1, <1>2

\* What is asked for does not depend on what may change.
LEMMA AskedOfVersions ==
    ASSUME NEW k \in Collections, NEW d \in Versions(k), NEW e \in Versions(k), d.id = e.id,
           NEW q, \A i \in DOMAIN q : q[i].field # "active",
           NEW scope, \A s \in scope : s.field # "active"
    PROVE  AskedFor(q, scope, d) <=> AskedFor(q, scope, e)
<1>1. /\ DOMAIN d = DOMAIN e
      /\ \A field \in DOMAIN d : field # "active" => d[field] = e[field]
  BY SameVersions
<1>2. Matches(d, scope) <=> Matches(e, scope)
  BY <1>1 DEF Matches
<1>3. ASSUME NEW i \in DOMAIN q PROVE Means(q[i], d) <=> Means(q[i], e)
  BY <1>1 DEF Means
<1> QED
  BY <1>2, <1>3 DEF AskedFor

\* No scope speaks of what may change.
LEMMA ScopeFields ==
    ASSUME NEW u, NEW route
    PROVE  \A s \in Scope(u, route) : s.field # "active"
<1>1. CASE route.collection = "events"
  BY <1>1 DEF Scope, Condition
<1>2. CASE route.collection = "accounts"
  BY <1>2 DEF Scope, Condition
<1>3. CASE route.collection = "requests" /\ route.answer = "page"
  BY <1>3 DEF Scope, Condition
<1>4. CASE route.collection = "requests" /\ route.answer = "refused"
  BY <1>4 DEF Scope, Condition
<1>5. CASE /\ route.collection \notin {"events", "accounts"}
           /\ ~(route.collection = "requests" /\ route.answer = "page")
           /\ ~(route.collection = "requests" /\ route.answer = "refused")
  BY <1>5 DEF Scope
<1> QED
  BY <1>1, <1>2, <1>3, <1>4, <1>5

--------------------------------------------------------------------------------
\* No document is removed, and none but events comes.
Kept ==
    \A k \in Collections :
        /\ \A d \in store[k] : \E e \in store'[k] : e.id = d.id
        /\ k # "events" => \A e \in store'[k] : \E d \in store[k] : d.id = e.id

\* At the start, each document is as it was put there.
LEMMA DocsStart == ServingInit => DocsInv
  BY DEF ServingInit, DocsInv, Versions, All

\* Every step leaves each document, in one of its versions.
LEMMA DocsStep == Shape /\ DocsInv /\ ServingStep => DocsInv' /\ Kept /\ UNCHANGED plan
<1> SUFFICES ASSUME Shape, DocsInv, ServingStep PROVE DocsInv' /\ Kept /\ UNCHANGED plan
  OBVIOUS
<1>0. UNCHANGED plan
  BY DEF ServingStep, Arrive, ReadAccount, ReadOrganization, AuthenticationFails, Learn,
         Authorize, Throw, Answers, Reply, Addresses, Follow, CreateEvent, Change, serving
<1>1. CASE UNCHANGED store
  BY <1>0, <1>1 DEF DocsInv, Kept
<1>2. CASE CreateEvent
  <2>1. PICK e \in Arriving : store' = [store EXCEPT !["events"] = @ \cup {e}]
    BY <1>2 DEF CreateEvent
  <2>2. /\ store'["events"] = store["events"] \cup {e}
        /\ \A k \in Collections \ {"events"} : store'[k] = store[k]
    BY <2>1 DEF Shape, Collections
  <2>3. e \in Versions("events")
    BY DEF Versions, All
  <2>4. DocsInv'
    BY <2>2, <2>3 DEF DocsInv
  <2>5. Kept
    BY <2>2 DEF Kept
  <2> QED
    BY <1>0, <2>4, <2>5
<1>3. CASE Change
  <2>1. PICK k \in {"accounts", "organization"} :
          \E a \in store[k] : store' = [store EXCEPT ![k] = (@ \ {a}) \cup {Changed(a)}]
    BY <1>3 DEF Change
  <2>2. PICK a \in store[k] : store' = [store EXCEPT ![k] = (@ \ {a}) \cup {Changed(a)}]
    BY <2>1
  <2>3. k \in Collections /\ k # "events"
    BY DEF Collections
  <2>4. /\ store'[k] = (store[k] \ {a}) \cup {Changed(a)}
        /\ \A j \in Collections \ {k} : store'[j] = store[j]
    BY <2>2, <2>3 DEF Shape
  <2>5. Changed(a) \in Versions(k) /\ Changed(a).id = a.id
    BY <2>3, ChangedVersion DEF DocsInv
  <2>6. DocsInv'
    BY <2>4, <2>5 DEF DocsInv
  <2>7. Kept
    BY <2>4, <2>5 DEF Kept
  <2> QED
    BY <1>0, <2>6, <2>7
<1> QED
  <2>1. CreateEvent \/ Change \/ UNCHANGED store
    BY DEF ServingStep, Arrive, ReadAccount, ReadOrganization, AuthenticationFails, Learn,
           Authorize, Throw, Answers, Reply, Addresses, Follow, serving
  <2> QED
    BY <1>1, <1>2, <1>3, <2>1

\* The scope of a listing is that of its route.
LEMMA ScopeStays ==
    ASSUME NEW c \in Clients, Asked(c)' = Asked(c)
    PROVE  ListingScope(c)' = ListingScope(c)
  BY DEF ListingScope, Scope, Nobody, IsSuper, Condition

--------------------------------------------------------------------------------
\* A listing has each document once, so that all of it is remembered.
LEMMA ListedLength ==
    ASSUME Remembered, NEW k \in Collections, NEW so_far \in Seq(Versions(k)),
           \A i, j \in 1..Len(so_far) : i < j => Earlier(PaginatedField[k], so_far[i], so_far[j])
    PROVE  Len(so_far) <= MaxListed
<1> DEFINE n == Len(so_far)
           ids == {d.id : d \in All(k)}
           name == [d \in All(k) |-> d.id]
           f == [i \in 1..n |-> so_far[i].id]
<1>1. IsFiniteSet(All(k))
  BY AllListable DEF Listable
<1>2. name \in Surjection(All(k), ids)
  BY DEF Surjection
<1>3. IsFiniteSet(ids) /\ Cardinality(ids) <= Cardinality(All(k))
  BY <1>1, <1>2, FS_Surjection
<1>4. n \in Nat /\ \A i \in 1..n : so_far[i] \in Versions(k)
  OBVIOUS
<1>5. \A i \in 1..n : so_far[i].id \in ids /\ so_far[i].id \in Int
  BY <1>4, VersionOf
<1>6. ASSUME NEW i \in 1..n, NEW j \in 1..n, i < j PROVE so_far[i].id # so_far[j].id
  <2>1. so_far[i] \in Versions(k) /\ so_far[j] \in Versions(k)
    BY <1>4
  <2>2. Earlier(PaginatedField[k], so_far[i], so_far[j])
    BY <1>6
  <2>3. SUFFICES ASSUME so_far[i].id = so_far[j].id PROVE FALSE
    OBVIOUS
  <2>4. so_far[i][PaginatedField[k]] = so_far[j][PaginatedField[k]]
    BY <2>1, <2>3, SameVersions
  <2>5. so_far[i].id \in Int /\ so_far[i][PaginatedField[k]] \in Int
    BY <2>1, VersionOf
  <2> QED
    BY <2>2, <2>3, <2>4, <2>5 DEF Earlier
<1>7. f \in Injection(1..n, ids)
  <2>1. f \in [1..n -> ids]
    BY <1>5
  <2>2. ASSUME NEW i \in 1..n, NEW j \in 1..n, f[i] = f[j] PROVE i = j
    <3>1. so_far[i].id = so_far[j].id
      BY <2>2
    <3>2. ~(i < j) /\ ~(j < i)
      BY <1>6, <3>1
    <3> QED
      BY <1>4, <3>2
  <2> QED
    BY <2>1, <2>2 DEF Injection, IsInjective
<1>8. Cardinality(1..n) <= Cardinality(ids)
  BY <1>3, <1>7, FS_Injection
<1>9. Cardinality(1..n) = n
  <2> HIDE DEF n
  <2>1. n \in Nat /\ 1 \in Int /\ n \in Int
    BY <1>4
  <2>2. Cardinality(1..n) = IF 1 > n THEN 0 ELSE n - 1 + 1
    BY <2>1, FS_Interval
  <2> QED
    BY <2>1, <2>2
<1>10. Cardinality(ids) \in Nat /\ Cardinality(All(k)) \in Nat
  BY <1>1, <1>3, FS_CardinalityType
<1> QED
  BY <1>3, <1>4, <1>8, <1>9, <1>10, ServingAssumption DEF Remembered

\* The order of two versions is that of their documents.
LEMMA EarlierVersions ==
    ASSUME NEW k \in Collections, NEW a \in Versions(k), NEW b \in Versions(k), NEW e \in Versions(k)
    PROVE  LET f == PaginatedField[k]
           IN /\ Earlier(f, a, b) /\ Earlier(f, b, e) => Earlier(f, a, e)
              /\ b.id = e.id => (Earlier(f, a, b) <=> Earlier(f, a, e))
<1>1. /\ a.id \in Int /\ a[PaginatedField[k]] \in Int
      /\ b.id \in Int /\ b[PaginatedField[k]] \in Int
      /\ e.id \in Int /\ e[PaginatedField[k]] \in Int
  BY VersionOf
<1>2. b.id = e.id => b[PaginatedField[k]] = e[PaginatedField[k]]
  BY SameVersions
<1> QED
  BY <1>1, <1>2 DEF Earlier

\* What a step leaves of a listing that it does not read for.
LEMMA ListedStays ==
    ASSUME NEW c \in Clients, ListedOk(c), Asked(c).route.collection \in Collections,
           Kept, UNCHANGED plan, ListingScope(c)' = ListingScope(c),
           listed'[c] = listed[c], since'[c] = since[c], next'[c] = next[c],
           \/ pc'[c] = pc[c] /\ answer'[c] = answer[c]
           \/ pc[c] # "answered" /\ pc'[c] \notin {"answered", "count"}
    PROVE  ListedOk(c)'
<1>1. Asked(c)' = Asked(c)
  BY DEF Asked
<1>2. ASSUME NEW d PROVE CompleteTo(c, d) <=> CompleteTo(c, d)'
  BY <1>1 DEF CompleteTo
<1>3. CompleteTo(c, next[c]) <=> CompleteTo(c, next[c])'
  BY <1>1 DEF CompleteTo
<1>4. CompleteTo(c, listed[c][Len(listed[c])]) <=> CompleteTo(c, listed[c][Len(listed[c])])'
  BY <1>1 DEF CompleteTo
<1>5. CompleteTo(c, None) <=> CompleteTo(c, None)'
  BY <1>2
<1>6. \A e \in since'[c] : \E d \in store'[Asked(c).route.collection] : d.id = e.id
  <2> SUFFICES ASSUME NEW e \in since[c]
               PROVE  \E d \in store'[Asked(c).route.collection] : d.id = e.id
    OBVIOUS
  <2>1. PICK d \in store[Asked(c).route.collection] : d.id = e.id
    BY DEF ListedOk
  <2> QED
    BY <2>1 DEF Kept
<1>7. \/ pc'[c] = pc[c] /\ answer'[c] = answer[c]
      \/ pc[c] # "answered" /\ pc'[c] \notin {"answered", "count"}
  OBVIOUS
<1> QED
  BY <1>1, <1>3, <1>4, <1>5, <1>6, <1>7 DEF ListedOk, Versions, All

--------------------------------------------------------------------------------
\* A listing with its last page: it is in order and of what is asked for, and what it lacks
\* of what was there comes after it.
Joined(k, q, scope, was, all, page) ==
    LET f == PaginatedField[k]
        n == Len(all)
    IN /\ all \in Seq(Versions(k)) /\ page.hasNext \in BOOLEAN
       /\ \A i, j \in 1..n : i < j => Earlier(f, all[i], all[j])
       /\ \A i \in 1..n : AskedFor(q, scope, all[i])
       /\ page.hasNext => n > 0 /\ page.results[Len(page.results)] = all[n]
       /\ \A e \in was : AskedFor(q, scope, e) =>
            \/ \E i \in 1..n : all[i].id = e.id
            \/ page.hasNext /\ Earlier(f, all[n], e)

\* That is what a page makes of the pages before it.
LEMMA PageJoins ==
    ASSUME NEW k \in Collections, NEW so_far \in Seq(Versions(k)), NEW was \in SUBSET Versions(k),
           NEW docs \in SUBSET Versions(k), Listable(PaginatedField[k], docs),
           \A e \in was : \E d \in docs : d.id = e.id,
           NEW q, \A i \in DOMAIN q : q[i].field # "active",
           NEW scope, \A s \in scope : s.field # "active",
           NEW limit, limit = None \/ limit \in Int, NEW cursor,
           \A i, j \in 1..Len(so_far) : i < j => Earlier(PaginatedField[k], so_far[i], so_far[j]),
           \A i \in 1..Len(so_far) : AskedFor(q, scope, so_far[i]),
           \/ cursor = None /\ so_far = << >>
           \/ /\ cursor # None /\ Len(so_far) > 0 /\ cursor = so_far[Len(so_far)]
              /\ \A e \in was : AskedFor(q, scope, e) =>
                   \/ \E i \in 1..Len(so_far) : so_far[i].id = e.id
                   \/ Earlier(PaginatedField[k], cursor, e)
    PROVE  LET page == FindPage({d \in docs : AskedFor(q, scope, d)}, PaginatedField[k], limit, cursor)
           IN Joined(k, q, scope, was, so_far \o page.results, page)
<1> DEFINE f == PaginatedField[k]
           found == {d \in docs : AskedFor(q, scope, d)}
           page == FindPage(found, f, limit, cursor)
           rest == {x \in found : cursor = None \/ Earlier(f, cursor, x)}
           results == page.results
           l == Len(so_far)
           m == Len(results)
           all == so_far \o results
<1>1. Listable(f, found)
  BY PartListable
<1>2. /\ results \in Seq(rest) /\ page.hasNext \in BOOLEAN
      /\ \A i, j \in 1..m : i < j => Earlier(f, results[i], results[j])
      /\ page.hasNext => m > 0
      /\ \A d \in rest : \/ \E i \in 1..m : results[i] = d
                         \/ page.hasNext /\ Earlier(f, results[m], d)
  <2>1. limit = None \/ limit \in Int
    OBVIOUS
  <2> HIDE DEF found, f
  <2>2. PageOk(f, rest, page)
    BY <1>1, <2>1, PageFacts
  <2> HIDE DEF rest, page
  <2> QED
    BY <2>2 DEF PageOk
<1>3. rest \subseteq Versions(k) /\ \A d \in rest : AskedFor(q, scope, d)
  OBVIOUS
<1> HIDE DEF page, results
<1>4. results \in Seq(Versions(k))
  <2> HIDE DEF rest
  <2> QED
    BY <1>2, <1>3
<1>5. /\ all \in Seq(Versions(k)) /\ l \in Nat /\ m \in Nat /\ Len(all) = l + m
      /\ \A i \in 1..l : all[i] = so_far[i]
      /\ \A i \in 1..m : all[l + i] = results[i]
  BY <1>4
<1>6. \A i \in 1..(l + m) : i \in 1..l \/ \E j \in 1..m : i = l + j
  <2> SUFFICES ASSUME NEW i \in 1..(l + m), i \notin 1..l PROVE i - l \in 1..m /\ i = l + (i - l)
    OBVIOUS
  <2> QED
    BY <1>5
<1>7. /\ \A i \in 1..l : so_far[i] \in Versions(k)
      /\ \A i \in 1..m : results[i] \in Versions(k) /\ results[i] \in rest
  BY <1>2, <1>4
<1> HIDE DEF l, m, all, rest
<1>8. ASSUME NEW i \in 1..(l + m), NEW j \in 1..(l + m), i < j
      PROVE  Earlier(f, all[i], all[j])
  <2>1. CASE i \in 1..l /\ j \in 1..l
    BY <1>5, <1>8, <2>1 DEF l
  <2>2. CASE i \in 1..l /\ j \notin 1..l
    <3>1. PICK h \in 1..m : j = l + h
      BY <1>6, <2>2
    <3>2. cursor = so_far[l] /\ cursor # None /\ l > 0
      BY <1>5, <2>2 DEF l
    <3>3. Earlier(f, so_far[l], results[h])
      BY <1>7, <3>1, <3>2 DEF rest
    <3>4. l \in 1..l
      BY <1>5, <3>2
    <3>5. i = l \/ Earlier(f, so_far[i], so_far[l])
      BY <1>5, <2>2, <3>4 DEF l
    <3>6. Earlier(f, so_far[i], results[h])
      BY <1>7, <2>2, <3>3, <3>4, <3>5, EarlierVersions
    <3> QED
      BY <1>5, <2>2, <3>1, <3>6
  <2>3. CASE i \notin 1..l /\ j \in 1..l
    BY <1>5, <1>8, <2>3
  <2>4. CASE i \notin 1..l /\ j \notin 1..l
    <3>1. PICK g \in 1..m : i = l + g
      BY <1>6, <2>4
    <3>2. PICK h \in 1..m : j = l + h
      BY <1>6, <2>4
    <3>3. g < h
      BY <1>5, <1>8, <3>1, <3>2
    <3> QED
      BY <1>2, <1>5, <3>1, <3>2, <3>3 DEF m
  <2> QED
    BY <2>1, <2>2, <2>3, <2>4
<1>9. ASSUME NEW i \in 1..(l + m) PROVE AskedFor(q, scope, all[i])
  <2>1. CASE i \in 1..l
    BY <1>5, <2>1 DEF l
  <2>2. CASE i \notin 1..l
    BY <1>3, <1>5, <1>6, <1>7, <2>2
  <2> QED
    BY <2>1, <2>2
<1>10. page.hasNext => l + m > 0 /\ m \in 1..m /\ all[l + m] = results[m]
  <2> SUFFICES ASSUME page.hasNext PROVE l + m > 0 /\ m \in 1..m /\ all[l + m] = results[m]
    OBVIOUS
  <2>1. m > 0
    BY <1>2 DEF m
  <2>2. l + m > 0 /\ m \in 1..m
    BY <1>5, <2>1
  <2> QED
    BY <1>5, <2>2
<1>11. ASSUME NEW e \in was, AskedFor(q, scope, e)
       PROVE  \/ \E i \in 1..(l + m) : all[i].id = e.id
              \/ page.hasNext /\ Earlier(f, all[l + m], e)
  <2>1. CASE \E i \in 1..l : so_far[i].id = e.id
    <3>1. PICK i \in 1..l : so_far[i].id = e.id
      BY <2>1
    <3>2. i \in 1..(l + m) /\ all[i] = so_far[i]
      BY <1>5
    <3> QED
      BY <3>1, <3>2
  <2>2. CASE cursor = None \/ Earlier(f, cursor, e)
    <3>1. PICK d \in docs : d.id = e.id
      OBVIOUS
    <3>2. d \in Versions(k) /\ e \in Versions(k)
      OBVIOUS
    <3>3. AskedFor(q, scope, d)
      BY <1>11, <3>1, <3>2, AskedOfVersions
    <3>4. cursor = None \/ Earlier(f, cursor, d)
      <4>1. CASE cursor # None
        <5>1. cursor \in Versions(k)
          <6>1. l > 0 /\ cursor = so_far[l]
            BY <4>1 DEF l
          <6>2. l \in 1..l
            BY <1>5, <6>1
          <6> QED
            BY <1>7, <6>1, <6>2
        <5> QED
          BY <2>2, <3>1, <3>2, <4>1, <5>1, EarlierVersions
      <4> QED
        BY <4>1
    <3>5. d \in rest
      BY <3>3, <3>4 DEF rest
    <3>6. CASE \E i \in 1..m : results[i] = d
      <4>1. PICK i \in 1..m : results[i] = d
        BY <3>6
      <4>2. l + i \in 1..(l + m) /\ all[l + i] = d
        BY <1>5, <4>1
      <4> QED
        BY <3>1, <4>2
    <3>7. CASE page.hasNext /\ Earlier(f, results[m], d)
      <4>1. results[m] \in Versions(k) /\ all[l + m] = results[m]
        BY <1>7, <1>10, <3>7
      <4>2. Earlier(f, results[m], e)
        BY <3>1, <3>2, <3>7, <4>1, EarlierVersions
      <4> QED
        BY <3>7, <4>1, <4>2
    <3> QED
      BY <1>2, <3>5, <3>6, <3>7 DEF m
  <2> QED
    BY <1>11, <2>1, <2>2 DEF l
<1>12. Joined(k, q, scope, was, all, page)
  BY <1>2, <1>5, <1>8, <1>9, <1>10, <1>11 DEF Joined, m, results
<1> QED
  BY <1>12 DEF all, results, page

--------------------------------------------------------------------------------
\* What is known of the route of a listing.
LEMMA RouteFacts ==
    ASSUME NEW route \in Routes
    PROVE  route.collection \in Collections
<1> USE DEF Open, Gated, Collections
<1>1. CASE route \in AccountRoutes \cup Account2Routes
  BY <1>1 DEF AccountRoutes, Account2Routes
<1>2. CASE route \in OrganizationRoutes \cup Organization2Routes \cup RequestRoutes
  BY <1>2 DEF OrganizationRoutes, Organization2Routes, RequestRoutes
<1>3. CASE route \in AssetRoutes \cup Asset2Routes \cup EventRoutes \cup Event2Routes
  BY <1>3 DEF AssetRoutes, Asset2Routes, EventRoutes, Event2Routes
<1>4. CASE route \in BundleRoutes \cup Bundle2Routes
  BY <1>4 DEF BundleRoutes, Bundle2Routes
<1>5. CASE route \in AnalyticsRoutes
  <2>1. PICK k \in {"assets", "events", "bundles", "accounts"} :
          route \in Gated(k, {}, {"count of", "range of", "buckets of"})
                    \cup Gated(k, {"super_account"}, {"count", "range", "buckets"})
    BY <1>5 DEF AnalyticsRoutes
  <2> QED
    BY <2>1
<1> QED
  BY <1>1, <1>2, <1>3, <1>4, <1>5 DEF Routes

\* What is known of a listing's route and query.
LEMMA ListingFacts ==
    ASSUME Shape, Expressible, NEW c \in Clients, IsListing(c)
    PROVE  /\ Asked(c).route.collection \in Collections
           /\ DOMAIN Asked(c).query \subseteq Int
           /\ \A i \in DOMAIN Asked(c).query :
                WellFormed(Asked(c).query[i]) /\ Asked(c).query[i].field # "active"
           /\ Asked(c).limit = None \/ Asked(c).limit \in Int
<1>1. plan \in Plans /\ Asked(c) # None /\ Asked(c).route.answer \in {"page", "refused"}
      /\ ValidateOperators(Asked(c).query)
  BY DEF Shape, IsListing, Asked
<1>2. Asked(c).route \in Routes /\ (Asked(c).limit = None \/ Asked(c).limit \in Int)
  BY <1>1, ServingAssumption DEF Asked
<1>3. /\ DOMAIN Asked(c).query \subseteq Int
      /\ \A i \in DOMAIN Asked(c).query :
           WellFormed(Asked(c).query[i]) /\ Asked(c).query[i].field # "active"
  BY <1>1 DEF Expressible, Asked
<1> QED
  BY <1>1, <1>2, <1>3, RouteFacts

\* The scope of a listing is that of the user.
LEMMA OneScope ==
    ASSUME NEW c \in Clients, IsListing(c)
    PROVE  ListingScope(c) = Scope(principal[c], Asked(c).route)
  BY DEF ListingScope, IsListing, Scope

\* An answer changes no scope.
LEMMA ReplyFacts ==
    ASSUME Shape, ListedInv, NEW c \in Clients, NEW status, NEW docs, NEW hasNext,
           Reply(c, status, docs, hasNext, << >>)
    PROVE  /\ UNCHANGED <<plan, store, principal, next>>
           /\ pc'[c] = "answered" /\ answer'[c].status = status /\ answer'[c].docs = docs
           /\ answer'[c].hasNext = hasNext
           /\ since'[c] = IF next[c] = None THEN Docs(c) ELSE since[c]
           /\ listed'[c] = IF Asked(c).route.answer \in Listings /\ Len(listed[c]) <= MaxListed
                           THEN listed[c] \o docs ELSE listed[c]
           /\ Asked(c)' = Asked(c) /\ ListingScope(c)' = ListingScope(c)
<1>1. UNCHANGED <<plan, store, principal, next>>
  BY DEF Reply
<1>2. Asked(c)' = Asked(c)
  BY <1>1 DEF Asked
<1>3. ListingScope(c)' = ListingScope(c)
  BY <1>2, ScopeStays
<1>4. /\ pc'[c] = "answered" /\ answer'[c].status = status /\ answer'[c].docs = docs
      /\ answer'[c].hasNext = hasNext
  BY DEF Reply, Continue, Shape
<1>5. /\ since'[c] = IF next[c] = None THEN Docs(c) ELSE since[c]
      /\ listed'[c] = IF Asked(c).route.answer \in Listings /\ Len(listed[c]) <= MaxListed
                      THEN listed[c] \o docs ELSE listed[c]
  BY DEF Reply, ListedInv
<1> QED
  BY <1>1, <1>2, <1>3, <1>4, <1>5

\* An error leaves the listing as it was.
LEMMA ThrownListed ==
    ASSUME Shape, Expressible, DocsInv, ListedInv, NEW c \in Clients, IsListing(c),
           pc[c] \in AtWork,
           NEW error \in {"ValidationError", "RepositoryError", "PermissionError", "NotFoundError",
                          "TypeError"}, Throw(c, error)
    PROVE  ListedOk(c)'
<1> DEFINE k == Asked(c).route.collection
           f == PaginatedField[k]
<1>1. k \in Collections
  BY ListingFacts
<1>2. ListedOk(c)
  BY DEF ListedInv
<1>3. /\ UNCHANGED <<plan, store, principal, next>>
      /\ pc'[c] = "answered" /\ answer'[c].status = StatusOf[error] /\ answer'[c].hasNext = FALSE
      /\ since'[c] = IF next[c] = None THEN Docs(c) ELSE since[c]
      /\ listed'[c] = listed[c] \o << >> \/ listed'[c] = listed[c]
      /\ Asked(c)' = Asked(c) /\ ListingScope(c)' = ListingScope(c)
  <2>1. Reply(c, StatusOf[error], << >>, FALSE, << >>)
    BY DEF Throw
  <2> DEFINE status == StatusOf[error]
             docs == << >>
             hasNext == FALSE
  <2>2. Reply(c, status, docs, hasNext, << >>)
    BY <2>1
  <2> HIDE DEF status, docs, hasNext
  <2>3. /\ UNCHANGED <<plan, store, principal, next>>
        /\ pc'[c] = "answered" /\ answer'[c].status = status /\ answer'[c].hasNext = hasNext
        /\ since'[c] = IF next[c] = None THEN Docs(c) ELSE since[c]
        /\ listed'[c] = listed[c] \o docs \/ listed'[c] = listed[c]
        /\ Asked(c)' = Asked(c) /\ ListingScope(c)' = ListingScope(c)
    BY <2>2, ReplyFacts
  <2> QED
    BY <2>3 DEF status, docs, hasNext
<1>4. StatusOf[error] # 200
  BY DEF StatusOf
<1>5. listed'[c] = listed[c]
  <2>1. listed[c] \in Seq(Versions(k))
    BY <1>2 DEF ListedOk
  <2> QED
    BY <1>3, <2>1
<1>6. since'[c] \subseteq Versions(k) /\ \A e \in since'[c] : \E d \in store'[k] : d.id = e.id
  <2>1. Docs(c) = store[k] /\ store[k] \subseteq Versions(k)
    BY <1>1 DEF Docs, DocsInv
  <2>2. since[c] \subseteq Versions(k) /\ \A e \in since[c] : \E d \in store[k] : d.id = e.id
    BY <1>2 DEF ListedOk
  <2> QED
    BY <1>3, <2>1, <2>2
<1>7. /\ listed[c] \in Seq(Versions(k))
      /\ \A i, j \in 1..Len(listed[c]) : i < j => Earlier(f, listed[c][i], listed[c][j])
      /\ \A i \in 1..Len(listed[c]) : AskedFor(Asked(c).query, ListingScope(c), listed[c][i])
  BY <1>2 DEF ListedOk
<1> QED
  BY <1>3, <1>4, <1>5, <1>6, <1>7 DEF ListedOk, Versions, All

\* A page goes on where the one before ended.
LEMMA ReadPageListed ==
    ASSUME Shape, StoreInv, UserInv, DocsInv, ListedInv, Expressible, Remembered,
           NEW c \in Clients, IsListing(c), ReadPage(c)
    PROVE  ListedOk(c)'
<1> DEFINE route == Asked(c).route
           k == route.collection
           f == PaginatedField[k]
           q == Asked(c).query
           scope == Scope(principal[c], route)
           conditions == Override(GetMongoFilter(q), scope)
           was == IF next[c] = None THEN Docs(c) ELSE since[c]
           found == {d \in store[k] : AskedFor(q, scope, d)}
           page == FindPage(found, f, Asked(c).limit, next[c])
           all == listed[c] \o page.results
           n == Len(all)
<1>1. /\ k \in Collections /\ (Asked(c).limit = None \/ Asked(c).limit \in Int)
      /\ DOMAIN q \subseteq Int
      /\ \A i \in DOMAIN q : WellFormed(q[i]) /\ q[i].field # "active"
  BY ListingFacts
<1>2. /\ pc[c] = "read" /\ route.answer \in {"page", "refused"} /\ ValidateOperators(q) /\ ~Compete(q)
      /\ pc[c] \in AtWork
  BY DEF ReadPage, At, IsListing, AtWork
<1>3. ListingScope(c) = scope
  BY OneScope
<1>4. \A s \in scope : s.field # "active"
  BY ScopeFields
<1>5. ListedOk(c)
  BY DEF ListedInv
<1>6. /\ listed[c] \in Seq(Versions(k))
      /\ \A i, j \in 1..Len(listed[c]) : i < j => Earlier(f, listed[c][i], listed[c][j])
      /\ \A i \in 1..Len(listed[c]) : AskedFor(q, scope, listed[c][i])
      /\ \/ next[c] = None /\ listed[c] = << >>
         \/ /\ next[c] # None /\ Len(listed[c]) > 0 /\ next[c] = listed[c][Len(listed[c])]
            /\ \A e \in since[c] : AskedFor(q, scope, e) =>
                 \/ \E i \in 1..Len(listed[c]) : listed[c][i].id = e.id
                 \/ Earlier(f, next[c], e)
  <2>1. ~(pc[c] = "answered")
    BY <1>2
  <2> QED
    BY <1>3, <1>5, <2>1 DEF ListedOk, CompleteTo
<1>7. /\ store[k] \in SUBSET Versions(k) /\ Listable(f, store[k])
      /\ was \in SUBSET Versions(k) /\ \A e \in was : \E d \in store[k] : d.id = e.id
  <2>1. store[k] \subseteq Versions(k) /\ Listable(f, store[k]) /\ Docs(c) = store[k]
    BY <1>1 DEF DocsInv, StoreInv, Docs
  <2>2. since[c] \subseteq Versions(k) /\ \A e \in since[c] : \E d \in store[k] : d.id = e.id
    BY <1>5 DEF ListedOk
  <2> QED
    BY <2>1, <2>2
<1>8. CASE Throw(c, "ValidationError") \/ Throw(c, "RepositoryError")
  BY <1>2, <1>8, ThrownListed
<1>9. CASE /\ Accepted(conditions)
           /\ \E hasNext, results : /\ Reply(c, 200, results, hasNext, << >>)
                                    /\ results = page.results /\ hasNext = page.hasNext
  <2>1. PICK hasNext, results : /\ Reply(c, 200, results, hasNext, << >>)
                                /\ results = page.results /\ hasNext = page.hasNext
    BY <1>9
  <2>2. /\ \A e \in was : AskedFor(q, scope, e) /\ next[c] # None =>
             \/ \E i \in 1..Len(listed[c]) : listed[c][i].id = e.id
             \/ Earlier(f, next[c], e)
    BY <1>6
  <2>3. \/ next[c] = None /\ listed[c] = << >>
        \/ /\ next[c] # None /\ Len(listed[c]) > 0 /\ next[c] = listed[c][Len(listed[c])]
           /\ \A e \in was : AskedFor(q, scope, e) =>
                \/ \E i \in 1..Len(listed[c]) : listed[c][i].id = e.id
                \/ Earlier(f, next[c], e)
    BY <1>6, <2>2
  <2>4. /\ all \in Seq(Versions(k)) /\ page.hasNext \in BOOLEAN
        /\ \A i, j \in 1..n : i < j => Earlier(f, all[i], all[j])
        /\ \A i \in 1..n : AskedFor(q, scope, all[i])
        /\ page.hasNext => n > 0 /\ page.results[Len(page.results)] = all[n]
        /\ \A e \in was : AskedFor(q, scope, e) =>
             \/ \E i \in 1..n : all[i].id = e.id
             \/ page.hasNext /\ Earlier(f, all[n], e)
    <3>1. \A i \in DOMAIN q : q[i].field # "active"
      BY <1>1
    <3>2. Joined(k, q, scope, was, all, page)
      <4> HIDE DEF scope, was, q, k
      <4> QED
        BY <1>1, <1>4, <1>6, <1>7, <2>3, <3>1, PageJoins
    <3> HIDE DEF scope, was, q, k, all, page
    <3> QED
      BY <3>2 DEF Joined
  <2>5. Len(listed[c]) <= MaxListed /\ route.answer \in Listings
    <3> HIDE DEF k
    <3>1. Len(listed[c]) <= MaxListed
      BY <1>1, <1>6, ListedLength
    <3> QED
      BY <1>2, <3>1 DEF Listings
  <2> HIDE DEF page
  <2>6. /\ UNCHANGED <<plan, store, principal, next>>
        /\ pc'[c] = "answered" /\ answer'[c].status = 200 /\ answer'[c].docs = page.results
        /\ answer'[c].hasNext = page.hasNext
        /\ since'[c] = was /\ listed'[c] = all
        /\ Asked(c)' = Asked(c) /\ ListingScope(c)' = ListingScope(c)
    <3>1. Reply(c, 200, results, hasNext, << >>)
      BY <2>1
    <3>2. /\ UNCHANGED <<plan, store, principal, next>>
          /\ pc'[c] = "answered" /\ answer'[c].status = 200 /\ answer'[c].docs = results
          /\ answer'[c].hasNext = hasNext
          /\ since'[c] = was
          /\ listed'[c] = IF route.answer \in Listings /\ Len(listed[c]) <= MaxListed
                          THEN listed[c] \o results ELSE listed[c]
          /\ Asked(c)' = Asked(c) /\ ListingScope(c)' = ListingScope(c)
      BY <3>1, ReplyFacts
    <3> QED
      BY <2>1, <2>5, <3>2
  <2> HIDE DEF all, was, scope
  <2>7. ASSUME page.hasNext, NEW x, x = all[n]
        PROVE  CompleteTo(c, x)'
    <3>1. n \in 1..n
      BY <2>4, <2>7
    <3>2. x # None
      <4>1. all[n] \in Versions(k)
        BY <2>4, <3>1
      <4> QED
        BY <1>1, <2>7, <4>1, VersionOf
    <3>3. \A e \in was : AskedFor(q, scope, e) =>
            (\E i \in 1..n : all[i].id = e.id) \/ Earlier(f, x, e)
      BY <2>4, <2>7
    <3> QED
      BY <1>3, <2>6, <3>2, <3>3 DEF CompleteTo
  <2>8. ASSUME ~page.hasNext
        PROVE  CompleteTo(c, None)'
    BY <1>3, <2>4, <2>6, <2>8 DEF CompleteTo
  <2>9. /\ listed'[c] \in Seq(Versions(k)) /\ since'[c] \subseteq Versions(k)
        /\ \A e \in since'[c] : \E d \in store'[k] : d.id = e.id
        /\ \A i, j \in 1..Len(listed'[c]) : i < j => Earlier(f, listed'[c][i], listed'[c][j])
        /\ \A i \in 1..Len(listed'[c]) : AskedFor(q, ListingScope(c)', listed'[c][i])
    BY <1>3, <1>7, <2>4, <2>6
  <2>10. answer'[c].hasNext =>
           /\ Len(listed'[c]) > 0
           /\ answer'[c].docs[Len(answer'[c].docs)] = listed'[c][Len(listed'[c])]
           /\ CompleteTo(c, listed[c][Len(listed[c])])'
    <3>1. PICK x : x = all[n]
      OBVIOUS
    <3>2. listed'[c][Len(listed'[c])] = x
      BY <2>6, <3>1
    <3>3. CompleteTo(c, x)' => CompleteTo(c, listed[c][Len(listed[c])])'
      BY <3>2 DEF CompleteTo
    <3> QED
      BY <2>4, <2>6, <2>7, <3>1, <3>3
  <2>11. ~answer'[c].hasNext => CompleteTo(c, None)'
    BY <2>6, <2>8
  <2> QED
    BY <2>6, <2>9, <2>10, <2>11 DEF ListedOk, Versions, All
<1> QED
  <2>1. Filter(c) = GetMongoFilter(q)
    BY <1>2 DEF Filter
  <2>2. Docs(c) = store[k] /\ Pageable(c, conditions) = {{d \in store[k] : Matches(d, conditions)}}
    BY DEF Docs, Pageable, IsListing
  <2>3. ASSUME Accepted(conditions)
        PROVE  {d \in store[k] : Matches(d, conditions)} = found
    <3>1. \A d : Matches(d, conditions) <=> AskedFor(q, scope, d)
      <4> HIDE DEF scope, q
      <4> QED
        BY <1>1, <1>2, <2>3, FilterSays
    <3> HIDE DEF conditions
    <3> QED
      BY <3>1
  <2>4. \/ Throw(c, "ValidationError") \/ Throw(c, "RepositoryError")
        \/ /\ Accepted(conditions)
           /\ LET p == FindPage({d \in store[k] : Matches(d, conditions)}, f, Asked(c).limit, next[c])
              IN Reply(c, 200, p.results, p.hasNext, << >>)
    BY <1>2, <2>1, <2>2 DEF ReadPage
  <2> HIDE DEF conditions, found
  <2>5. Accepted(conditions) /\ Reply(c, 200, page.results, page.hasNext, << >>) =>
           /\ Accepted(conditions)
           /\ \E hasNext, results : /\ Reply(c, 200, results, hasNext, << >>)
                                    /\ results = page.results /\ hasNext = page.hasNext
    OBVIOUS
  <2> QED
    BY <1>8, <1>9, <2>3, <2>4, <2>5

\* The cursor is the last document of the page.
LEMMA FollowListed ==
    ASSUME Shape, ListedInv, NEW c \in Clients, IsListing(c), Follow(c),
           Asked(c).route.collection \in Collections
    PROVE  ListedOk(c)'
<1> DEFINE k == Asked(c).route.collection
           n == Len(listed[c])
           cursor == answer[c].docs[Len(answer[c].docs)]
<1>1. ListedOk(c) /\ pc[c] = "answered" /\ answer[c].hasNext
  BY DEF ListedInv, Follow
<1>2. n > 0 /\ cursor = listed[c][n] /\ CompleteTo(c, listed[c][n])
  BY <1>1 DEF ListedOk
<1>3. /\ next'[c] = cursor /\ pc'[c] = "arrive" /\ listed'[c] = listed[c] /\ since'[c] = since[c]
      /\ UNCHANGED <<plan, store>>
  BY DEF Follow, ListedInv, Shape, Continue
<1>4. Asked(c)' = Asked(c)
  BY <1>3 DEF Asked
<1>5. ListingScope(c)' = ListingScope(c)
  BY <1>4, ScopeStays
<1>6. cursor # None
  <2>1. listed[c] \in Seq(Versions(k))
    BY <1>1 DEF ListedOk
  <2>2. n \in 1..n
    BY <1>2, <2>1
  <2>3. listed[c][n] \in Versions(k)
    BY <2>1, <2>2
  <2> QED
    BY <1>2, <2>3, VersionOf
<1>7. CompleteTo(c, next[c])'
  BY <1>2, <1>3, <1>4, <1>5 DEF CompleteTo
<1>8. pc'[c] # "answered" /\ pc'[c] # "count"
  BY <1>3
<1>9. Len(listed'[c]) > 0 /\ next'[c] # None /\ next'[c] = listed'[c][Len(listed'[c])]
  BY <1>2, <1>3, <1>6
<1>10. /\ listed'[c] \in Seq(Versions(k)) /\ since'[c] \subseteq Versions(k)
       /\ \A e \in since'[c] : \E d \in store'[k] : d.id = e.id
       /\ \A i, j \in 1..Len(listed'[c]) :
            i < j => Earlier(PaginatedField[k], listed'[c][i], listed'[c][j])
       /\ \A i \in 1..Len(listed'[c]) :
            AskedFor(Asked(c).query, ListingScope(c)', listed'[c][i])
  BY <1>1, <1>3, <1>5 DEF ListedOk
<1> HIDE DEF cursor
<1> QED
  BY <1>4, <1>7, <1>8, <1>9, <1>10 DEF ListedOk, Versions, All

\* At the start nothing has been read.
LEMMA ListedStart == ServingInit => ListedInv
<1> SUFFICES ASSUME ServingInit PROVE ListedInv
  OBVIOUS
<1>2. /\ DOMAIN listed = Clients /\ DOMAIN since = Clients /\ DOMAIN next = Clients
  BY DEF ServingInit
<1>3. ASSUME NEW c \in Clients, IsListing(c) PROVE ListedOk(c)
  <2>1. listed[c] = << >> /\ since[c] = {} /\ next[c] = None /\ pc[c] \in {"idle", "arrive"}
    BY DEF ServingInit
  <2>2. Len(listed[c]) = 0 /\ 1..Len(listed[c]) = {} /\ listed[c] \in Seq(Versions(Asked(c).route.collection))
    BY <2>1
  <2> QED
    BY <2>1, <2>2 DEF ListedOk
<1> QED
  BY <1>2, <1>3 DEF ListedInv

\* Every step keeps the listings complete as far as they are.
LEMMA ListedStep ==
    ASSUME Expressible, Remembered
    PROVE  /\ Shape /\ UserInv /\ StoreInv /\ StoreInv' /\ DocsInv /\ ListedInv
           /\ [ServingNext]_servingVars
           => DocsInv' /\ ListedInv'
<1> SUFFICES ASSUME Shape, UserInv, StoreInv, StoreInv', DocsInv, ListedInv,
                    [ServingNext]_servingVars
             PROVE  DocsInv' /\ ListedInv'
  OBVIOUS
<1>1. ServingStep
  BY ServingSteps
<1>2. DocsInv' /\ Kept /\ UNCHANGED plan
  BY <1>1, DocsStep
<1>4. /\ DOMAIN listed' = Clients /\ DOMAIN since' = Clients /\ DOMAIN next' = Clients
  BY <1>1 DEF ListedInv, ServingStep, Arrive, ReadAccount, ReadOrganization, AuthenticationFails,
        Learn, Authorize, Throw, Answers, Reply, Addresses, Follow, CreateEvent, Change, serving
<1>5. \A d \in Clients : IsListing(d)' => IsListing(d)
  BY <1>2 DEF IsListing, Asked
<1> SUFFICES ASSUME NEW d \in Clients, IsListing(d) PROVE ListedOk(d)'
  BY <1>2, <1>4, <1>5 DEF ListedInv
<1>6. ListedOk(d) /\ Asked(d).route.collection \in Collections
  BY ListingFacts DEF ListedInv
<1>7. ListingScope(d)' = ListingScope(d)
  BY <1>2, ScopeStays DEF Asked
<1>8. ASSUME listed'[d] = listed[d], since'[d] = since[d], next'[d] = next[d],
             \/ pc'[d] = pc[d] /\ answer'[d] = answer[d]
             \/ pc[d] # "answered" /\ pc'[d] \notin {"answered", "count"}
      PROVE  ListedOk(d)'
  BY <1>2, <1>6, <1>7, <1>8, ListedStays
<1>9. ASSUME Arrive(d) \/ ReadAccount(d) \/ ReadOrganization(d) \/ AuthenticationFails(d)
      PROVE  ListedOk(d)'
  <2>1. /\ listed' = listed /\ since' = since /\ next' = next
        /\ pc[d] # "answered" /\ pc'[d] \notin {"answered", "count"}
    BY <1>9 DEF Shape, Arrive, ReadAccount, ReadOrganization, AuthenticationFails, Learn, Continue
  <2> QED
    BY <1>8, <2>1
<1>10. ASSUME Authorize(d) PROVE ListedOk(d)'
  <2>1. CASE Throw(d, "PermissionError")
    <3>1. pc[d] \in AtWork
      BY <1>10 DEF Authorize, AtWork
    <3> QED
      BY <2>1, <3>1, ThrownListed
  <2>2. CASE Continue(d, "read") /\ UNCHANGED <<listed, since, next>>
    <3>1. pc[d] # "answered" /\ pc'[d] = "read"
      BY <1>10, <2>2 DEF Authorize, Continue, Shape
    <3> QED
      BY <1>8, <2>2, <3>1
  <2> QED
    BY <1>10, <2>1, <2>2 DEF Authorize
<1>11. ASSUME ReadFails(d) PROVE ListedOk(d)'
  <2>1. pc[d] \in AtWork /\ Throw(d, "RepositoryError")
    BY <1>11 DEF ReadFails, AtWork
  <2> QED
    BY <2>1, ThrownListed
<1>12. ASSUME ReadPage(d) PROVE ListedOk(d)'
  BY <1>12, ReadPageListed
<1>13. ASSUME Follow(d) PROVE ListedOk(d)'
  BY <1>6, <1>13, FollowListed
<1>14. ~(ReadMembers(d) \/ ReadOne(d) \/ ReadLatest(d) \/ Count(d) \/ ReadAddresses(d)
         \/ CountOfOrganization(d))
  <2>1. Asked(d).route.answer \in {"page", "refused"} /\ pc[d] # "count"
    BY <1>6 DEF IsListing, ListedOk
  <2> QED
    BY <2>1 DEF ReadMembers, ReadOne, ReadLatest, Count, ReadAddresses, CountOfOrganization, At,
          OfOrganization
<1>15. CASE CreateEvent \/ Change \/ UNCHANGED serving
  <2>1. UNCHANGED <<pc, answer, listed, since, next>>
    BY <1>15 DEF CreateEvent, Change, serving
  <2> QED
    BY <1>8, <2>1
<1>16. ASSUME NEW c \in Clients, c # d, Serve(c) \/ Follow(c) PROVE ListedOk(d)'
  <2> DEFINE same == /\ pc'[d] = pc[d] /\ answer'[d] = answer[d]
                     /\ listed'[d] = listed[d] /\ since'[d] = since[d] /\ next'[d] = next[d]
  <2>1. ASSUME Arrive(c) \/ ReadAccount(c) \/ ReadOrganization(c) \/ AuthenticationFails(c) PROVE same
    BY <1>16, <2>1 DEF Shape, Arrive, ReadAccount, ReadOrganization, AuthenticationFails, Learn, Continue
  <2>2. ASSUME NEW status, NEW docs, NEW hasNext, NEW counts, Reply(c, status, docs, hasNext, counts)
        PROVE  same
    BY <1>16, <2>2 DEF Shape, ListedInv, Reply, Continue
  <2>3. ASSUME NEW error, Throw(c, error) PROVE same
    <3> HIDE DEF same
    <3> QED
      BY <2>2, <2>3 DEF Throw
  <2>4. ASSUME Authorize(c) PROVE same
    BY <1>16, <2>3, <2>4 DEF Authorize, Continue, Shape
  <2>5. ASSUME Answers(c) PROVE same
    <3> HIDE DEF same
    <3> QED
      BY <2>2, <2>5 DEF Answers
  <2>6. ASSUME Addresses(c) \/ Follow(c) PROVE same
    BY <1>16, <2>6 DEF Addresses, Follow, Continue, Shape, ListedInv
  <2> HIDE DEF same
  <2>7. ReadFails(c) \/ ReadPage(c) \/ ReadMembers(c) \/ ReadOne(c) \/ ReadLatest(c) \/ Count(c)
        \/ ReadAddresses(c) \/ CountOfOrganization(c) => Answers(c) \/ Addresses(c)
    BY RequestSteps
  <2>8. same
    BY <1>16, <2>1, <2>4, <2>5, <2>6, <2>7 DEF Serve
  <2> QED
    BY <1>8, <2>8 DEF same
<1>17. CASE UNCHANGED servingVars \/ Pass \/ Throttled
  BY <1>15, <1>17 DEF servingVars, Pass, Throttled
<1> QED
  BY <1>9, <1>10, <1>11, <1>12, <1>13, <1>14, <1>15, <1>16, <1>17 DEF ServingNext, Serve

\* Every step keeps that only valid queries are answered.
LEMMA ValidStep == Shape /\ ValidInv /\ [ServingNext]_servingVars => ValidInv'
<1> SUFFICES ASSUME Shape, ValidInv, [ServingNext]_servingVars, NEW d \in Clients
             PROVE  /\ pc'[d] = "count" => Asked(d)'.route.answer \in OfOrganization
                    /\ Answered(d, {"page", "refused"})' => ValidateOperators(Asked(d).query)'
  BY DEF ValidInv, OfOrganization
<1>1. Asked(d)' = Asked(d)
  <2>1. UNCHANGED plan
    <3>1. ASSUME ServingStep PROVE UNCHANGED plan
      BY <3>1 DEF ServingStep, Arrive, ReadAccount, ReadOrganization, AuthenticationFails, Learn,
            Authorize, Throw, Answers, Reply, Addresses, Follow, CreateEvent, Change, serving
    <3> QED
      BY <3>1, ServingSteps
  <2> QED
    BY <2>1 DEF Asked
<1> DEFINE valid == /\ pc'[d] = "count" => Asked(d).route.answer \in OfOrganization
                    /\ /\ pc'[d] = "answered" /\ answer'[d].status = 200
                       /\ Asked(d).route.answer \in {"page", "refused"}
                       => ValidateOperators(Asked(d).query)
<1> SUFFICES valid
  BY <1>1 DEF Answered, ValidateOperators
<1>3. ASSUME pc'[d] = pc[d], answer'[d] = answer[d] PROVE valid
  BY <1>3 DEF ValidInv, Answered
<1>4. ASSUME NEW error \in {"ValidationError", "RepositoryError", "PermissionError"}
      PROVE  Throw(d, error) => valid
  <2>1. StatusOf[error] # 200
    BY DEF StatusOf
  <2> HIDE DEF StatusOf
  <2> QED
    BY <2>1 DEF Throw, Reply, Shape, Continue
<1>5. ASSUME \/ Arrive(d) \/ ReadAccount(d) \/ ReadOrganization(d) \/ AuthenticationFails(d)
             \/ Follow(d)
      PROVE  valid
  BY <1>5 DEF Shape, Arrive, ReadAccount, ReadOrganization, AuthenticationFails, Learn, Follow, Continue
<1>6. Authorize(d) => valid
  BY <1>4 DEF Authorize, Continue, Shape
<1>7. ReadFails(d) => valid
  BY <1>4 DEF ReadFails
<1>8. ASSUME ReadPage(d) PROVE valid
  <2>1. Asked(d).route.answer \in {"page", "refused"} => Asked(d).route.answer # "list"
    OBVIOUS
  <2>2. pc'[d] = "answered"
    BY <1>8 DEF ReadPage, Throw, Reply, Continue, Shape
  <2>3. CASE ~ValidateOperators(Asked(d).query) /\ Asked(d).route.answer # "list"
    BY <1>4, <1>8, <2>3 DEF ReadPage
  <2> QED
    BY <2>1, <2>2, <2>3
<1>9. ASSUME ReadMembers(d) \/ ReadOne(d) \/ ReadLatest(d) \/ Count(d) PROVE valid
  <2>1. pc'[d] = "answered" /\ Asked(d).route.answer \notin {"page", "refused"}
    BY <1>9, RequestSteps DEF ReadMembers, ReadOne, ReadLatest, Count, At, Throw, Reply, Continue, Shape
  <2> QED
    BY <2>1
<1>10. ASSUME ReadAddresses(d) \/ CountOfOrganization(d) PROVE valid
  <2>1. Asked(d).route.answer \in OfOrganization
    BY <1>10 DEF ReadAddresses, CountOfOrganization, At, ValidInv
  <2> QED
    BY <2>1 DEF OfOrganization
<1>11. ASSUME NEW c \in Clients, c # d, Serve(c) \/ Follow(c) PROVE valid
  <2> DEFINE same == pc'[d] = pc[d] /\ answer'[d] = answer[d]
  <2>1. ASSUME Arrive(c) \/ ReadAccount(c) \/ ReadOrganization(c) \/ AuthenticationFails(c) PROVE same
    BY <1>11, <2>1 DEF Shape, Arrive, ReadAccount, ReadOrganization, AuthenticationFails, Learn, Continue
  <2>2. ASSUME Authorize(c) \/ Answers(c) \/ Addresses(c) \/ Follow(c) PROVE same
    BY <1>11, <2>2 DEF Authorize, Throw, Answers, Reply, Addresses, Follow, Continue, Shape
  <2>3. same
    BY <1>11, <2>1, <2>2, RequestSteps DEF Serve
  <2> QED
    BY <1>3, <2>3
<1>12. CASE CreateEvent \/ Change \/ Pass \/ Throttled \/ UNCHANGED servingVars
  <2>1. UNCHANGED <<pc, answer>>
    BY <1>12 DEF CreateEvent, Change, Pass, Throttled, serving, servingVars
  <2> QED
    BY <1>3, <2>1
<1> QED
  BY <1>5, <1>6, <1>7, <1>8, <1>9, <1>10, <1>11, <1>12 DEF ServingNext, Serve

\* A listing of other documents than accounts, when its last page has come, is in order, has
\* each document that was there when the first page was read and that is asked for, and none
\* that is not asked for, though events came in and organizations were turned on and off in
\* between.
THEOREM ListingsComplete ==
    ASSUME Expressible, Remembered
    PROVE  ServingSpec => []ListingIsComplete
<1>1. ServingInit => DocsInv /\ ListedInv /\ ValidInv
  <2>1. ServingInit => ValidInv
    BY DEF ServingInit, ValidInv, Answered
  <2> QED
    BY <2>1, DocsStart, ListedStart
<1>2. /\ Shape /\ UserInv /\ StoreInv /\ StoreInv' /\ DocsInv /\ ListedInv
      /\ [ServingNext]_servingVars
      => DocsInv' /\ ListedInv'
  BY ListedStep
<1>3. Shape /\ UserInv /\ ListedInv /\ ValidInv => ListingIsComplete
  <2> SUFFICES ASSUME Shape, UserInv, ListedInv, ValidInv, NEW c \in Clients,
                      Answered(c, {"page", "refused"}), ~answer[c].hasNext,
                      Asked(c).route.collection # "accounts",
                      ~Compete(Asked(c).query)
               PROVE  LET route == Asked(c).route
                          scope == Scope(principal[c], route)
                      IN /\ \A i \in 1..(Len(listed[c]) - 1) :
                              Earlier(PaginatedField[route.collection], listed[c][i], listed[c][i + 1])
                         /\ \A d \in since[c] : AskedFor(Asked(c).query, scope, d) =>
                              \E i \in DOMAIN listed[c] : listed[c][i].id = d.id
                         /\ \A i \in DOMAIN listed[c] :
                              AskedFor(Asked(c).query, scope, listed[c][i])
    BY DEF ListingIsComplete
  <2> DEFINE route == Asked(c).route
             k == route.collection
             f == PaginatedField[k]
             scope == Scope(principal[c], route)
             n == Len(listed[c])
  <2>1. pc[c] = "answered" /\ answer[c].status = 200 /\ pc[c] \in AtWork
        /\ route.answer \in {"page", "refused"}
    BY DEF Answered, AtWork
  <2>2. Asked(c) # None
    BY <2>1 DEF UserInv, UserOk
  <2>3. ValidateOperators(Asked(c).query)
    BY DEF ValidInv
  <2>4. IsListing(c)
    BY <2>1, <2>2, <2>3 DEF IsListing, Asked
  <2>5. ListedOk(c)
    BY <2>4 DEF ListedInv
  <2>6. ListingScope(c) = scope
    BY <2>4, OneScope
  <2>7. listed[c] \in Seq(Versions(k)) /\ DOMAIN listed[c] = 1..n /\ n \in Nat
    <3>1. listed[c] \in Seq(Versions(k))
      BY <2>5 DEF ListedOk
    <3> QED
      BY <3>1
  <2>8. /\ \A i, j \in 1..n : i < j => Earlier(f, listed[c][i], listed[c][j])
        /\ \A i \in 1..n : AskedFor(Asked(c).query, scope, listed[c][i])
    BY <2>5, <2>6 DEF ListedOk
  <2>9. \A i \in 1..(n - 1) : Earlier(f, listed[c][i], listed[c][i + 1])
    <3> SUFFICES ASSUME NEW i \in 1..(n - 1) PROVE Earlier(f, listed[c][i], listed[c][i + 1])
      OBVIOUS
    <3>1. i \in 1..n /\ i + 1 \in 1..n /\ i < i + 1
      BY <2>7
    <3> QED
      BY <2>8, <3>1
  <2>10. CompleteTo(c, None)
    BY <2>1, <2>5 DEF ListedOk
  <2>11. \A d \in since[c] : AskedFor(Asked(c).query, scope, d) =>
          \E i \in 1..n : listed[c][i].id = d.id
    BY <2>6, <2>10 DEF CompleteTo
  <2> QED
    BY <2>7, <2>8, <2>9, <2>11
<1> QED
  BY <1>1, <1>2, <1>3, ValidStep, UsersKnown, StoreKept, PTL DEF ServingSpec

--------------------------------------------------------------------------------
\* What is computed from the elements of a set, one after the other.

\* Of the sets of a collection, there is one such that no smaller one is in it.
LEMMA SmallestSet ==
    ASSUME NEW S, IsFiniteSet(S), NEW T \in SUBSET (SUBSET S), T # {}
    PROVE  \E s \in T : \A t \in T : t \subseteq s => t = s
<1>1. IsWellFoundedOn(StrictSubsetOrdering(S), SUBSET S)
  BY FS_StrictSubsetOrderingWellFounded, FS_FiniteSubsetsOfFinite
<1>2. PICK s \in T : \A t \in T : ~(<<t, s>> \in StrictSubsetOrdering(S))
  BY <1>1, WFMin
<1>3. ASSUME NEW t \in T, t \subseteq s, t # s PROVE FALSE
  BY <1>2, <1>3 DEF StrictSubsetOrdering
<1> QED
  BY <1>3

\* What is computed element by element is computed in one way only.
LEMMA FoldsAgree ==
    ASSUME NEW S, IsFiniteSet(S), NEW f, NEW g, f[{}] = g[{}],
           \A s \in SUBSET S : s # {} => \E x \in s : f[s \ {x}] = g[s \ {x}] => f[s] = g[s]
    PROVE  f[S] = g[S]
<1> SUFFICES ASSUME f[S] # g[S] PROVE FALSE
  OBVIOUS
<1> DEFINE T == {s \in SUBSET S : f[s] # g[s]}
<1>1. T \in SUBSET (SUBSET S) /\ S \in T
  OBVIOUS
<1>2. \E s \in T : \A t \in T : t \subseteq s => t = s
  <2> HIDE DEF T
  <2> QED
    BY <1>1, SmallestSet
<1>3. PICK s \in T : \A t \in T : t \subseteq s => t = s
  BY <1>2
<1>4. s \in SUBSET S /\ s # {}
  BY <1>3
<1>5. PICK x \in s : f[s \ {x}] = g[s \ {x}] => f[s] = g[s]
  BY <1>4
<1>6. s \ {x} \in T
  BY <1>3, <1>4, <1>5
<1> QED
  BY <1>3, <1>6

\* The sum of the sizes of disjoint parts is the number of all that is in them.
LEMMA SumOfParts ==
    ASSUME NEW docs, IsFiniteSet(docs), NEW P, IsFiniteSet(P), NEW part \in [P -> SUBSET docs],
           \A p, q \in P : p # q => part[p] \cap part[q] = {},
           NEW c, DOMAIN c = P, \A p \in P : c[p] = Cardinality(part[p])
    PROVE  SumOf(c) = Cardinality({d \in docs : \E p \in P : d \in part[p]})
<1> DEFINE In(s) == {d \in docs : \E p \in s : d \in part[p]}
           g == [s \in SUBSET P |-> Cardinality(In(s))]
           Sums(f) == f = [s \in SUBSET P |->
                             IF s = {} THEN 0
                             ELSE c[CHOOSE x \in s : TRUE] + f[s \ {CHOOSE x \in s : TRUE}]]
           i == CHOOSE f : Sums(f)
<1>1. SumOf(c) = i[P]
  BY DEF SumOf, FoldFunction, FoldFunctionOnSet, MapThenFoldSet
<1>2. ASSUME NEW s \in SUBSET P, NEW x \in s PROVE g[s] = c[x] + g[s \ {x}]
  <2>1. part[x] \subseteq docs /\ In(s \ {x}) \subseteq docs /\ In(s) = part[x] \cup In(s \ {x})
    OBVIOUS
  <2>2. part[x] \cap In(s \ {x}) = {}
    <3>1. ASSUME NEW d \in part[x], NEW p \in s \ {x}, d \in part[p] PROVE FALSE
      BY <3>1
    <3> QED
      BY <3>1
  <2>3. /\ IsFiniteSet(part[x]) /\ IsFiniteSet(In(s \ {x}))
        /\ Cardinality(part[x]) \in Nat /\ Cardinality(In(s \ {x})) \in Nat
    BY <2>1, FS_Subset, FS_CardinalityType
  <2> HIDE DEF In
  <2>4. Cardinality(In(s)) = Cardinality(part[x]) + Cardinality(In(s \ {x}))
    <3>1. Cardinality(part[x] \cup In(s \ {x}))
            = Cardinality(part[x]) + Cardinality(In(s \ {x}))
                - Cardinality(part[x] \cap In(s \ {x}))
      BY <2>3, FS_Union
    <3>2. Cardinality(part[x] \cap In(s \ {x})) = 0
      BY <2>2, FS_EmptySet
    <3>3. Cardinality(In(s)) = Cardinality(part[x] \cup In(s \ {x}))
      BY <2>1, Zenon
    <3> QED
      BY <2>3, <3>1, <3>2, <3>3
  <2>5. s \in SUBSET P /\ s \ {x} \in SUBSET P /\ c[x] = Cardinality(part[x])
    OBVIOUS
  <2>6. g[s] = Cardinality(In(s)) /\ g[s \ {x}] = Cardinality(In(s \ {x}))
    BY <2>5
  <2>7. g[s] = Cardinality(part[x]) + Cardinality(In(s \ {x}))
    BY <2>4, <2>6
  <2> HIDE DEF g
  <2> QED
    BY <2>5, <2>6, <2>7
<1>3. g[{}] = 0
  <2>1. In({}) = {}
    OBVIOUS
  <2> QED
    BY <2>1, FS_EmptySet
<1>9. g[P] = Cardinality(In(P))
  OBVIOUS
<1> HIDE DEF g
<1>4. Sums(g)
  <2>1. \A s \in SUBSET P : s # {} => (CHOOSE x \in s : TRUE) \in s
    OBVIOUS
  <2>2. DOMAIN g = SUBSET P /\ g = [s \in SUBSET P |-> g[s]]
    BY DEF g
  <2>3. ASSUME NEW s \in SUBSET P
        PROVE  g[s] = IF s = {} THEN 0
                      ELSE c[CHOOSE x \in s : TRUE] + g[s \ {CHOOSE x \in s : TRUE}]
    BY <1>2, <1>3, <2>1
  <2> QED
    BY <2>2, <2>3
<1>5. Sums(i)
  <2> HIDE DEF Sums
  <2> QED
    BY <1>4
<1> HIDE DEF i
<1>6. \A s \in SUBSET P : s # {} => \E x \in s : i[s \ {x}] = g[s \ {x}] => i[s] = g[s]
  <2> SUFFICES ASSUME NEW s \in SUBSET P, s # {}
               PROVE  \E x \in s : i[s \ {x}] = g[s \ {x}] => i[s] = g[s]
    OBVIOUS
  <2> DEFINE x == CHOOSE x \in s : TRUE
  <2>1. x \in s
    OBVIOUS
  <2>2. i[s] = c[x] + i[s \ {x}] /\ g[s] = c[x] + g[s \ {x}]
    BY <1>4, <1>5
  <2> HIDE DEF x
  <2> QED
    BY <2>1, <2>2
<1>7. i[{}] = g[{}]
  BY <1>3, <1>5
<1> HIDE DEF Sums, In
<1>8. i[P] = g[P]
  BY <1>6, <1>7, FoldsAgree, SMTT(60)
<1> QED
  BY <1>1, <1>8, <1>9, Zenon DEF In

--------------------------------------------------------------------------------
\* The latest event of each asset.

\* A set of positions has a last one.
LEMMA MaxOf ==
    ASSUME NEW n \in Nat, NEW s \in SUBSET (1..n), s # {}
    PROVE  Max(s) \in s
<1> DEFINE T == {n - x : x \in s}
<1>1. T \subseteq Nat /\ T # {}
  <2>1. \A x \in s : n - x \in Nat
    OBVIOUS
  <2>2. T \subseteq Nat
    BY <2>1
  <2> QED
    BY <2>2
<1>2. PICK m \in T : \A k \in T : <<k, m>> \notin OpToRel(<, Nat)
  <2> HIDE DEF T
  <2> QED
    BY <1>1, NatLessThanWellFounded, WFMin
<1>3. \A k \in T : ~(k < m)
  BY <1>1, <1>2 DEF OpToRel
<1>4. PICK x \in s : m = n - x
  OBVIOUS
<1>5. \A y \in s : x >= y
  <2> TAKE y \in s
  <2>1. n - y \in T /\ m \in Nat /\ y \in Int /\ x \in Int /\ n - y \in Int
    BY <1>1
  <2>2. ~(n - y < n - x)
    BY <1>3, <1>4, <2>1
  <2> QED
    BY <2>1, <2>2
<1> QED
  BY <1>5 DEF Max

\* What the events of s say is the latest of the asset a.
Latest(e, s, a) == e \in s /\ e.asset = a /\ IsLatest(e, s)

\* Among the events of an asset there is one latest.
LEMMA OneLatest ==
    ASSUME NEW s, Listable("time", s), NEW d \in s
    PROVE  /\ \E e \in s : Latest(e, s, d.asset)
           /\ \A e, f \in s : Latest(e, s, d.asset) /\ Latest(f, s, d.asset) => e = f
<1> DEFINE own == {e \in s : e.asset = d.asset}
           sorted == Sorted("time", own)
<1>1. Listable("time", own)
  BY PartListable
<1>8. d \in own /\ \A e \in own : e \in s /\ e.asset = d.asset
  OBVIOUS
<1>9. \A e \in s : e.asset = d.asset => e \in own
  OBVIOUS
<1> HIDE DEF own
<1>2. /\ sorted \in Seq(own) /\ Len(sorted) \in Nat
      /\ \A e \in own : \E i \in 1..Len(sorted) : sorted[i] = e
      /\ \A i, j \in 1..Len(sorted) : i < j => Earlier("time", sorted[i], sorted[j])
  BY <1>1, SortedFacts
<1> HIDE DEF sorted
<1>3. 1 \in 1..Len(sorted)
  BY <1>2, <1>8
<1>4. ASSUME NEW f \in own, f # sorted[1] PROVE Earlier("time", sorted[1], f)
  <2>1. PICK j \in 1..Len(sorted) : sorted[j] = f
    BY <1>2
  <2>2. 1 < j
    BY <1>3, <1>4, <2>1
  <2> QED
    BY <1>2, <1>3, <2>1, <2>2
<1>5. sorted[1] \in own
  BY <1>2, <1>3
<1>6. Latest(sorted[1], s, d.asset)
  BY <1>4, <1>5, <1>8, <1>9 DEF Latest, IsLatest
<1>7. ASSUME NEW e \in s, NEW f \in s, Latest(e, s, d.asset), Latest(f, s, d.asset), e # f
      PROVE  FALSE
  BY <1>7, EarlierIsOrder DEF Latest, IsLatest
<1> QED
  BY <1>5, <1>6, <1>7, <1>8

\* What LatestOfEach makes of the latest events seen when it meets another.
Met(seen, e) ==
    IF Takes(seen, e)
    THEN [a \in DOMAIN seen \cup {e.asset} |-> IF a = e.asset THEN e ELSE seen[a]]
    ELSE seen

\* The latest of each asset that has events in s.
Lasts(seen, s) ==
    /\ seen = [a \in {d.asset : d \in s} |-> seen[a]]
    /\ \A a \in DOMAIN seen : Latest(seen[a], s, a)

\* One more event: it is the latest of its asset if it is later than the latest so far.
LEMMA MeetOne ==
    ASSUME NEW s, NEW e, Listable("time", s \cup {e}), NEW seen, Lasts(seen, s)
    PROVE  Lasts(Met(seen, e), s \cup {e})
<1> DEFINE met == Met(seen, e)
           t == s \cup {e}
<1>1. /\ \A d \in t : d.id \in Int /\ d.time \in Int
      /\ \A d, f \in t : d.id = f.id => d = f
  BY DEF Listable
<1>2. /\ DOMAIN seen = {d.asset : d \in s} /\ seen = [a \in DOMAIN seen |-> seen[a]]
      /\ \A a \in DOMAIN seen : seen[a] \in s /\ seen[a].asset = a /\ IsLatest(seen[a], s)
  BY DEF Lasts, Latest
<1>3. CASE Takes(seen, e)
  <2>1. met = [a \in DOMAIN seen \cup {e.asset} |-> IF a = e.asset THEN e ELSE seen[a]]
    BY <1>3 DEF Met
  <2>2. DOMAIN seen \cup {e.asset} = {d.asset : d \in t}
    BY <1>2
  <2>3. ASSUME NEW f \in s, f.asset = e.asset, f # e PROVE Earlier("time", e, f)
    <3> DEFINE d == seen[f.asset]
    <3>1. d \in s /\ d.asset = f.asset /\ IsLatest(d, s) /\ f.asset \in DOMAIN seen
      BY <1>2
    <3>2. d # f => d.time > f.time \/ (d.time = f.time /\ d.id > f.id)
      BY <2>3, <3>1 DEF IsLatest, Earlier
    <3>3. (d.time = e.time /\ d.id < e.id) \/ d.time < e.time
      BY <1>3, <2>3, <3>1 DEF Takes
    <3>4. d.time \in Int /\ d.id \in Int /\ e.time \in Int /\ e.id \in Int
          /\ f.time \in Int /\ f.id \in Int
      BY <1>1, <3>1
    <3> HIDE DEF d
    <3>5. e.time > f.time \/ (e.time = f.time /\ e.id > f.id)
      BY <3>2, <3>3, <3>4
    <3> QED
      BY <3>5 DEF Earlier
  <2>4. Latest(e, t, e.asset)
    BY <2>3 DEF Latest, IsLatest
  <2>5. ASSUME NEW a \in DOMAIN seen, a # e.asset PROVE Latest(seen[a], t, a)
    BY <1>2, <2>5 DEF Latest, IsLatest
  <2> HIDE DEF met, t
  <2>6. \A a \in DOMAIN met : Latest(met[a], t, a)
    BY <2>1, <2>4, <2>5
  <2>7. met = [a \in {d.asset : d \in t} |-> met[a]]
    BY <2>1, <2>2
  <2> QED
    BY <2>6, <2>7 DEF Lasts, met, t
<1>4. CASE ~Takes(seen, e)
  <2>1. met = seen /\ e.asset \in DOMAIN seen
    BY <1>4 DEF Takes, Met
  <2>2. DOMAIN seen = {d.asset : d \in t}
    BY <1>2, <2>1
  <2> DEFINE d == seen[e.asset]
  <2>3. d \in s /\ d.asset = e.asset /\ IsLatest(d, s)
    BY <1>2, <2>1
  <2>4. ~(d.time = e.time /\ d.id < e.id) /\ ~(d.time < e.time)
    BY <1>4 DEF Takes
  <2>5. d.time \in Int /\ d.id \in Int /\ e.time \in Int /\ e.id \in Int /\ (d.id = e.id => d = e)
    BY <1>1, <2>3
  <2>6. d # e => Earlier("time", d, e)
    <3> HIDE DEF d
    <3> QED
      BY <2>4, <2>5 DEF Earlier
  <2>7. ASSUME NEW a \in DOMAIN seen PROVE Latest(seen[a], t, a)
    BY <1>2, <2>6 DEF Latest, IsLatest
  <2>8. seen = [a \in {f.asset : f \in t} |-> seen[a]]
    BY <1>2, <2>2
  <2> QED
    BY <2>1, <2>7, <2>8 DEF Lasts
<1> QED
  BY <1>3, <1>4

\* So the latest of each are found, in whatever order.
LEMMA LatestFacts ==
    ASSUME NEW events, Listable("time", events), NEW natural \in SetToSeqs(events)
    PROVE  LatestOfEach(natural) = {e \in events : IsLatest(e, events)}
<1> DEFINE n == Cardinality(events)
           D == 1..n
           Met0(s) == {natural[k] : k \in s}
           Meets(f) == f = [s \in SUBSET D |->
                              IF s = {} THEN << >>
                              ELSE Met(f[s \ {Max(s)}], natural[Max(s)])]
           i == CHOOSE f : Meets(f)
           g == [s \in SUBSET D |->
                   [a \in {e.asset : e \in Met0(s)} |->
                      CHOOSE e \in Met0(s) : Latest(e, Met0(s), a)]]
<1>1. n \in Nat /\ IsFiniteSet(D) /\ Cardinality(D) = n /\ IsFiniteSet(events)
  <2>1. n \in Nat /\ IsFiniteSet(events)
    BY FS_CardinalityType DEF Listable
  <2>2. IsFiniteSet(D) /\ Cardinality(D) = n
    BY <2>1, FS_Interval
  <2> QED
    BY <2>1, <2>2
<1>2. natural \in [D -> events] /\ \A j, k \in D : j # k => natural[j] # natural[k]
  BY DEF SetToSeqs
<1>3. LatestOfEach(natural) = {i[D][a] : a \in DOMAIN i[D]}
  <2>1. DOMAIN natural = D
    BY <1>2
  <2> QED
    BY <2>1 DEF LatestOfEach, FoldLeft, MapThenFoldSet, Met
<1>4. Met0(D) = events
  <2>1. natural \in Injection(D, events)
    BY <1>2 DEF Injection, IsInjective
  <2>2. natural \in Surjection(D, events)
    BY <1>1, <2>1, FS_Injection
  <2> QED
    BY <1>2, <2>2 DEF Surjection
<1>5. \A s \in SUBSET D : Met0(s) \subseteq events
  BY <1>2
<1>6. ASSUME NEW s \in SUBSET D PROVE Lasts(g[s], Met0(s))
  <2> DEFINE m == Met0(s)
  <2>1. Listable("time", m)
    BY <1>5, PartListable
  <2>2. g[s] = [a \in {e.asset : e \in m} |-> CHOOSE e \in m : Latest(e, m, a)]
    OBVIOUS
  <2> HIDE DEF m, g
  <2>3. ASSUME NEW d \in m PROVE Latest(g[s][d.asset], m, d.asset)
    <3>1. \E e \in m : Latest(e, m, d.asset)
      BY <2>1, OneLatest
    <3>2. g[s][d.asset] = CHOOSE e \in m : Latest(e, m, d.asset)
      BY <2>2
    <3> QED
      BY <3>1, <3>2
  <2> QED
    BY <2>2, <2>3 DEF Lasts, m
<1>7. ASSUME NEW s \in SUBSET D, NEW h, Lasts(h, Met0(s)) PROVE h = g[s]
  <2> DEFINE m == Met0(s)
             k == g[s]
  <2>1. Listable("time", m)
    BY <1>5, PartListable
  <2>2. Lasts(k, m) /\ Lasts(h, m)
    BY <1>6, <1>7
  <2> HIDE DEF m, k
  <2>3. ASSUME NEW d \in m PROVE h[d.asset] = k[d.asset]
    <3>1. Latest(h[d.asset], m, d.asset) /\ Latest(k[d.asset], m, d.asset)
      BY <2>2 DEF Lasts
    <3> QED
      BY <2>1, <3>1, OneLatest DEF Latest
  <2>4. h = k
    BY <2>2, <2>3 DEF Lasts
  <2> QED
    BY <2>4 DEF k
<1>8. ASSUME NEW s \in SUBSET D, s # {}
      PROVE  Max(s) \in s /\ g[s] = Met(g[s \ {Max(s)}], natural[Max(s)])
  <2> DEFINE x == Max(s)
             r == s \ {x}
  <2>1. x \in s
    BY <1>1, <1>8, MaxOf
  <2> HIDE DEF x
  <2>2. r \in SUBSET D /\ Met0(s) = Met0(r) \cup {natural[x]}
    BY <2>1
  <2>3. Listable("time", Met0(r) \cup {natural[x]})
    BY <1>5, <2>2, PartListable
  <2>4. Lasts(g[r], Met0(r))
    BY <1>6, <2>2
  <2> HIDE DEF g, Met0, r
  <2>5. Lasts(Met(g[r], natural[x]), Met0(s))
    BY <2>2, <2>3, <2>4, MeetOne
  <2>6. Met(g[r], natural[x]) = g[s]
    BY <1>7, <2>5
  <2> QED
    BY <2>1, <2>6 DEF x, r
<1>9. g[{}] = << >>
  <2>1. Met0({}) = {}
    OBVIOUS
  <2> HIDE DEF Met0
  <2> QED
    BY <2>1
<1> SUFFICES {i[D][a] : a \in DOMAIN i[D]} = {e \in events : IsLatest(e, events)}
  BY <1>3
<1>10. Meets(g)
  <2>1. DOMAIN g = SUBSET D /\ g = [s \in SUBSET D |-> g[s]]
    OBVIOUS
  <2> HIDE DEF g
  <2>2. ASSUME NEW s \in SUBSET D
        PROVE  g[s] = IF s = {} THEN << >> ELSE Met(g[s \ {Max(s)}], natural[Max(s)])
    BY <1>8, <1>9
  <2> QED
    BY <2>1, <2>2
<1>11. Meets(i)
  <2> HIDE DEF Meets, g
  <2> QED
    BY <1>10
<1> HIDE DEF i
<1>12. \A s \in SUBSET D : s # {} => \E x \in s : i[s \ {x}] = g[s \ {x}] => i[s] = g[s]
  <2> SUFFICES ASSUME NEW s \in SUBSET D, s # {}
               PROVE  \E x \in s : i[s \ {x}] = g[s \ {x}] => i[s] = g[s]
    OBVIOUS
  <2> DEFINE x == Max(s)
  <2>1. i[s] = Met(i[s \ {x}], natural[x])
    BY <1>11
  <2>2. x \in s /\ g[s] = Met(g[s \ {x}], natural[x])
    BY <1>8
  <2> HIDE DEF x, g
  <2> QED
    BY <2>1, <2>2
<1>13. i[{}] = g[{}]
  BY <1>9, <1>11
<1>14. Lasts(g[D], events)
  BY <1>4, <1>6
<1>15. i[D] = g[D]
  <2> HIDE DEF Meets, g, Met0, D
  <2> QED
    BY <1>1, <1>12, <1>13, FoldsAgree, SMTT(60)
<1>16. Lasts(i[D], events)
  BY <1>14, <1>15, Zenon
<1> DEFINE last == i[D]
<1> HIDE DEF last
<1>17. ASSUME NEW e \in events, IsLatest(e, events) PROVE \E a \in DOMAIN last : e = last[a]
  <2>1. Latest(e, events, e.asset)
    BY <1>17 DEF Latest
  <2>2. e.asset \in DOMAIN last /\ Latest(last[e.asset], events, e.asset)
    BY <1>16 DEF Lasts, last
  <2> QED
    BY <2>1, <2>2, OneLatest DEF Latest
<1>18. ASSUME NEW a \in DOMAIN last PROVE last[a] \in events /\ IsLatest(last[a], events)
  BY <1>16 DEF Lasts, Latest, last
<1>19. {last[a] : a \in DOMAIN last} = {e \in events : IsLatest(e, events)}
  BY <1>17, <1>18
<1> QED
  BY <1>19 DEF last

\* A sequence made of a finite set has the elements of the set.
LEMMA SequenceOfSet ==
    ASSUME NEW S, IsFiniteSet(S)
    PROVE  ToSet(SetToSeq(S)) = S
<1> DEFINE n == Cardinality(S)
           s == SetToSeq(S)
<1>1. n \in Nat /\ IsFiniteSet(1..n) /\ Cardinality(1..n) = n
  BY FS_CardinalityType, FS_Interval
<1>2. PICK f : f \in Bijection(1..n, S)
  <2>1. PICK m \in Nat : ExistsBijection(1..m, S)
    BY FS_NatBijection
  <2>2. m = n
    BY <2>1, FS_CountingElements
  <2> QED
    BY <2>1, <2>2 DEF ExistsBijection
<1>3. f \in [1..n -> S] /\ IsInjective(f)
  BY <1>2 DEF Bijection, Injection
<1>4. s \in [1..n -> S] /\ IsInjective(s)
  BY <1>3 DEF SetToSeq
<1>6. s \in Surjection(1..n, S)
  <2>1. s \in Injection(1..n, S)
    BY <1>4 DEF Injection
  <2> HIDE DEF s
  <2> QED
    BY <1>1, <2>1, FS_Injection
<1>7. ToSet(s) = S
  <2> HIDE DEF s
  <2> QED
    BY <1>6 DEF Surjection, ToSet
<1> QED
  BY <1>7

--------------------------------------------------------------------------------
\* The buckets of the analytics.

\* The points themselves are such a set as they are the least of.
LEMMA PointsClosed ==
    ASSUME NEW zone, NEW unit, NEW start \in Int, NEW end \in Int
    PROVE  LET P == Points(zone, unit, start, end)
           IN /\ P \subseteq start..end
              /\ start <= end => start \in P
              /\ \A p \in P, n \in start..end : n = After(zone, unit, p) => n \in P
<1> DEFINE P == Points(zone, unit, start, end)
<1>1. P \subseteq start..end
  BY DEF Points
<1>2. ASSUME start <= end PROVE start \in P
  BY <1>2 DEF Points, Closed
<1>3. ASSUME NEW p \in P, NEW n \in start..end, n = After(zone, unit, p) PROVE n \in P
  <2>1. ASSUME NEW S \in Closed(zone, unit, start, end) PROVE n \in S
    <3>1. p \in S
      BY DEF Points
    <3> QED
      BY <1>3, <3>1 DEF Closed
  <2> QED
    BY <2>1 DEF Points
<1> QED
  BY <1>1, <1>2, <1>3

\* Each point but the first comes after another.
LEMMA PointsFollow ==
    ASSUME NEW zone \in Zones, NEW unit \in Units, NEW start \in Int, NEW end \in Int,
           start..end \subseteq Times,
           NEW q \in Points(zone, unit, start, end), q # start
    PROVE  \E p \in Points(zone, unit, start, end) : q = After(zone, unit, p)
<1> DEFINE P == Points(zone, unit, start, end)
           S == P \ {q}
<1> SUFFICES ASSUME \A p \in P : q # After(zone, unit, p) PROVE FALSE
  OBVIOUS
<1>1. P \subseteq start..end /\ (start <= end => start \in P)
  BY PointsClosed
<1>2. \A p \in P, n \in start..end : n = After(zone, unit, p) => n \in P
  BY PointsClosed
<1>3. \A p \in P : After(zone, unit, p) \in Int /\ p < After(zone, unit, p)
  BY <1>1, QueryAssumption
<1>4. S \subseteq start..end /\ (start <= end => start \in S)
  BY <1>1
<1>5. ASSUME NEW p \in S, After(zone, unit, p) <= end PROVE After(zone, unit, p) \in S
  <2>1. After(zone, unit, p) \in start..end
    BY <1>1, <1>3, <1>5
  <2> QED
    BY <1>2, <2>1
<1> HIDE DEF S
<1>6. S \in Closed(zone, unit, start, end)
  BY <1>4, <1>5 DEF Closed
<1>7. q \in S
  BY <1>6 DEF Points
<1> QED
  BY <1>7 DEF S

\* Where clocks are never changed, each point has a text of its own.
LEMMA PointsApart ==
    ASSUME NEW zone \in Steady, NEW unit \in Units, NEW start \in Int, NEW end \in Int,
           start..end \subseteq Times,
           NEW p \in Points(zone, unit, start, end), NEW q \in Points(zone, unit, start, end),
           Text(zone, unit, p) = Text(zone, unit, q)
    PROVE  p = q
<1> DEFINE P == Points(zone, unit, start, end)
           text(t) == Text(zone, unit, t)
           after(t) == After(zone, unit, t)
           S == {r \in P : \A t \in P : text(t) = text(r) => t = r}
<1>1. zone \in Zones
  BY QueryAssumption
<1>2. P \subseteq start..end /\ (start <= end => start \in P)
  BY PointsClosed
<1>3. \A r \in P, n \in start..end : n = after(r) => n \in P
  BY PointsClosed
<1>4. \A r \in P : r # start => \E t \in P : r = after(t)
  BY <1>1, PointsFollow
<1>5. \A r \in P : /\ r \in Times /\ text(r) \in Int /\ after(r) \in Int /\ r < after(r)
                   /\ after(r) \in Times => text(after(r)) = text(r) + 1
                   /\ start \in Times => text(start) <= text(r)
  BY <1>1, <1>2, QueryAssumption
<1> HIDE DEF P, text, after
<1>6. S \subseteq start..end
  BY <1>2
<1>7. ASSUME start <= end PROVE start \in S
  <2>1. start \in P /\ start \in Times
    BY <1>2, <1>5, <1>7
  <2>2. ASSUME NEW t \in P, text(t) = text(start), t # start PROVE FALSE
    <3>1. PICK r \in P : t = after(r)
      BY <1>4, <2>2
    <3>2. text(t) = text(r) + 1
      BY <1>5, <3>1
    <3> QED
      BY <1>5, <2>1, <2>2, <3>2
  <2> QED
    BY <2>1, <2>2
<1>8. ASSUME NEW r \in S, after(r) <= end PROVE after(r) \in S
  <2>1. after(r) \in P /\ text(after(r)) = text(r) + 1
    <3>1. after(r) \in start..end
      BY <1>2, <1>5, <1>8
    <3>2. after(r) \in P
      BY <1>3, <3>1
    <3> QED
      BY <1>5, <3>2
  <2>2. ASSUME NEW t \in P, text(t) = text(r) + 1, t # after(r) PROVE FALSE
    <3>1. t # start
      <4>1. start \in Times
        BY <1>2, <1>5
      <4> QED
        BY <1>5, <2>2, <4>1
    <3>2. PICK n \in P : t = after(n)
      BY <1>4, <3>1
    <3>3. text(t) = text(n) + 1
      BY <1>5, <3>2
    <3>4. n = r
      BY <1>5, <2>2, <3>3
    <3> QED
      BY <2>2, <3>2, <3>4
  <2> QED
    BY <2>1, <2>2
<1>9. S \in Closed(zone, unit, start, end)
  <2>1. S \in SUBSET (start..end)
    BY <1>6
  <2> HIDE DEF S
  <2> QED
    BY <1>7, <1>8, <2>1 DEF Closed, after
<1>10. p \in S
  <2> HIDE DEF S
  <2> QED
    BY <1>9 DEF Points
<1> QED
  BY <1>10 DEF P, text

\* When the first point begins a unit in UTC, the points reach all that is from start to end.
LEMMA PointsReach ==
    ASSUME NEW unit \in Units, NEW start \in Int, NEW end \in Int, start..end \subseteq Times,
           Begins(unit, start), NEW t \in start..end
    PROVE  \E p \in Points(UTC, unit, start, end) : Text(UTC, unit, t) = Text(UTC, unit, p)
<1> DEFINE P == Points(UTC, unit, start, end)
           text(s) == Text(UTC, unit, s)
           after(s) == After(UTC, unit, s)
           S == {r \in P : Begins(unit, r)}
           before == {r \in P : r <= t}
<1>1. P \subseteq start..end /\ start \in P
  BY PointsClosed
<1>2. \A r \in P, n \in start..end : n = after(r) => n \in P
  BY PointsClosed
<1>3. \A r \in P : r \in Int /\ r \in Times /\ after(r) \in Int /\ r < after(r)
  BY <1>1, QueryAssumption
<1>4. ASSUME NEW r \in P, Begins(unit, r)
      PROVE  /\ \A s \in Times : r <= s /\ s < after(r) => text(s) = text(r)
             /\ after(r) \in Times => Begins(unit, after(r))
  BY <1>3, <1>4, QueryAssumption
<1> HIDE DEF P, text, after
<1>5. S \in Closed(UTC, unit, start, end)
  <2>1. S \in SUBSET (start..end) /\ start \in S
    BY <1>1
  <2>2. ASSUME NEW r \in S, after(r) <= end PROVE after(r) \in S
    <3>1. after(r) \in start..end
      BY <1>1, <1>3, <2>2
    <3> QED
      BY <1>2, <1>4, <3>1
  <2> HIDE DEF S
  <2> QED
    BY <2>1, <2>2 DEF Closed, after
<1>6. \A r \in P : Begins(unit, r)
  <2>1. ASSUME NEW r \in P PROVE r \in S
    BY <1>5 DEF P, Points
  <2> QED
    BY <2>1
<1>7. PICK p \in before : \A r \in before : r <= p
  <2> DEFINE T == {t - r : r \in before}
  <2>1. T \subseteq Nat /\ T # {}
    <3>1. \A r \in before : t - r \in Nat
      BY <1>3
    <3>2. start \in before
      BY <1>1
    <3> HIDE DEF before
    <3> QED
      BY <3>1, <3>2
  <2>2. PICK m \in T : \A k \in T : <<k, m>> \notin OpToRel(<, Nat)
    <3> HIDE DEF T
    <3> QED
      BY <2>1, NatLessThanWellFounded, WFMin
  <2>3. PICK p \in before : m = t - p
    BY <2>2
  <2>4. ASSUME NEW r \in before PROVE r <= p
    <3>1. t - r \in T
      OBVIOUS
    <3>2. t - r \in Nat /\ m \in Nat
      BY <2>1, <2>2, <3>1
    <3>3. <<t - r, m>> \notin OpToRel(<, Nat)
      BY <2>2, <3>1
    <3>4. ~(t - r < m)
      BY <3>2, <3>3 DEF OpToRel
    <3> QED
      BY <1>3, <2>3, <3>4
  <2> QED
    BY <2>3, <2>4
<1>8. p \in P /\ p \in Int /\ p <= t /\ p < after(p) /\ after(p) \in Int
  BY <1>3, <1>7
<1>9. t < after(p)
  <2> SUFFICES ASSUME after(p) <= t PROVE FALSE
    BY <1>8
  <2>1. after(p) \in start..end
    BY <1>1, <1>8
  <2>2. after(p) \in before
    BY <1>2, <1>8, <2>1
  <2> QED
    BY <1>7, <1>8, <2>2
<1>10. text(t) = text(p)
  BY <1>4, <1>6, <1>8, <1>9
<1> QED
  BY <1>8, <1>10 DEF P, text

\* What the buckets count, together: never more than there is where clocks are never changed,
\* and all of it when the points reach it.
LEMMA BucketsSum ==
    ASSUME NEW docs, IsFiniteSet(docs), NEW start \in Int, NEW end \in Int,
           start..end \subseteq Times, \A d \in docs : d.time \in start..end,
           NEW zone \in Zones, NEW group, group.unit \in Units
    PROVE  LET sum == SumOf(ParseAnalytics(docs, start, end, zone, group))
           IN /\ zone \in Steady => sum <= Cardinality(docs)
              /\ Complete(zone, group, start) => sum = Cardinality(docs)
<1> DEFINE unit == PointUnit(group)
           P == Points(zone, unit, start, end)
           part == [p \in P |-> {d \in docs :
                      /\ d.time \in start..end
                      /\ PointUnit(group) = GroupUnit(group)
                      /\ Text(UTC, GroupUnit(group), d.time) = Text(zone, PointUnit(group), p)}]
           counts == ParseAnalytics(docs, start, end, zone, group)
           reached == {d \in docs : \E p \in P : d \in part[p]}
<1>1. IsFiniteSet(P)
  <2>1. P \subseteq start..end
    BY PointsClosed
  <2>2. IsFiniteSet(start..end)
    BY FS_Interval
  <2> QED
    BY <2>1, <2>2, FS_Subset
<1>2. part \in [P -> SUBSET docs]
  OBVIOUS
<1>3. DOMAIN counts = P /\ \A p \in P : counts[p] = Cardinality(part[p])
  BY DEF ParseAnalytics
<1>4. unit \in Units
  BY QueryAssumption DEF PointUnit
<1>5. ASSUME zone \in Steady PROVE \A p, q \in P : p # q => part[p] \cap part[q] = {}
  <2> SUFFICES ASSUME NEW p \in P, NEW q \in P, NEW d \in part[p] \cap part[q] PROVE p = q
    OBVIOUS
  <2>1. Text(zone, unit, p) = Text(zone, unit, q)
    OBVIOUS
  <2> HIDE DEF unit
  <2> QED
    BY <1>4, <1>5, <2>1, PointsApart
<1>6. ASSUME Complete(zone, group, start) PROVE reached = docs
  <2> SUFFICES ASSUME NEW d \in docs PROVE \E p \in P : d \in part[p]
    OBVIOUS
  <2>1. zone = UTC /\ unit = GroupUnit(group) /\ Begins(unit, start)
    BY <1>6 DEF Complete
  <2>2. \E p \in P : Text(UTC, unit, d.time) = Text(UTC, unit, p)
    <3> HIDE DEF unit
    <3> QED
      BY <1>4, <2>1, PointsReach
  <2> QED
    BY <2>1, <2>2
<1>7. zone = UTC => zone \in Steady
  BY QueryAssumption
<1>8. reached \subseteq docs /\ Cardinality(docs) \in Nat /\ Cardinality(reached) <= Cardinality(docs)
  <2>1. reached \subseteq docs
    OBVIOUS
  <2> HIDE DEF reached
  <2> QED
    BY <2>1, FS_Subset, FS_CardinalityType
<1> HIDE DEF counts, P, part
<1>9. zone \in Steady => SumOf(counts) = Cardinality(reached)
  BY <1>1, <1>2, <1>3, <1>5, SumOfParts DEF reached
<1> HIDE DEF reached
<1>10. Complete(zone, group, start) => zone \in Steady
  BY <1>7 DEF Complete
<1>11. /\ zone \in Steady => SumOf(counts) <= Cardinality(docs)
       /\ Complete(zone, group, start) => SumOf(counts) = Cardinality(docs)
  BY <1>6, <1>8, <1>9, <1>10
<1> QED
  BY <1>11 DEF counts

--------------------------------------------------------------------------------
\* The answers that are given at once.

\* What is asked once: no page comes after the answer.
AskedOnce == {"latest", "buckets", "buckets of"}

\* LatestIsLatest and BucketsAddUp, of one client.
LatestOk(c) ==
    LET events == {e \in since[c] : e.asset \in Asked(c).assets}
    IN Answered(c, {"latest"}) => ToSet(answer[c].docs) = {e \in events : IsLatest(e, events)}

BucketsOk(c) ==
    LET limited == Asked(c).route.answer = "buckets of"
        docs == {d \in IF limited THEN Limited(c, since[c]) ELSE since[c] : Matches(d, InRange(c))}
        sum == SumOf(answer[c].counts)
    IN Answered(c, {"buckets", "buckets of"}) =>
         /\ plan.zone \in Steady => sum <= Cardinality(docs)
         /\ Complete(plan.zone, Asked(c).group, Asked(c).start) => sum = Cardinality(docs)

\* What is asked once is asked without a cursor, and answered of what there was when it was read.
OnceOk(c) ==
    /\ Asked(c).route.answer \in AskedOnce => next[c] = None /\ ~answer[c].hasNext
    /\ pc[c] = "count" => Asked(c).route.answer \in OfOrganization
    /\ LatestOk(c) /\ BucketsOk(c)
OnceInv ==
    /\ DOMAIN next = Clients /\ DOMAIN since = Clients /\ DOMAIN addresses = Clients
    /\ \A c \in Clients : plan.asks[c] # None => OnceOk(c)

--------------------------------------------------------------------------------
\* Which collections such questions are about.
LEMMA OnceFacts ==
    ASSUME Shape, NEW c \in Clients, plan.asks[c] # None
    PROVE  /\ Asked(c).route.collection \in Collections
           /\ Asked(c).route.answer = "latest" => Asked(c).route.collection = "events"
           /\ Asked(c).start \in Int /\ Asked(c).end \in Int
           /\ Asked(c).route.answer \in {"buckets", "buckets of"} =>
                Asked(c).start..Asked(c).end \subseteq Times /\ Asked(c).group.unit \in Units
           /\ plan.zone \in Zones
<1> DEFINE route == Asked(c).route
<1>1. /\ route \in Routes /\ Asked(c).start \in Int /\ Asked(c).end \in Int
      /\ route.answer \in {"buckets", "buckets of"} =>
           Asked(c).start..Asked(c).end \subseteq Times /\ Asked(c).group.unit \in Units
      /\ plan.zone \in Zones
  BY ServingAssumption, AnalyticsAssumption DEF Shape, Asked
<1> HIDE DEF route
<1>2. route.answer = "latest" => route.collection = "events"
  <2> USE DEF Open, Gated
  <2>1. CASE route \in AccountRoutes \cup Account2Routes
    BY <2>1 DEF AccountRoutes, Account2Routes
  <2>2. CASE route \in OrganizationRoutes \cup Organization2Routes \cup RequestRoutes
    BY <2>2 DEF OrganizationRoutes, Organization2Routes, RequestRoutes
  <2>3. CASE route \in AssetRoutes \cup Asset2Routes \cup EventRoutes \cup Event2Routes
    BY <2>3 DEF AssetRoutes, Asset2Routes, EventRoutes, Event2Routes
  <2>4. CASE route \in BundleRoutes \cup Bundle2Routes
    BY <2>4 DEF BundleRoutes, Bundle2Routes
  <2>5. CASE route \in AnalyticsRoutes
    <3>1. PICK k \in {"assets", "events", "bundles", "accounts"} :
            route \in Gated(k, {}, {"count of", "range of", "buckets of"})
                      \cup Gated(k, {"super_account"}, {"count", "range", "buckets"})
      BY <2>5 DEF AnalyticsRoutes
    <3> QED
      BY <3>1
  <2> QED
    BY <1>1, <2>1, <2>2, <2>3, <2>4, <2>5 DEF Routes
<1> QED
  BY <1>1, <1>2, RouteFacts DEF route

\* The documents that are in range are at a time from start to end.
LEMMA RangedDocs ==
    ASSUME Shape, StoreInv, DocsInv, NEW c \in Clients, plan.asks[c] # None,
           NEW docs \in SUBSET Docs(c)
    PROVE  LET ranged == {d \in docs : Matches(d, InRange(c))}
           IN /\ IsFiniteSet(ranged)
              /\ \A d \in ranged : d.time \in Asked(c).start..Asked(c).end
<1> DEFINE k == Asked(c).route.collection
           ranged == {d \in docs : Matches(d, InRange(c))}
<1>1. k \in Collections /\ Asked(c).start \in Int /\ Asked(c).end \in Int
  BY OnceFacts
<1>2. IsFiniteSet(store[k]) /\ store[k] \subseteq Versions(k)
  BY <1>1 DEF StoreInv, Listable, DocsInv
<1>3. ranged \subseteq store[k]
  BY DEF Docs
<1>4. IsFiniteSet(ranged)
  BY <1>2, <1>3, FS_Subset
<1>5. ASSUME NEW d \in ranged PROVE d.time \in Asked(c).start..Asked(c).end
  <2>1. PICK x \in All(k) : /\ DOMAIN d = DOMAIN x
                            /\ \A field \in DOMAIN x : field # "active" => d[field] = x[field]
    BY <1>1, <1>2, <1>3, <1>5, VersionOf
  <2>2. /\ Condition("time", "$gte", Asked(c).start) \in InRange(c)
        /\ Condition("time", "$lte", Asked(c).end) \in InRange(c)
    BY DEF InRange
  <2>3. Matches(d, InRange(c))
    OBVIOUS
  <2>4. "time" \in DOMAIN d
    BY <2>2, <2>3 DEF Matches, Condition
  <2>5. Holds("$gte", d.time, {Asked(c).start}) /\ Holds("$lte", d.time, {Asked(c).end})
    BY <2>2, <2>3, <2>4 DEF Matches, Condition
  <2>6. d.time >= Asked(c).start /\ d.time <= Asked(c).end
    BY <2>5 DEF Holds
  <2>7. x.time \in Int
    BY <1>1, <2>1, <2>4, ServingAssumption
  <2>8. d.time = x.time
    BY <2>1, <2>4
  <2> QED
    BY <1>1, <2>6, <2>7, <2>8
<1> QED
  BY <1>4, <1>5

\* What an answer is to such a question.
LEMMA OnceReplied ==
    ASSUME Shape, OnceInv, NEW c \in Clients, plan.asks[c] # None,
           Asked(c).route.answer \in AskedOnce,
           NEW status, NEW docs, NEW hasNext, NEW counts, Reply(c, status, docs, hasNext, counts)
    PROVE  /\ pc'[c] = "answered" /\ answer'[c].status = status /\ answer'[c].docs = docs
           /\ answer'[c].hasNext = hasNext /\ answer'[c].counts = counts
           /\ since'[c] = Docs(c) /\ next'[c] = None
           /\ UNCHANGED <<plan, addresses>> /\ Asked(c)' = Asked(c)
<1>1. next[c] = None
  BY DEF OnceInv, OnceOk
<1> QED
  BY <1>1 DEF Reply, Continue, Shape, OnceInv, Asked

\* An error answers nothing.
LEMMA ThrownOnce ==
    ASSUME Shape, OnceInv, NEW c \in Clients, plan.asks[c] # None, NEW error, Throw(c, error),
           error \in {"ValidationError", "RepositoryError", "PermissionError", "NotFoundError", "TypeError"}
    PROVE  OnceOk(c)'
<1> DEFINE status == StatusOf[error]
           docs == << >>
           hasNext == FALSE
<1>1. status # 200
  BY DEF StatusOf
<1>2. Reply(c, status, docs, hasNext, << >>)
  BY DEF Throw
<1> HIDE DEF status, docs
<1>3. /\ answer'[c].status # 200 /\ ~answer'[c].hasNext /\ pc'[c] = "answered"
      /\ Asked(c)' = Asked(c) /\ next' = next
  BY <1>1, <1>2 DEF Reply, Shape, Asked, Continue
<1>4. Asked(c).route.answer \in AskedOnce => next[c] = None
  BY DEF OnceInv, OnceOk
<1> QED
  BY <1>3, <1>4 DEF OnceOk, LatestOk, BucketsOk, Answered

\* The latest that are found are the latest.
LEMMA ReadLatestOnce ==
    ASSUME Shape, StoreInv, OnceInv, NEW c \in Clients, plan.asks[c] # None, ReadLatest(c)
    PROVE  OnceOk(c)'
<1> DEFINE events == {e \in Docs(c) : e.asset \in Asked(c).assets}
           latest == {e \in events : IsLatest(e, events)}
<1>1. PICK natural \in SetToSeqs(events) :
        Reply(c, 200, SetToSeq(LatestOfEach(natural)), FALSE, << >>)
  BY DEF ReadLatest
<1>2. Asked(c).route.answer = "latest" /\ Asked(c).route.collection = "events"
  BY OnceFacts DEF ReadLatest, At
<1>3. Listable("time", events)
  <2>1. "events" \in Collections /\ PaginatedField["events"] = "time"
    BY DEF Collections, PaginatedField
  <2>2. Listable("time", store["events"])
    BY <2>1 DEF StoreInv
  <2>3. events \in SUBSET store["events"]
    BY <1>2 DEF Docs
  <2> HIDE DEF events
  <2> QED
    BY <2>2, <2>3, PartListable
<1>4. LatestOfEach(natural) = latest /\ IsFiniteSet(latest)
  <2>1. LatestOfEach(natural) = latest
    <3> HIDE DEF events
    <3> QED
      BY <1>3, LatestFacts
  <2>2. latest \subseteq events /\ IsFiniteSet(events)
    BY <1>3 DEF Listable
  <2> HIDE DEF latest, events
  <2> QED
    BY <2>1, <2>2, FS_Subset
<1> DEFINE docs == SetToSeq(LatestOfEach(natural))
<1>5. ToSet(docs) = latest
  <2> HIDE DEF latest
  <2> QED
    BY <1>4, SequenceOfSet
<1>6. Reply(c, 200, docs, FALSE, << >>)
  BY <1>1
<1> HIDE DEF docs
<1>7. /\ pc'[c] = "answered" /\ answer'[c].docs = docs
      /\ ~answer'[c].hasNext /\ since'[c] = Docs(c) /\ next'[c] = None
      /\ UNCHANGED <<plan, addresses>> /\ Asked(c)' = Asked(c)
  <2> DEFINE hasNext == FALSE
             counts == << >>
  <2>1. Reply(c, 200, docs, hasNext, counts) /\ Asked(c).route.answer \in AskedOnce
    BY <1>2, <1>6 DEF AskedOnce
  <2>2. hasNext = FALSE
    OBVIOUS
  <2> HIDE DEF hasNext, counts
  <2> QED
    BY <2>1, <2>2, OnceReplied
<1>8. LatestOk(c)'
  <2>1. {e \in since'[c] : e.asset \in Asked(c)'.assets} = events
    BY <1>7
  <2> HIDE DEF events
  <2>2. ToSet(answer'[c].docs) = {e \in events : IsLatest(e, events)}
    BY <1>5, <1>7
  <2> QED
    BY <2>1, <2>2 DEF LatestOk
<1>9. BucketsOk(c)'
  BY <1>2, <1>7 DEF BucketsOk, Answered
<1> QED
  BY <1>7, <1>8, <1>9 DEF OnceOk

\* The buckets add up.
LEMMA CountedOnce ==
    ASSUME Shape, StoreInv, DocsInv, OnceInv, NEW c \in Clients, plan.asks[c] # None,
           Count(c) \/ CountOfOrganization(c), Asked(c).route.answer \in {"buckets", "buckets of"}
    PROVE  OnceOk(c)'
<1> DEFINE docs == IF Asked(c).route.answer = "buckets of" THEN Limited(c, Docs(c)) ELSE Docs(c)
           ranged == {d \in docs : Matches(d, InRange(c))}
           counts == ParseAnalytics(ranged, Asked(c).start, Asked(c).end, plan.zone, Asked(c).group)
<1>1. docs \in SUBSET Docs(c)
  BY DEF Limited
<1>2. Reply(c, 200, << >>, FALSE, Counts(c, docs))
  <2>1. Count(c) => Asked(c).route.answer = "buckets"
    BY DEF Count, At
  <2>2. CountOfOrganization(c) => Asked(c).route.answer = "buckets of"
    BY DEF CountOfOrganization, OnceInv, OnceOk, OfOrganization
  <2> QED
    BY <2>1, <2>2 DEF Count, CountOfOrganization
<1> HIDE DEF docs
<1>3. Counts(c, docs) = counts
  BY DEF Counts
<1>4. /\ Asked(c).start \in Int /\ Asked(c).end \in Int
      /\ Asked(c).start..Asked(c).end \subseteq Times /\ Asked(c).group.unit \in Units
      /\ plan.zone \in Zones
  BY OnceFacts
<1>5. IsFiniteSet(ranged) /\ \A d \in ranged : d.time \in Asked(c).start..Asked(c).end
  BY <1>1, RangedDocs
<1>6. /\ plan.zone \in Steady => SumOf(counts) <= Cardinality(ranged)
      /\ Complete(plan.zone, Asked(c).group, Asked(c).start) =>
           SumOf(counts) = Cardinality(ranged)
  <2> HIDE DEF ranged
  <2> QED
    BY <1>4, <1>5, BucketsSum
<1> HIDE DEF counts, ranged
<1>7. /\ pc'[c] = "answered" /\ answer'[c].counts = counts
      /\ ~answer'[c].hasNext /\ since'[c] = Docs(c) /\ next'[c] = None
      /\ UNCHANGED <<plan, addresses>> /\ Asked(c)' = Asked(c)
  <2> DEFINE hasNext == FALSE
             none == << >>
  <2>1. Reply(c, 200, none, hasNext, counts) /\ Asked(c).route.answer \in AskedOnce
    BY <1>2, <1>3 DEF AskedOnce
  <2>2. hasNext = FALSE
    OBVIOUS
  <2> HIDE DEF hasNext, none
  <2>3. /\ pc'[c] = "answered" /\ answer'[c].status = 200 /\ answer'[c].docs = none
        /\ answer'[c].hasNext = hasNext /\ answer'[c].counts = counts
        /\ since'[c] = Docs(c) /\ next'[c] = None
        /\ UNCHANGED <<plan, addresses>> /\ Asked(c)' = Asked(c)
    BY <2>1, OnceReplied
  <2> QED
    BY <2>2, <2>3
<1>8. BucketsOk(c)'
  <2>1. (IF Asked(c)'.route.answer = "buckets of" THEN Limited(c, since[c])' ELSE since'[c]) = docs
    BY <1>7 DEF docs, Limited
  <2>2. InRange(c)' = InRange(c)
    BY <1>7 DEF InRange
  <2>3. {d \in docs : Matches(d, InRange(c)')} = ranged
    BY <2>2 DEF ranged
  <2>4. /\ plan'.zone \in Steady => SumOf(answer'[c].counts) <= Cardinality(ranged)
        /\ Complete(plan'.zone, Asked(c)'.group, Asked(c)'.start) =>
             SumOf(answer'[c].counts) = Cardinality(ranged)
    BY <1>6, <1>7
  <2> QED
    BY <2>1, <2>3, <2>4 DEF BucketsOk
<1>9. LatestOk(c)'
  BY <1>7 DEF LatestOk, Answered
<1> QED
  BY <1>7, <1>8, <1>9 DEF OnceOk

\* At the start nothing is answered.
LEMMA OnceStart == ServingInit => OnceInv
<1> SUFFICES ASSUME ServingInit, NEW c \in Clients PROVE OnceOk(c)
  BY DEF ServingInit, OnceInv
<1>1. pc[c] # "answered" /\ pc[c] # "count" /\ next[c] = None /\ ~answer[c].hasNext
  BY DEF ServingInit, NoAnswer
<1> QED
  BY <1>1 DEF OnceOk, LatestOk, BucketsOk, Answered

\* Every step keeps the answers right.
LEMMA OnceStep ==
    Shape /\ StoreInv /\ DocsInv /\ OnceInv /\ [ServingNext]_servingVars => OnceInv'
<1> SUFFICES ASSUME Shape, StoreInv, DocsInv, OnceInv, [ServingNext]_servingVars PROVE OnceInv'
  OBVIOUS
<1>1. ServingStep
  BY ServingSteps
<1>2. UNCHANGED plan
  BY <1>1, DocsStep
<1>3. /\ DOMAIN next = Clients /\ DOMAIN since = Clients /\ DOMAIN addresses = Clients
  BY DEF OnceInv
<1>4. DOMAIN next' = Clients /\ DOMAIN since' = Clients
  BY <1>1, <1>3 DEF ServingStep, Arrive, ReadAccount, ReadOrganization, AuthenticationFails,
        Learn, Authorize, Throw, Answers, Reply, Addresses, Follow, CreateEvent, Change, serving
<1>5. /\ DOMAIN addresses' = Clients
      /\ \A c, e \in Clients : Serve(c) \/ Follow(c) => c = e \/ addresses'[e] = addresses[e]
  <2>1. ASSUME NEW c \in Clients, ReadAddresses(c)
        PROVE  DOMAIN addresses' = Clients /\ \A e \in Clients \ {c} : addresses'[e] = addresses[e]
    BY <1>3, <2>1 DEF ReadAddresses, Throw, Reply
  <2>2. ASSUME NEW c \in Clients, \/ Arrive(c) \/ ReadAccount(c) \/ ReadOrganization(c)
                                  \/ AuthenticationFails(c) \/ Authorize(c) \/ Follow(c)
        PROVE  addresses' = addresses
    BY <2>2 DEF Arrive, ReadAccount, ReadOrganization, AuthenticationFails, Learn, Authorize, Throw,
          Reply, Follow
  <2>3. ASSUME NEW c \in Clients, ReadFails(c) \/ ReadPage(c) \/ ReadMembers(c)
        PROVE  addresses' = addresses
    BY <2>3 DEF ReadFails, ReadPage, ReadMembers, Throw, Reply
  <2>4. ASSUME NEW c \in Clients, ReadOne(c) \/ ReadLatest(c) \/ Count(c) \/ CountOfOrganization(c)
        PROVE  addresses' = addresses
    BY <2>4 DEF ReadOne, ReadLatest, Count, CountOfOrganization, Throw, Reply
  <2>5. ASSUME NEW c \in Clients, Serve(c) \/ Follow(c)
        PROVE  DOMAIN addresses' = Clients /\ \A e \in Clients \ {c} : addresses'[e] = addresses[e]
    BY <1>3, <2>1, <2>2, <2>3, <2>4, <2>5 DEF Serve
  <2>6. CASE CreateEvent \/ Change \/ Pass \/ Throttled \/ UNCHANGED servingVars
    <3>1. addresses' = addresses
      BY <2>6 DEF CreateEvent, Change, Pass, Throttled, serving, servingVars
    <3> QED
      BY <1>3, <2>5, <3>1
  <2> QED
    BY <2>5, <2>6 DEF ServingNext
<1> SUFFICES ASSUME NEW d \in Clients, plan.asks[d] # None PROVE OnceOk(d)'
  BY <1>2, <1>4, <1>5 DEF OnceInv
<1>6. OnceOk(d) /\ Asked(d)' = Asked(d)
  BY <1>2 DEF OnceInv, Asked
<1>7. ASSUME pc'[d] = pc[d], answer'[d] = answer[d], since'[d] = since[d], next'[d] = next[d],
             addresses'[d] = addresses[d]
      PROVE  OnceOk(d)'
  <2>1. LatestOk(d)'
    BY <1>6, <1>7 DEF OnceOk, LatestOk, Answered
  <2>2. /\ Limited(d, since[d])' = Limited(d, since[d]) /\ InRange(d)' = InRange(d)
        /\ Answered(d, {"buckets", "buckets of"})' <=> Answered(d, {"buckets", "buckets of"})
    BY <1>6, <1>7 DEF Limited, InRange, Answered
  <2>3. BucketsOk(d)'
    BY <1>2, <1>6, <1>7, <2>2 DEF OnceOk, BucketsOk, Complete, Begins
  <2> QED
    BY <1>6, <1>7, <2>1, <2>3 DEF OnceOk
<1>8. ASSUME pc'[d] # "answered", pc'[d] # "count", next'[d] = next[d], answer'[d] = answer[d]
      PROVE  OnceOk(d)'
  BY <1>6, <1>8 DEF OnceOk, LatestOk, BucketsOk, Answered
<1>9. ASSUME Arrive(d) \/ ReadAccount(d) \/ ReadOrganization(d) \/ AuthenticationFails(d)
      PROVE  OnceOk(d)'
  <2>1. next' = next /\ answer' = answer /\ pc'[d] \notin {"answered", "count"}
    BY <1>9 DEF Shape, Arrive, ReadAccount, ReadOrganization, AuthenticationFails, Learn, Continue
  <2> QED
    BY <1>8, <2>1
<1>10. ASSUME Authorize(d) PROVE OnceOk(d)'
  <2>1. CASE Throw(d, "PermissionError")
    BY <2>1, ThrownOnce
  <2>2. CASE Continue(d, "read") /\ UNCHANGED <<next, answer>>
    BY <1>8, <2>2 DEF Continue, Shape
  <2> QED
    BY <1>10, <2>1, <2>2 DEF Authorize
<1>11. ASSUME ReadFails(d) PROVE OnceOk(d)'
  BY <1>11, ThrownOnce DEF ReadFails
<1>12. ASSUME ReadPage(d) \/ ReadMembers(d) \/ ReadOne(d) PROVE OnceOk(d)'
  <2>1. Asked(d).route.answer \notin AskedOnce /\ pc[d] = "read"
    BY <1>12 DEF ReadPage, ReadMembers, ReadOne, At, AskedOnce
  <2>2. pc'[d] = "answered"
    BY <1>12 DEF ReadPage, ReadMembers, ReadOne, Throw, Reply, Continue, Shape
  <2> QED
    BY <1>6, <2>1, <2>2 DEF OnceOk, LatestOk, BucketsOk, Answered, AskedOnce
<1>13. ASSUME ReadLatest(d) PROVE OnceOk(d)'
  BY <1>13, ReadLatestOnce
<1>14. ASSUME Count(d) \/ CountOfOrganization(d) PROVE OnceOk(d)'
  <2>1. CASE Asked(d).route.answer \in {"buckets", "buckets of"}
    BY <1>14, <2>1, CountedOnce
  <2>2. CASE Asked(d).route.answer \notin {"buckets", "buckets of"}
    <3>1. Asked(d).route.answer \notin AskedOnce
      BY <1>6, <1>14, <2>2 DEF Count, CountOfOrganization, At, AskedOnce, OnceOk, OfOrganization
    <3>2. pc'[d] = "answered"
      BY <1>14 DEF Count, CountOfOrganization, Reply, Continue, Shape
    <3> QED
      BY <1>6, <3>1, <3>2 DEF OnceOk, LatestOk, BucketsOk, Answered, AskedOnce
  <2> QED
    BY <2>1, <2>2
<1>15. ASSUME ReadAddresses(d) PROVE OnceOk(d)'
  <2>1. CASE Throw(d, "PermissionError") \/ Throw(d, "TypeError")
    BY <2>1, ThrownOnce
  <2>2. CASE Continue(d, "count") /\ UNCHANGED <<next, answer>>
    <3>1. pc'[d] = "count" /\ Asked(d).route.answer \in OfOrganization
      BY <1>15, <2>2 DEF ReadAddresses, At, Continue, Shape
    <3> QED
      BY <1>6, <2>2, <3>1 DEF OnceOk, LatestOk, BucketsOk, Answered
  <2> QED
    BY <1>15, <2>1, <2>2 DEF ReadAddresses
<1>16. ASSUME Follow(d) PROVE OnceOk(d)'
  <2>1. Asked(d).route.answer \notin AskedOnce
    BY <1>6, <1>16 DEF Follow, OnceOk
  <2>2. pc'[d] = "arrive"
    BY <1>16 DEF Follow, Continue, Shape
  <2> QED
    BY <1>6, <2>1, <2>2 DEF OnceOk, LatestOk, BucketsOk, Answered
<1>17. ASSUME NEW c \in Clients, c # d, Serve(c) \/ Follow(c) PROVE OnceOk(d)'
  <2> DEFINE same == /\ pc'[d] = pc[d] /\ answer'[d] = answer[d]
                     /\ since'[d] = since[d] /\ next'[d] = next[d]
  <2>1. ASSUME Arrive(c) \/ ReadAccount(c) \/ ReadOrganization(c) \/ AuthenticationFails(c) PROVE same
    BY <1>17, <2>1 DEF Shape, Arrive, ReadAccount, ReadOrganization, AuthenticationFails, Learn, Continue
  <2>2. ASSUME Authorize(c) \/ Answers(c) \/ Addresses(c) \/ Follow(c) PROVE same
    BY <1>3, <1>17, <2>2 DEF Authorize, Throw, Answers, Reply, Addresses, Follow, Continue, Shape
  <2>3. same
    <3> HIDE DEF same
    <3> QED
      BY <1>17, <2>1, <2>2, RequestSteps DEF Serve
  <2>4. addresses'[d] = addresses[d]
    BY <1>5, <1>17
  <2> QED
    BY <1>7, <2>3, <2>4
<1>18. CASE CreateEvent \/ Change \/ Pass \/ Throttled \/ UNCHANGED servingVars
  <2>1. UNCHANGED <<pc, answer, since, next, addresses>>
    BY <1>18 DEF CreateEvent, Change, Pass, Throttled, serving, servingVars
  <2> QED
    BY <1>7, <2>1
<1> QED
  BY <1>9, <1>10, <1>11, <1>12, <1>13, <1>14, <1>15, <1>16, <1>17, <1>18 DEF ServingNext, Serve

\* What is asked once is answered right.
THEOREM OnceKept == ServingSpec => []OnceInv
<1>1. ServingInit => DocsInv /\ OnceInv
  BY DocsStart, OnceStart
<1>2. Shape /\ DocsInv /\ [ServingNext]_servingVars => DocsInv'
  BY ServingSteps, DocsStep
<1> QED
  BY <1>1, <1>2, OnceStep, UsersKnown, StoreKept, PTL DEF ServingSpec

\* The latest events are the latest that there were, one for each asset that had any, in
\* whatever order the database has them, and though events come in while they are read.
THEOREM LatestHolds == ServingSpec => []LatestIsLatest
<1>1. Shape /\ UserInv /\ OnceInv => LatestIsLatest
  <2> SUFFICES ASSUME UserInv, OnceInv, NEW c \in Clients, Answered(c, {"latest"})
               PROVE  LatestOk(c)
    BY DEF LatestIsLatest, LatestOk
  <2>1. plan.asks[c] # None
    BY DEF UserInv, UserOk, Answered, AtWork, Asked
  <2> QED
    BY <2>1 DEF OnceInv, OnceOk
<1> QED
  BY <1>1, UsersKnown, OnceKept, PTL

\* No document is counted twice by a server whose clocks are never changed; and by one
\* that runs in UTC, for a group in lower case and a range that begins with a unit of it,
\* each is counted.
THEOREM BucketsHold == ServingSpec => []BucketsAddUp
<1>1. Shape /\ UserInv /\ OnceInv => BucketsAddUp
  <2> SUFFICES ASSUME UserInv, OnceInv, NEW c \in Clients, Answered(c, {"buckets", "buckets of"})
               PROVE  BucketsOk(c)
    BY DEF BucketsAddUp, BucketsOk
  <2>1. plan.asks[c] # None
    BY DEF UserInv, UserOk, Answered, AtWork, Asked
  <2> QED
    BY <2>1 DEF OnceInv, OnceOk
<1> QED
  BY <1>1, UsersKnown, OnceKept, PTL
================================================================================
