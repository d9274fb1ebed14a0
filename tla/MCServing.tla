------------------------------ MODULE MCServing ------------------------------
(***************************************************************************)
(* A node with three organizations and a handful of documents; two clients *)
(* that each ask one thing, or a test node with two petitioners.           *)
(***************************************************************************)
EXTENDS Serving

CONSTANTS root, zoe, ann, bob, eve, carl, c1, c2, Oslo, Kabul

\* A short calendar: an hour is one time, a day two, and a month one day or two.  In Kabul
\* it is always an hour later than in UTC, in Oslo only until the clocks are put back.
Clock(zone, t) == CASE zone = UTC -> t
                    [] zone = Kabul -> t + 1
                    [] zone = Oslo -> IF t < 3 THEN t + 1 ELSE t
Number(unit, clock) == CASE unit = "hour" -> clock
                         [] unit = "day" -> clock \div 2
                         [] unit = "month" -> 2 * (clock \div 6) + IF clock % 6 < 4 THEN 0 ELSE 1
                         [] unit = "year" -> clock \div 6
Length(unit, clock) == CASE unit = "hour" -> 1
                         [] unit = "day" -> 2
                         [] unit = "month" -> IF clock % 6 < 2 THEN 4 ELSE 2
                         [] unit = "year" -> 6
TextIn(zone, unit, t) == Number(unit, Clock(zone, t))
\* An hour later is an hour later; a day later the clock shows the same.
AfterIn(zone, unit, t) ==
    LET shown == Clock(zone, t) + Length(unit, Clock(zone, t))
    IN IF unit = "hour" THEN t + 1 ELSE CHOOSE s \in t + 1 .. t + 8 : Clock(zone, s) = shown

Account(id, address, organization, level, perms) ==
    [id |-> id, address |-> address, organization |-> organization, accessLevel |-> level,
     perms |-> perms, active |-> TRUE]
Organization(id, createdOn) ==
    [id |-> id, organizationId |-> id, createdOn |-> createdOn, active |-> TRUE]
Event(id, time, asset, by, level) ==
    [id |-> id, time |-> time, asset |-> asset, by |-> by, accessLevel |-> level]

SeedStore ==
    [accounts |->
        {Account(1, root, 0, 1000, {"super_account", "manage_accounts"}),
         Account(2, zoe, 0, 900, {"manage_accounts"}),
         Account(3, ann, 9, 900, {"manage_accounts"}), Account(4, bob, 9, 1, {}),
         Account(5, eve, 9, 950, {}), Account(6, carl, 18, 1, {})},
     organization |-> {Organization(9, 1), Organization(18, 1)},
     requests |-> {[id |-> 1, address |-> eve, refused |-> TRUE], [id |-> 2, address |-> carl]},
     assets |-> {[id |-> 1, time |-> 1, by |-> ann], [id |-> 2, time |-> 1, by |-> bob]},
     events |-> {Event(1, 1, 1, ann, 0), Event(2, 2, 1, bob, 500), Event(3, 2, 2, carl, 0),
                 Event(4, 3, 2, ann, 0)},
     bundles |-> {[id |-> 1], [id |-> 2]}]

\* Events come with the timestamp their creator gives them, and an _id that the
\* database gives them.
SeedArriving == {Event(5, 2, 1, bob, 0), Event(6, 4, 2, ann, 0)}

One(field, operator, v) ==
    [field |-> field, operator |-> operator, value |-> {v}, array |-> FALSE]
Several(field, operator, values) ==
    [field |-> field, operator |-> operator, value |-> values, array |-> TRUE]
Range2(field, low, high) ==
    [field |-> field, operator |-> "inrange", array |-> FALSE,
     value |-> {[operator |-> "greater-than", value |-> {low}],
                [operator |-> "less-than-equal", value |-> {high}]}]

Token(who) == [by |-> who, validUntil |-> 1]
Ask(routes, kind, token) ==
    [route |-> CHOOSE r \in routes : r.answer = kind, token |-> token, query |-> << >>,
     params |-> << >>, limit |-> None, id |-> None, assets |-> {}, start |-> 0, end |-> 0,
     group |-> [unit |-> "day", lower |-> TRUE]]
Query0(routes, token, q, limit) ==
    [Ask(routes, "page", token) EXCEPT !.query = q, !.limit = limit]
Of(routes, kind, token, id) == [Ask(routes, kind, token) EXCEPT !.id = id]
Ranged(kind, token, id, start, end) ==
    [Ask({r \in AnalyticsRoutes : r.collection = "events"}, kind, token)
        EXCEPT !.id = id, !.start = start, !.end = end]
Buckets(ask, unit, lower) == [ask EXCEPT !.group = [unit |-> unit, lower |-> lower]]

\* Events: filtered listings, by parameters, one event, the latest.
EventAsks ==
    {Query0(Event2Routes, None, << >>, 1),
     Query0(EventRoutes, None, <<One("time", "greater-than-equal", 2), One("time", "not-equal", 3)>>, 2),
     Query0(EventRoutes, Token(bob), <<Range2("time", 0, 2), One("accessLevel", "equal", 500)>>, 1),
     Query0(EventRoutes, None, <<Several("id", "equal", {1, 3, 5}), Several("asset", "not-equal", {2})>>, 50),
     Query0(EventRoutes, None, <<One("time", "less-than", 3), One("time", "less-than", 2)>>, None),
     Query0(EventRoutes, None, <<[Range2("time", 0, 2) EXCEPT !.value = {}]>>, None),
     Query0(EventRoutes, None, <<One("time", "between", 1)>>, None),
     Query0(EventRoutes, None, <<[field |-> "time", operator |-> "equal"]>>, None),
     [Ask(Event2Routes, "list", None) EXCEPT !.params = "asset" :> 1],
     Of(Event2Routes, "opened", None, 5), Of(EventRoutes, "one", None, 5),
     Of(EventRoutes, "exists", None, 1),
     [Ask(Event2Routes, "latest", Token(bob)) EXCEPT !.assets = {1, 2}]}

\* Accounts, organizations and requests, by users with and without permissions.
UserAsks ==
    {Query0(AccountRoutes, Token(root), <<One("accessLevel", "greater-than", 900)>>, 1),
     Query0(Account2Routes, Token(ann), <<One("accessLevel", "greater-than", 900)>>, 1),
     Query0(Account2Routes, Token(ann), <<One("organization", "equal", 18)>>, 1),
     Query0(Account2Routes, Token(zoe), << >>, None),
     Of(AccountRoutes, "account", Token(ann), eve), Of(AccountRoutes, "account", Token(bob), bob),
     Of(Account2Routes, "account2", Token(ann), carl), Of(AccountRoutes, "exists", None, eve),
     Of(OrganizationRoutes, "members", Token(ann), 9), Of(OrganizationRoutes, "members", Token(root), 0),
     Of(OrganizationRoutes, "organization", Token(bob), 9), Of(Organization2Routes, "organization", Token(root), 0),
     Query0(OrganizationRoutes, Token(root), << >>, -1),
     Query0(RequestRoutes, Token(root), <<One("refused", "equal", TRUE)>>, None),
     Ask(RequestRoutes, "refused", Token(root)), Of(RequestRoutes, "request", Token(ann), carl),
     Query0(BundleRoutes, Token(carl), << >>, 1), Of(Bundle2Routes, "exists", Token(bob), 3),
     Query0(Asset2Routes, None, << >>, 1)}

AnalyticsAsks ==
    {Ranged("range of", Token(zoe), 9, 0, 4), Ranged("count of", Token(ann), 18, 0, 0),
     Ranged("range", Token(root), None, 1, 2), Ranged("count", Token(bob), None, 0, 0),
     Ranged("count of", Token(bob), 9, 0, 0)}
\* Hour or HOUR, a range that begins a day or a month, or does not.
BucketAsks ==
    {Buckets(Ranged("buckets of", Token(ann), 9, 0, 5), "day", TRUE),
     Buckets(Ranged("buckets of", Token(root), 9, 1, 3), "day", FALSE),
     Buckets(Ranged("buckets", Token(root), None, 2, 4), "hour", TRUE),
     Buckets(Ranged("buckets", Token(root), None, 0, 2), "hour", FALSE),
     Buckets(Ranged("buckets", Token(root), None, 0, 5), "month", TRUE),
     Buckets(Ranged("buckets", Token(root), None, 3, 5), "month", TRUE),
     Buckets(Ranged("buckets of", Token(root), 9, 1, 4), "year", TRUE)}

Plan(a, b, events, who, time, petitions) ==
    [asks |-> c1 :> a @@ c2 :> b, events |-> events, changes |-> who, time |-> time,
     petitions |-> petitions, zone |-> UTC]
ServingPlans ==
    {Plan(a, None, TRUE, {}, 0, FALSE) : a \in EventAsks \cup AnalyticsAsks}
    \cup {[Plan(a, None, TRUE, {}, 0, FALSE) EXCEPT !.zone = z] :
            a \in BucketAsks, z \in {UTC, Kabul, Oslo}}
    \cup {Plan(a, None, FALSE, who, 2, FALSE) : a \in UserAsks, who \in {{}, {ann, 9}, {bob}}}
    \cup {Plan(Ask(Event2Routes, "opened", None), b, TRUE, {ann, 9}, 2, FALSE) :
            b \in {Query0(Account2Routes, Token(ann), << >>, 2), Ranged("buckets of", Token(ann), 9, 0, 5)}}
    \cup {Plan(None, None, FALSE, {}, MaxNow, TRUE)}

Intervals == [organization |-> 2, account |-> 1]

\* What the listings that are asked for here are like.
ASSUME ListingAssumption == Expressible /\ Remembered
===============================================================================
