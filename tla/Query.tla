--------------------------------- MODULE Query ---------------------------------
(***************************************************************************)
(* What the node makes of a question: filters (src/util/mongo.util.ts,     *)
(* src/model/query/api-query.model.ts), pages of a listing                 *)
(* (src/database/repository/base.repository.ts), the latest event of each  *)
(* asset (src/service/event.service.ts) and the buckets of the analytics   *)
(* (src/service/analytics.service.ts, src/util/datetime.util.ts).  Beside  *)
(* each algorithm stands what it is for, defined independently.            *)
(*                                                                         *)
(* A document is a record that may lack a field.  The value of a filter is *)
(* a set: what a list lists, the names a pattern fits, or one element.     *)
(***************************************************************************)
EXTENDS SequencesExt

CONSTANTS DefaultLimit, MaxLimit,   \* paginationDefault, paginationMax
          None,
          Units,            \* what a bucket is: an hour, a day, a month or a year
          Times,            \* the times that the analytics may be about
          Zones,            \* where a server may run
          Steady,           \* the zones whose clocks are never changed
          UTC,              \* the zone of the database
          Text(_, _, _),    \* a time in a zone, formatted to the unit: its number
          After(_, _, _)    \* the time that is one unit later by the zone's calendar

\* A time that begins a unit in UTC.
Begins(unit, t) == Text(UTC, unit, t - 1) # Text(UTC, unit, t)

\* Where clocks are never changed, the texts go on with time, and a unit later stands the
\* next one; in UTC, a unit after the beginning of one the next begins.
ASSUME QueryAssumption ==
    /\ DefaultLimit \in 1..MaxLimit /\ MaxLimit \in Nat
    /\ Times \subseteq Int /\ UTC \in Steady /\ Steady \subseteq Zones /\ "day" \in Units
    /\ \A z \in Zones, u \in Units, t \in Times :
         Text(z, u, t) \in Int /\ After(z, u, t) \in Int /\ t < After(z, u, t)
    /\ \A z \in Steady, u \in Units, t \in Times :
         /\ \A s \in Times : s <= t => Text(z, u, s) <= Text(z, u, t)
         /\ After(z, u, t) \in Times => Text(z, u, After(z, u, t)) = Text(z, u, t) + 1
    /\ \A u \in Units, t \in Times :
         Begins(u, t) =>
           /\ \A s \in Times : t <= s /\ s < After(UTC, u, t) => Text(UTC, u, s) = Text(UTC, u, t)
           /\ After(UTC, u, t) \in Times => Begins(u, After(UTC, u, t))

--------------------------------------------------------------------------------
\* Filters.

Comparisons == {"greater-than", "greater-than-equal", "less-than", "less-than-equal"}
Operators == {"equal", "not-equal", "equal-array", "not-equal-array", "inrange",
              "startsWith", "contains"} \cup Comparisons

MatchMongoOperator == [name \in Operators |->
    CASE name = "equal" -> "$eq"              [] name = "not-equal" -> "$ne"
      [] name = "equal-array" -> "$in"        [] name = "not-equal-array" -> "$nin"
      [] name = "greater-than" -> "$gt"       [] name = "greater-than-equal" -> "$gte"
      [] name = "less-than" -> "$lt"          [] name = "less-than-equal" -> "$lte"
      [] name = "inrange" -> "$range"         [] name \in {"startsWith", "contains"} -> "$regex"]

\* The property that a condition gets when there is no operator for it.
OperatorOf(name) ==
    IF name \in Operators THEN MatchMongoOperator[name] ELSE "undefined"

ValidateOperators(q) ==
    \A i \in DOMAIN q : /\ {"field", "operator", "value"} \subseteq DOMAIN q[i]
                        /\ q[i].operator \in Operators

\* What one filter writes into the query.  A range has its two bounds as value.
Writes(f) ==
    LET write(name, value) == [field |-> f.field, op |-> OperatorOf(name), value |-> value]
    IN IF f.operator = "inrange"
       THEN {write(b.operator, b.value) : b \in f.value}
            \cup IF Cardinality(f.value) < 2 THEN {write("none", {})} ELSE {}
       ELSE IF f.array /\ f.operator \in {"equal", "not-equal"}
       THEN {write(IF f.operator = "equal" THEN "equal-array" ELSE "not-equal-array", f.value)}
       ELSE {write(f.operator, f.value)}

SameProperty(v, w) == v.field = w.field /\ v.op = w.op

\* Variant: a filter replaces what earlier filters on its field wrote.
GetMongoFilterPerField(q) ==
    {w \in UNION {Writes(q[i]) : i \in DOMAIN q} :
        \E i \in DOMAIN q : w \in Writes(q[i]) /\ \A j \in DOMAIN q : j > i => q[j].field # w.field}

\* A later filter replaces what an earlier one wrote into the same property.
GetMongoFilter(q) ==
    {w \in UNION {Writes(q[i]) : i \in DOMAIN q} :
        \E i \in DOMAIN q :
            /\ w \in Writes(q[i])
            /\ \A j \in DOMAIN q : j > i => \A v \in Writes(q[j]) : ~SameProperty(v, w)}

\* fromRequest2: every parameter of the request is a filter on the field of its name
\* in content.idData, limit and next among them; only organizationId is the event's own.
FromParams(params) ==
    {[field |-> p, op |-> "$eq", value |-> {params[p]}] : p \in DOMAIN params}

\* Variant: the filters of the request come last.
OverrideNothing(conditions, own) ==
    conditions \cup {c \in own : \A d \in conditions : d.field # c.field}

\* { ...conditions, ...own }: a field of the second replaces that of the first.
Override(conditions, own) ==
    own \cup {c \in conditions : \A d \in own : d.field # c.field}

\* The database.
Accepted(conditions) == \A c \in conditions : c.op \notin {"undefined", "$range"}

Holds(op, v, value) ==
    CASE op \in {"$eq", "$in", "$regex"} -> v \in value
      [] op \in {"$ne", "$nin"}          -> v \notin value
      [] op = "$gt"  -> \A x \in value : v > x
      [] op = "$gte" -> \A x \in value : v >= x
      [] op = "$lt"  -> \A x \in value : v < x
      [] op = "$lte" -> \A x \in value : v <= x

Matches(d, conditions) ==
    \A c \in conditions :
        IF c.field \in DOMAIN d THEN Holds(c.op, d[c.field], c.value) ELSE c.op \in {"$ne", "$nin"}

\* What a filter is meant to say of a document that has the field; one without it is
\* told only by what it is not.
Says(operator, v, value) ==
    CASE operator \in {"equal", "equal-array", "startsWith", "contains"} -> v \in value
      [] operator \in {"not-equal", "not-equal-array"} -> v \notin value
      [] operator = "greater-than"       -> \E x \in value : v > x
      [] operator = "greater-than-equal" -> \E x \in value : v >= x
      [] operator = "less-than"          -> \E x \in value : v < x
      [] operator = "less-than-equal"    -> \E x \in value : v <= x

Means(f, d) ==
    IF f.field \notin DOMAIN d THEN f.operator \in {"not-equal", "not-equal-array"}
    ELSE IF f.operator = "inrange" THEN \A b \in f.value : Says(b.operator, d[f.field], b.value)
    ELSE Says(f.operator, d[f.field], f.value)

\* What the filters are meant to say together with the scope of the user, which stands in
\* for those on its fields.
AskedFor(q, scope, d) ==
    /\ Matches(d, scope)
    /\ \A i \in DOMAIN q : Means(q[i], d) \/ \E s \in scope : s.field = q[i].field

\* A filter that says something: a comparison is with one value, and the bounds of a
\* range, unless it lacks one and is refused, are comparisons.
OneValue(value) == \E x \in value : value = {x}
WellFormed(f) ==
    /\ f.operator \in Comparisons => OneValue(f.value)
    /\ f.operator = "inrange" =>
         \/ Cardinality(f.value) < 2
         \/ \A b \in f.value : b.operator \in Comparisons /\ OneValue(b.value)

\* Two filters that write the same property: only the later one counts.
Compete(q) ==
    \E i, j \in DOMAIN q :
        i < j /\ \E v \in Writes(q[i]), w \in Writes(q[j]) : SameProperty(v, w)

--------------------------------------------------------------------------------
\* Pages (the library mongo-cursor-pagination, as findWithPagination uses it).

\* Newest first, the identifier breaks ties.
Earlier(field, d, e) ==
    d[field] > e[field] \/ (d[field] = e[field] /\ d.id > e.id)

\* The documents of a listing: each has an identifier of its own, and the field that they
\* are ordered by.
Listable(field, docs) ==
    /\ IsFiniteSet(docs)
    /\ \A d \in docs : d.id \in Int /\ d[field] \in Int
    /\ \A d, e \in docs : d.id = e.id => d = e

\* limit is None when it is absent, zero or not a number; a negative one is taken for 1.
LimitOf(limit) ==
    IF limit = None THEN DefaultLimit
    ELSE IF limit < 1 THEN 1 ELSE IF limit > MaxLimit THEN MaxLimit ELSE limit

\* The documents in their order: the n-th is the one that n - 1 come before.
Sorted(field, docs) ==
    LET rank(d) == Cardinality({e \in docs : Earlier(field, e, d)})
    IN [n \in 1..Cardinality(docs) |-> CHOOSE d \in docs : rank(d) = n - 1]

\* Variant: the cursor is not passed on.
PageFromTheTop(docs, field, limit, next) ==
    LET sorted == Sorted(field, docs)
        size == LimitOf(limit)
    IN [results |-> SubSeq(sorted, 1, IF Len(sorted) < size THEN Len(sorted) ELSE size),
        hasNext |-> Len(sorted) > size]

\* The cursor next is the last document of the page before.
FindPage(docs, field, limit, next) ==
    LET sorted == Sorted(field, {d \in docs : next = None \/ Earlier(field, next, d)})
        size == LimitOf(limit)
    IN [results |-> SubSeq(sorted, 1, IF Len(sorted) < size THEN Len(sorted) ELSE size),
        hasNext |-> Len(sorted) > size]

--------------------------------------------------------------------------------
\* The latest event of each asset, from the events in the order the database has them.

\* Variant: of two events with one timestamp, the one that is met last.
TakesMetLast(seen, e) ==
    \/ e.asset \notin DOMAIN seen
    \/ seen[e.asset].time <= e.time

Takes(seen, e) ==
    \/ e.asset \notin DOMAIN seen
    \/ seen[e.asset].time = e.time /\ seen[e.asset].id < e.id
    \/ seen[e.asset].time < e.time

LatestOfEach(natural) ==
    LET meet(seen, e) ==
            IF Takes(seen, e)
            THEN [a \in DOMAIN seen \cup {e.asset} |-> IF a = e.asset THEN e ELSE seen[a]]
            ELSE seen
        last == FoldLeft(meet, << >>, natural)
    IN {last[a] : a \in DOMAIN last}

IsLatest(e, events) ==
    \A f \in events : f.asset = e.asset /\ f # e => Earlier("time", e, f)

--------------------------------------------------------------------------------
\* Analytics: how many documents fall into each bucket.  A group is a unit, spelled in
\* lower case or not; whatever names no unit stands for the day.

\* timeSeriesGroupFromString lower-cases the group, parseAnalytics does not.
GroupUnit(group) == group.unit
PointUnit(group) == IF group.lower THEN group.unit ELSE "day"

\* The sets of times that have the first point, and with each the next.
Closed(zone, unit, start, end) ==
    {S \in SUBSET (start..end) :
        /\ start <= end => start \in S
        /\ \A p \in S : After(zone, unit, p) <= end => After(zone, unit, p) \in S}

\* Variant: the last point is left out.
PointsBefore(zone, unit, start, end) ==
    {p \in start..end : p < end /\ \A S \in Closed(zone, unit, start, end) : p \in S}

\* A point for every unit by the server's calendar from start on, up to end: the least
\* such set.
Points(zone, unit, start, end) ==
    {p \in start..end : \A S \in Closed(zone, unit, start, end) : p \in S}

\* The database groups the documents from start to end by their text in UTC, and each
\* point takes the group with the text that the server gives it, if there is one: texts
\* of two units differ.
ParseAnalytics(docs, start, end, zone, group) ==
    [p \in Points(zone, PointUnit(group), start, end) |->
        Cardinality({d \in docs :
            /\ d.time \in start..end
            /\ PointUnit(group) = GroupUnit(group)
            /\ Text(UTC, GroupUnit(group), d.time) = Text(zone, PointUnit(group), p)})]
================================================================================
