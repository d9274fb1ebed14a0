SPECIFICATION ServingSpec
CONSTANTS
    None = None
    NoRecord = NoRecord
    root = root
    zoe = zoe
    ann = ann
    bob = bob
    eve = eve
    carl = carl
    c1 = c1
    c2 = c2
    Clients = {c1, c2}
    Petitioners = {c1, c2}
    Plans <- ServingPlans
    Store <- SeedStore
    Arriving <- SeedArriving
    MaxChanges = 2
    MaxListed = 6
    Interval <- Intervals
    MaxNow = 4
    MaxGranted = 3
    DefaultLimit = 2
    MaxLimit = 3
    UTC = UTC
    Oslo = Oslo
    Kabul = Kabul
    Units = {"hour", "day", "month", "year"}
    Times = {0, 1, 2, 3, 4, 5, 6, 7, 8}
    Zones = {UTC, Oslo, Kabul}
    Steady = {UTC, Kabul}
    Text <- TextIn
    After <- AfterIn
CHECK_DEADLOCK FALSE
INVARIANTS
    ServedWhileActive
    ListingIsComplete
    AccountsInScope
    LatestIsLatest
    BucketsAddUp
    PaceKept
PROPERTIES
    EveryListingEnds
