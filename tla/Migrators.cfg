SPECIFICATION FairSpec
CONSTANTS
    Servers = {s1, s2, s3}
    N = 2
    Crashes = TRUE
CHECK_DEADLOCK FALSE
INVARIANTS
    TypeOK
    VersionIsHonest
    NothingSkipped
    ExclusiveUntilRecorded
PROPERTIES
    KeepsContract
    EveryServerEnds
