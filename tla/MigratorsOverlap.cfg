SPECIFICATION Spec
CONSTANTS
    Servers = {s1, s2}
    N = 2
    Crashes = FALSE
CHECK_DEADLOCK FALSE
INVARIANTS
    OneMigratorAtATime
