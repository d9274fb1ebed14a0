CONSTANTS
    r1 = r1
    r2 = r2
    r3 = r3
    Requests = {r1, r2, r3}
    Mail = {m1, m2}
    None = None
    Absent = Absent
    Broken = Broken
    MaxBoots = 3
    InitFile = Absent
    InitAccounts = {}
    accountRepository = accountRepository
    grid = grid
    Repositories = {accountRepository, grid, others}
    Plans <- BootPlans
SPECIFICATION BootSpec
CHECK_DEADLOCK FALSE
INVARIANTS AccountKeyStored HeardOnce FlagTells
PROPERTIES KeyKept CheckEnds
