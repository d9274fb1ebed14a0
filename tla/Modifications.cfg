CONSTANTS
    Handlers = {h1, h2}
    Address <- Addresses
    Name <- Names
    Email <- Emails
    None = None
    Inputs <- AllInputs
    InitAccounts <- SeedAccounts
    InitDetails <- SeedDetails
    ActiveOrganizations <- Organizations
    boss = boss
    manager = manager
    worker = worker
    other = other
    builtIn = builtIn
    oldName = oldName
    newName = newName
    otherName = otherName
    bossEmail = bossEmail
    workerEmail = workerEmail
    newEmail = newEmail
SPECIFICATION Spec
INVARIANTS TypeOK LevelsGrantedFromAbove SuperFromWithin
PROPERTY DetailWrittenFromWithin
CHECK_DEADLOCK FALSE
