CONSTANTS
    Handlers = {h1, h2}
    Address <- Addresses
    Name <- Names
    Email <- Emails
    None = None
    Inputs <- DetailInputs
    InitAccounts <- SeedAccounts
    InitDetails <- SeedDetails
    ActiveOrganizations <- Organizations
    boss = boss
    manager = manager
    worker = worker
    other = other
    builtIn = builtIn
    oldName = oldName
    newName = newName
    otherName = otherName
    bossEmail = bossEmail
    workerEmail = workerEmail
    newEmail = newEmail
SPECIFICATION Spec
INVARIANT UpdateIsReturned
CHECK_DEADLOCK FALSE
