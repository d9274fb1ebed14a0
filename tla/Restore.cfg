SPECIFICATION NodeSpec
CONSTANTS
    BuiltIn = BuiltIn
    owner = owner
    ann = ann
    bob = bob
    ownerEmail = ownerEmail
    annEmail = annEmail
    bobEmail = bobEmail
    acme = acme
    other = other
    BuiltInTitle = BuiltInTitle
    None = None
    seed0 = seed0
    seed9 = seed9
    Handlers = {h1, h2, h3}
    h1 = h1
    h2 = h2
    h3 = h3
    Plans <- NodePlans
    Address <- Addresses
    Email <- Emails
    Title <- Titles
    SeedIds <- Seeds
    InitAccounts <- SeedAccounts
    InitDetails <- SeedDetails
    InitOrganizations <- SeedOrganizations
    InitCount = 0
    Inputs <- NodeInputs
    MaxBoots = 2
    SavedConfigs <- Configurations
    SavedBackups <- Acmes
CHECK_DEADLOCK FALSE
INVARIANTS
    NoAdoption
PROPERTIES
    DestroysNothingLiving
    RestoredInFull
    Recovers
