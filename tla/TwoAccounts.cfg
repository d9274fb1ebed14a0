SPECIFICATION Spec
CONSTANTS
    builtIn = builtIn
    owner = owner
    ann = ann
    bob = bob
    ownerEmail = ownerEmail
    annEmail = annEmail
    bobEmail = bobEmail
    acme = acme
    other = other
    builtInTitle = builtInTitle
    None = None
    Handlers = {h1, h2}
    Address <- Addresses
    Email <- Emails
    Title <- Titles
    SeedIds <- Seeds
    InitAccounts <- SeedAccounts
    InitDetails <- SeedDetails
    InitOrganizations <- SeedOrganizations
    InitCount = 9
    Inputs <- InviteInputs
CHECK_DEADLOCK FALSE
INVARIANTS
    UniqueAddress
