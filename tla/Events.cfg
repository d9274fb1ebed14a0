SPECIFICATION Spec
CONSTANTS
    Handlers = {h1, h2, h3, h4}
    None = None
    low = low
    high = high
    newcomer = newcomer
    oldKey = oldKey
    oldAsset = oldAsset
    newAsset = newAsset
    event = event
    Users <- SeedUsers
    Identifiers <- SeedIdentifiers
    InitOrganizations <- SeedOrganizations
    InitKeys <- SeedKeys
    InitCount = 9
    InitAssets = {oldAsset}
    Assets = {oldAsset, newAsset}
    EventIds = {event}
    Inputs <- SeedInputs
SYMMETRY Symmetry
CHECK_DEADLOCK FALSE
INVARIANTS
    TypeOK
    SealedStaysReadable
    KeyedAfterMigration
    EventHasAsset
    DisclosedOnlyAbove
