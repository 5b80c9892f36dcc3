CONSTANTS
    Hosts = {h1}
    None = None
    LbaMax = 3
    Capacities = {2, 3}
    Maxima = {2, 256}
    Lists <- MCLists
    SessionKeys = {k1, k2}
    Unkeyed = Unkeyed
    Static = Static
    Agids = {6}
    Targets <- MCTargets
    PackLen = 2
    PackMax = 3
    MkbLens = {0, 1, 2, 3, 5, 6, 7}
    AacsDescriptors <- MCDescriptors
    OtherCodes = {30, 271}
    OtherLens = {0, 4, 8}
    MaxFeatures = 3
    NoFeature = NoFeature
SPECIFICATION DriveSpec
INVARIANTS
    StoredTableLegal
    CommandsAreAnsweredAsMeant
    PacksRebuildTheMkb
    FeatureWalkIsExact
PROPERTIES
    SendReplacesAllOrNothing
    ReadReportsTheDrive
CHECK_DEADLOCK FALSE
