CONSTANTS
    Rules <- MCLongRules
    LenMod = 32
    CountMod = 3
    SectorLen = 32
    TitleBits = 2
    MaxBlocks = 2
    Undefined = Undefined
SPECIFICATION UsageSpec
INVARIANTS
    SavedInWholeSectors
CHECK_DEADLOCK FALSE
