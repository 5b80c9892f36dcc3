CONSTANTS
    Discs = {d1, d2}
    Values = {v1, v2}
    Labels = {l1}
    Fields = {"VUK", "KCD"}
    Globals = {"PK"}
    None = None
    MaxLines = 4
    Align = 2
    Units = 2
    CutLens = {1, 3, 12}
    PadLens = {1}
    MaxHarm = 2
    MaxLookupLines = 2
    Rules <- MCRules
    LenMod = 32
    CountMod = 3
    SectorLen = 32
    TitleBits = 2
    MaxBlocks = 3
    Undefined = Undefined
    OnlineVolumes = {w1, w2}
    Titles = {t1, t2}
    Nonces = {n1, n2}
    NoTitle = NoTitle
SPECIFICATION DiscSpec
SYMMETRY Symmetry
INVARIANTS
    RowsStayWithTheirDisc
    ReportIsExact
    LookupFindsTheVuk
    CopyPlaysAsUnlocked
    OpenedVolumeIsMastered
    RulesReadAsWritten
    DamagedFileNeverMisread
    OnlyTheAnsweredRequestOpens
CHECK_DEADLOCK FALSE
