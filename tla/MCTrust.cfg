CONSTANTS
    SigLen = 2
    Segment1Max = 24
    LaSigned <- MCLaSigned
    CcSigned <- MCCcSigned
    Hashes <- MCHashes
    NoHash = 15
    Crls <- MCCrls
    Discs <- MCDiscs
    Queries <- MCQueries
    Media <- MCMedia
    Damages = {0, 2, 3, 9}
    PadLens = {0, 1, 3}
    MaxHarm = 2
    None = None
SPECIFICATION Spec
INVARIANTS
    IntactFilesPass
    SignedRangeIsThePrefix
    VerifiedListRevokesAsIssued
    NoRecordIsSwallowed
    VerifiedCertificateIsIssued
    AcceptedUnitIsMastered
CHECK_DEADLOCK FALSE
