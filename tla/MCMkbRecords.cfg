CONSTANTS
    Masters <- MCMasters
    LaSigned <- MCLaSigned
    MinLen <- MCMinLen
    Tails <- MCTails
    EntryLen = 2
    SigLen = 2
    Damages = {0, 1, 2, 4, 33}
    PadLens = {0, 1, 4}
    MaxDamage = 1
    None = None
SPECIFICATION FairSpec
INVARIANTS
    IntactIsAccepted
    VerifiedIsAsMade
    WalksAgree
    VerifiedListsAreSigned
PROPERTIES
    CallsReturn
CHECK_DEADLOCK FALSE
