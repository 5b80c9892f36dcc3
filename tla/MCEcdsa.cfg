CONSTANTS
    LimbBits = 2
    LimbCount = 3
    P = 37
    B = 9
    N = 41
    GX = 1
    GY = 9
    Infinity = Infinity
    None = None
    Exhausted = Exhausted
    Attempts = 8
    Digests <- MCDigests
    PrivKeys <- MCPrivKeys
    Nonces <- MCNonces
    PubKeys <- MCPubKeys

SPECIFICATION Spec

INVARIANTS
    ArithmeticIsModular
    AdditionIsTheGroup
    LadderIsTheMultiple
    SignedVerifies
    VerifyIsTheEquation
