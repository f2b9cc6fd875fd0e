CONSTANTS
    Callers = {c1, c2, c3}
    Identities = {i1, i2}
    CacheTTL = 1
    NegTTL = 1
    CacheSize = 1
    MaxClock = 1
    MaxVersion = 1
    Nil = Nil
SPECIFICATION Spec
INVARIANTS IndInv TypeOK OneRefreshPerIdentity AnswersOwnIdentity
PROPERTIES KeepsContract
SYMMETRY Symmetry
