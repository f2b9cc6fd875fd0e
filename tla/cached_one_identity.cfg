CONSTANTS
    Callers = {c1, c2, c3}
    Identities = {i1}
    CacheTTL = 1
    NegTTL = 1
    CacheSize = 1
    MaxClock = 2
    MaxVersion = 2
    Nil = Nil
SPECIFICATION FairSpec
INVARIANTS UnresolvedMeansNothingCached
PROPERTIES AnswersNeverGoBack ValueYieldsOnlyToNewer EveryCallReturns
