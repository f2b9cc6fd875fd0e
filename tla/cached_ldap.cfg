CONSTANTS
    Callers = {c1, c2}
    Identities = {i1}
    CacheTTL = 1
    NegTTL = 1
    CacheSize = 2
    MaxClock = 1
    MaxVersion = 1
    Conns = {k1, k2}
    Size = 1
    Account = Account
    Group = Group
    Nil = Nil
SPECIFICATION Spec
INVARIANTS CoalescingSparesPool
