CONSTANTS
    Borrowers = {b1, b2}
    Conns = {k1, k2}
    Size = 1
    Nil = Nil
    a1 = a1
    a2 = a2
    g1 = g1
    Accounts <- MCAccounts
    Groups <- MCGroups
    Directories <- MCDirectories
SPECIFICATION SilentServerSpec
INVARIANTS ProviderIndInv SuccessIsWhole NoSlotBetweenSearches PoolIndInv SlotsConserved PutNeverBlocks ExclusiveConn NoConnLeaked ConnsBounded
PROPERTIES PoolSpec GetReturns ResolveEnds
