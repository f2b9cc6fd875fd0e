CONSTANTS
    Borrowers = {b1}
    Conns = {k1}
    Size = 1
    Nil = Nil
    a1 = a1
    a2 = a2
    g1 = g1
    Accounts <- MCAccounts
    Groups <- MCGroups
    Directories <- MCFixedDirectory
SPECIFICATION SilentServerSpec
PROPERTIES DeadlineEndsCall
