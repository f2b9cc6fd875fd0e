CONSTANTS
    home = home
    share = share
    Bad = Bad
    Missing = Missing
    Nil = Nil
    Paths <- MCPaths
    NoDirs = {"file"}
    CertFiles = {"cert", "key"}
    Tops <- MCTops
    Parts <- MCParts
    Names <- MCNames
    Overrides <- MCOverrides
SPECIFICATION Spec
INVARIANTS ConfigTypeOK PrecedenceHolds PolicyIsUnion SettledIsCurrent
PROPERTIES SignalledEditTakesEffect
CHECK_DEADLOCK FALSE
