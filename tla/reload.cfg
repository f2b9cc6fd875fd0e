CONSTANTS
    Requests = {r1, r2}
    MaxSignals = 2
    MaxVersion = 2
    Nil = Nil
SPECIFICATION Spec
INVARIANTS IndInv ReloadRevokes OneStatePerDecision FailureChangesNothing
CHECK_DEADLOCK FALSE
SYMMETRY Symmetry
