CONSTANTS
    Nil = Nil
    Letters = {"USER", "x", "ann"}
    Digits = {"1"}
SPECIFICATION Spec
INVARIANTS SubjectsMoveWhole PatternsReadByComponent URIsNameEndpoints OptionsAreFound
CHECK_DEADLOCK FALSE
