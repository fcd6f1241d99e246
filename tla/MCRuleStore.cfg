CONSTANTS
    Ids = {r1, r2}
    Bodies = {b1, bx}
    Invalid = {bx}
    Clients = {c1, c2}
    None = None
    Torn = Torn
    ArrayFile = ArrayFile
    ArrayLast = TRUE
    ChangesCap = 2
    MaxObjs = 8
    MaxOps = 2
SPECIFICATION Spec
CHECK_DEADLOCK FALSE
INVARIANTS TypeOK DifferencePending
PROPERTIES RestartKeepsRules SaveReturns Settles
