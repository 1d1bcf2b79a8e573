SPECIFICATION Spec
CONSTANTS
    Keys = {k1, k2}
    Vals = {x, y}
    Gone = Gone
    Num = 1
    Div = 2
    MaxOps = 4
    MaxFaults = 2
INVARIANTS
    TypeOK
    OpenFindsAPrefix
    OpenFindsOwnValues
PROPERTY
    ImplementsDurableMap
CHECK_DEADLOCK FALSE
