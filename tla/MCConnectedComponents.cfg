SPECIFICATION Spec
CONSTANTS
    a1 = a1  a2 = a2  a3 = a3
    b1 = b1  b2 = b2  b3 = b3
    OnlyA <- MCOnlyA
    OnlyB <- MCOnlyB
INVARIANTS
    TypeOK
    ComponentsDisjoint
    ComponentsExact
    ReturnsAllComponents
PROPERTIES
    Terminates
CHECK_DEADLOCK FALSE
