SPECIFICATION Spec
CONSTANTS
    Models = {m1, m2}
    Calls = {c1, c2}
    MaxConversations = 2
    MaxId = 4
    MaxAccess = 9
SYMMETRY PoolSymmetry
INVARIANTS
    SingleWriter
PROPERTIES
    NeverRevived
    ImplementsLru
CHECK_DEADLOCK FALSE
