SPECIFICATION Spec
CONSTANTS
    Chats = {c1, c2, c3}
SYMMETRY Symmetry
INVARIANTS TurnsPaired
PROPERTIES StopTakesEffect
CHECK_DEADLOCK FALSE
