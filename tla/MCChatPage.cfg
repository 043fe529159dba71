SPECIFICATION MCSpec
CONSTANTS
    Loads = {l1, l2}
    Sends = {s1, s2}
    Clears = {k1}
    Nothing = Nothing
    MaxCalls = 2
    MaxReloads = 1
SYMMETRY Symmetry
INVARIANTS SavedIsAnswered ClearedIsGone
CHECK_DEADLOCK FALSE
