\* Three calls of any kind on a model of any kind, with failures, and the model
\* unloaded at any moment.  The system stops when the calls are used up.
SPECIFICATION Spec
CONSTANTS
    MaxCalls = 3
    Weights = weights
    Kv = kv
    None = none
INVARIANTS MemoryAccounted AloneOnItsOwn
PROPERTY CallsEnd
CHECK_DEADLOCK FALSE
