SPECIFICATION FairSpec
CONSTANTS
    Convs = {v1, v2}
    Calls = {c1, c2, c3}
    None = None
    Tokens <- MCTokens
    Eos = 0
    Prompts <- MCPrompts
    MaxTokens = 3
    MaxCtx = 3
    KvSize = 5
INVARIANTS
    OneInside
    FirstComeFirstServed
    ContextsAreOwn
PROPERTIES
    ImplementsIsolation
    CallsEnd
CHECK_DEADLOCK FALSE
