\* Generation: a budget of five tokens, in a session with room for two of them or six.
\* Loads: a budget of four.  Ring: four cells, one or two tokens a call.
SPECIFICATION MCSpec
CONSTANTS
    MaxTokens = 5
    Rooms = {2, 6}
    m1 = m1
    m2 = m2
    m3 = m3
    Models <- MCModels
    Adopted <- MCAdopted
    Bytes <- MCBytes
    Priority <- MCPriority
    Budget = 4
    Nobody = nobody
    Chars = {a, b}
    SequenceIds = {q1, q2, q3}
    bufferSize = 4
    MaxStretch = 2
INVARIANTS
    ThoughtsApart
    ThinkingThenAnswer
    EndIsTrue
    PoolAddsUp
    OwnersAgree
    EncodingIsRight
    CountsAreRight
CHECK_DEADLOCK FALSE
