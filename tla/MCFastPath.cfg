\* The statement fails when a chat is aborted before its prefill.
SPECIFICATION Spec
CONSTANTS
    m1 = m1
    m2 = m2
    m3 = m3
    c1 = c1
    c2 = c2
    Calls <- MCCalls
    Messages <- MCMessages
    Chats <- MCChats
    Reply = reply
    Foreign = foreign
    MaxTokens = 2
    SessionMax = 3
    TileSize = 1
    MaxForeign = 1
    MaxCached = 3
SYMMETRY Symmetric
INVARIANTS FastPathIsRight
