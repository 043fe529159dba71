\* Worker: one request and one stream of three chunks, in batches of two.  Router: two
\* consumers under one id, queues of two.  Frames: two tasks may run at a time.
SPECIFICATION MCSpec
CONSTANTS
    Requests = {r1}
    Streams = {s1}
    MaxChunks = 3
    BatchMax = 2
    Ids = {id}
    Consumers = {c1, c2}
    maxQueueDepth = 2
    MaxEmits = 5
    Done = Done
    None = None
    t1 = t1
    t2 = t2
    t3 = t3
    ta = ta
    tb = tb
    mm = mm
    mn = mn
    Tasks <- MCTasks
    Id <- MCId
    Priority <- MCPriority
    ModelOf <- MCModelOf
    maxConcurrent = 2
    Frames = {f1, f2, f3}
    Timers = {w1, w2}
INVARIANTS StreamsDeliver CancelTakesEffect ConsumersAreServed RunningIsExecuting
PROPERTIES NoLateCallback EverybodyIsAnswered QueuedTaskStarts
CHECK_DEADLOCK FALSE
