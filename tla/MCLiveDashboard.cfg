SPECIFICATION MCSpec
CONSTANTS
    Runs = {r1}
    Evals = {e1, e2}
    Sessions = {s1}
    Dashboards = {d1}
    NoSession = NoSession
    SessionOf <- MCSessionOf
    EvalModel <- MCEvalModel
    MaxEventBuffer = 2
    LoadLimit = 2
    MaxTasks = 1
    MaxPosts = 4
    MaxCuts = 1
    MaxCrashes = 1
    MaxFailures = 1
INVARIANTS
    DashboardsAgree
    HistoryKept
PROPERTIES
    CompletionsArrive
CHECK_DEADLOCK FALSE
