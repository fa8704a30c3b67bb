\* Executor backends, web server and dispatch order, side by side.
SPECIFICATION Spec
CONSTANTS
    Pane = {p1, p2, p3}
    NULL = NULL
    MaxMishaps = 2
    Client = {c1, c2}
    MaxSubs = 1
    BufferSize = 1
    MaxEvents = 2
    MaxScreens = 1
    Ranks = 5
    KeyOf <- OneKey
    NoKey = NoKey
    Parallel = 1
    MaxReopens = 2
INVARIANTS OneClaudePerRow AnswersAreTrue ServerIsOrderly
PROPERTIES NobodyWaitsForEver ListIsServedInOrder ImplementsExecutor
CHECK_DEADLOCK FALSE
