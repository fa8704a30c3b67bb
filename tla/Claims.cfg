\* Two dispatchers race for the same rows, fail and crash, while a watcher runs.
SPECIFICATION Spec
CONSTANTS
    t1 = t1  t2 = t2  k1 = k1
    TaskId = {t1, t2}
    SessionId = {s1, s2}
    LockKey = {k1}
    LockKeyOf <- SharedKey
    InitialStatuses = {"pending"}
    Scanners = {d1, d2}
    Requesters = {}
    MaxParallel = 2
    Unroutable = {}
    Faults = {"mkdir", "start", "unclaim", "not_ready", "send", "list", "crash"}
    Watchers = {w}
    Reapers = {}
    Cleaners = {}
    Operators = {}
    Commands = {}
SYMMETRY FullSymmetry
INVARIANT OneSessionPerTask
INVARIANT SessionIsKnown
INVARIANT SomeRowCanRun
PROPERTY ImplementsAssignment
