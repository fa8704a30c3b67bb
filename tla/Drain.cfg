\* Nobody edits the queue and no process dies: everything gets an outcome.
SPECIFICATION FairSpec
CONSTANTS
    t1 = t1  t2 = t2  k1 = k1
    TaskId = {t1, t2, t3}
    SessionId = {s1, s2}
    LockKey = {k1}
    LockKeyOf <- SharedKey
    InitialStatuses = {"pending"}
    Scanners = {d1}
    Requesters = {}
    MaxParallel = 1
    Unroutable = {t3}
    Faults = {"start", "not_ready", "send"}
    Watchers = {w}
    Reapers = {r}
    Cleaners = {}
    Operators = {}
    Commands = {}
PROPERTY EveryTaskSettles
CHECK_DEADLOCK FALSE
