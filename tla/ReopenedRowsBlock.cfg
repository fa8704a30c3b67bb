\* Finding: two reopened rows with one key block each other.
SPECIFICATION Spec
CONSTANTS
    t1 = t1  t2 = t2  k1 = k1
    TaskId = {t1, t2}
    SessionId = {s1, s2}
    LockKey = {k1}
    LockKeyOf <- SharedKey
    InitialStatuses = {"pending"}
    Scanners = {d1}
    Requesters = {}
    MaxParallel = 1
    Unroutable = {}
    Faults = {}
    Watchers = {w}
    Reapers = {}
    Cleaners = {}
    Operators = {o}
    Commands = {"reopen"}
INVARIANT SomeRowCanRun
CHECK_DEADLOCK FALSE
