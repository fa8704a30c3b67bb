\* Finding: the loser of a claim releases the winner's lock.
SPECIFICATION Spec
CONSTANTS
    t1 = t1  t2 = t2  k1 = k1
    TaskId = {t1, t2}
    SessionId = {s1, s2}
    LockKey = {k1}
    LockKeyOf <- SharedKey
    InitialStatuses = {"pending"}
    Scanners = {d1, d2}
    Requesters = {}
    MaxParallel = 2
    Unroutable = {}
    Faults = {}
    Watchers = {}
    Reapers = {}
    Cleaners = {}
    Operators = {}
    Commands = {}
SYMMETRY ActorSymmetry
INVARIANT SameKeyIsSequential
CHECK_DEADLOCK FALSE
