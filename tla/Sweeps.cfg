\* A dispatcher that may crash, a watcher and a reaper on two rows.
SPECIFICATION Spec
CONSTANTS
    t1 = t1  t2 = t2  k1 = k1
    TaskId = {t1, t2}
    SessionId = {s1, s2}
    LockKey = {k1}
    LockKeyOf <- SharedKey
    InitialStatuses = {"pending"}
    Scanners = {d1}
    Requesters = {}
    MaxParallel = 2
    Unroutable = {}
    Faults = {"mkdir", "start", "not_ready", "send", "list", "crash"}
    Watchers = {w}
    Reapers = {r}
    Cleaners = {}
    Operators = {}
    Commands = {}
SYMMETRY FullSymmetry
INVARIANT RunningIsBound
INVARIANT SameKeyIsSequential
PROPERTY ReaperSparesLive
PROPERTY ImplementsAssignment
