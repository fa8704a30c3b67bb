\* One row and everyone who can touch it, while no process dies.
SPECIFICATION Spec
CONSTANTS
    t1 = t1  t2 = t2  k1 = k1
    TaskId = {t1}
    SessionId = {s1}
    LockKey = {k1}
    LockKeyOf <- SharedKey
    InitialStatuses = {"pending", "skipped", "waiting_human"}
    Scanners = {d1}
    Requesters = {d2}
    MaxParallel = 1
    Unroutable = {}
    Faults = {"mkdir", "start", "not_ready", "send", "list"}
    Watchers = {}
    Reapers = {r}
    Cleaners = {c}
    Operators = {o}
    Commands = {"done", "fail", "reopen", "promote", "web promote", "web reopen", "delete"}
SYMMETRY ActorSymmetry
INVARIANT TypeOK
INVARIANT StartIsRecorded
INVARIANT ClaimHasDispatcher
