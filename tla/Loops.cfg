\* Loops in the foreground and the background, every error and every signal.
SPECIFICATION FairSpec
CONSTANTS
    LoopId = {b1, b2, f1}
    Foreground = {f1}
    Controllers = {c1}
    LoopFaults = {"phase", "start", "term", "kill"}
INVARIANT TypeOK
INVARIANT FullTicksExclude
INVARIANT LockOnlyInTick
INVARIANT DaemonIsRecorded
PROPERTY StopEndsTheDaemon
CHECK_DEADLOCK FALSE
