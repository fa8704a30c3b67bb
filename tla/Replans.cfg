\* One source, every fault until faults stop, and the operator's edits.
SPECIFICATION FairSpec
CONSTANTS
    i1 = i1  i2 = i2  s1 = s1  s2 = s2
    Item = {i1, i2}
    Source = {s1}
    SourceOf <- OneForAll
    Incremental = {}
    DependsOn <- Chain
    Contents = {"absent", "open"}
    Concurrent = FALSE
    PipelineFaults = {"fetch", "stamp", "plan", "row", "crash"}
    Edits = {"reopen", "close", "remove"}
PROPERTY EveryItemIsRecorded
PROPERTY HeldIsReleased
