\* A source that lists everything, whose items come, change and go, while
\* other processes dispatch and the operator edits.
SPECIFICATION Spec
CONSTANTS
    i1 = i1  i2 = i2  s1 = s1  s2 = s2
    Item = {i1, i2}
    Source = {s1}
    SourceOf <- OneForAll
    Incremental = {}
    DependsOn <- Chain
    Contents = {"absent", "noise", "open"}
    Concurrent = TRUE
    PipelineFaults = {}
    Edits = {"promote"}
INVARIANT TypeOK
INVARIANT DepsBeforeRun
INVARIANT NoDrift
