\* A source asked for what is new since its checkpoint, and nothing fails.
SPECIFICATION Spec
CONSTANTS
    i1 = i1  i2 = i2  s1 = s1  s2 = s2
    Item = {i1, i2}
    Source = {s1, s2}
    SourceOf <- OneEach
    Incremental = {s1}
    DependsOn <- Chain
    Contents = {"absent", "open"}
    Concurrent = FALSE
    PipelineFaults = {}
    Edits = {}
INVARIANT NoItemIsLost
