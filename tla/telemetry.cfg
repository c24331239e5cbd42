SPECIFICATION FairSpec
CONSTANTS
    Gpu <- MCGpu
    Window = 2
    Empty = Empty
    SEQ_LEN = 2
    MaxSamples <- MCMaxSamples
    MaxFailures = 2
INVARIANTS
    Inductive
    SnapshotCurrent
    AgentCurrent
PROPERTIES
    ImplementsWindow
    NewestSeen
