SPECIFICATION Spec
CONSTANTS
    g1 = g1
    g2 = g2
    g3 = g3
    g4 = g4
    Gpu <- MCGpu
    Link <- MCLink
    Index <- MCIndex
    Name <- MCName
    U32 = 1024
    Call = {c1, c2}
    Job = {j1, j2}
    Spec0 <- MCSpecs
    NoCall = NoCall
    NoJob = NoJob
    MaxUnhealthy = 1
INVARIANTS
    Inductive
    NoDoubleGrant
    GrantsReserved
    PlacementFits
PROPERTIES
    OnlyOwnerFrees
