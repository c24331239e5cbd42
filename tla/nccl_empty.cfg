SPECIFICATION Spec
CONSTANTS
    Call = {c1, c2}
    U32 = 8
    WorldSize = 4
    Amount <- MCAmount
INVARIANTS
    NeverEmpty
