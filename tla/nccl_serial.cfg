SPECIFICATION SpecSerial
CONSTANTS
    Call = {c1, c2, c3}
    U32 = 8
    WorldSize = 4
    Amount <- MCAmountSerial
INVARIANTS
    InductiveSerial
    NeverEmpty
PROPERTIES
    ImplementsCommunicator
SYMMETRY CallSymmetry
