SPECIFICATION Spec
CONSTANTS
    GpuId = {a, b, c, d}
    Orders <- MCOrders
    MaxSick = 2
SYMMETRY Same
INVARIANTS
    CliqueFound
    PathFound
    IndexIsExact
CHECK_DEADLOCK FALSE
