SPECIFICATION Spec
CONSTANTS
    h1 = h1
    healer = healer
    Hook <- MCHook
    Healer = healer
    Subscriber <- MCSubscriber
    Event <- MCEvent
    Capacity = 2
    MaxEvents = 3
    U32 = 3
    WorldSize = 2
    Amount <- MCAmount
INVARIANTS
    ShrinkExcludes
CHECK_DEADLOCK FALSE
