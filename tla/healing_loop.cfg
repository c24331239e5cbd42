SPECIFICATION FairSpec
CONSTANTS
    h1 = h1
    healer = healer
    Hook <- MCHook
    Healer = healer
    Subscriber <- MCSubscriber
    Event <- MCEvent
    Capacity = 2
    MaxEvents = 3
    U32 = 3
    WorldSize = 2
    Amount <- MCAmount
INVARIANTS
    Inductive
    NothingForgotten
    NoSpuriousShrink
    NeverEmpty
PROPERTIES
    ServedSerially
    PredictionActedOn
CHECK_DEADLOCK FALSE
