SPECIFICATION FairSpec
CONSTANTS
    Times = {0, 1, 2}
    Delays <- SomeDelays
    MaxEvents = 6
INVARIANTS
    TypeOK
    HeapOrder
PROPERTIES
    IsEventQueue
    EventsAreHandled
CHECK_DEADLOCK FALSE
