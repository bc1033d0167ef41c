CONSTANTS
    Root = 0
    Node = {1, 2}
    Parent <- MCParent
    Depth <- MCDepth
    Tu = 2
    AwPeriod = 2
    PresenceMode = 4
    CounterWord = 16
    UsecWord = 128
    SeqLength = 4
    MulticastSlots = {0, 2}
    Sequence <- MCSequence
    UnicastGuard = 3
    MulticastGuard = 3
    MaxDelay = 1
    MaxTime = 136
SPECIFICATION Spec
\* The clock ends at the bound.
CHECK_DEADLOCK FALSE
INVARIANTS
    LagBounded
    MulticastMeets
    UnicastMeets
PROPERTY
    SlotsInOrder
