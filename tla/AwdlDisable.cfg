CONSTANTS
    Transmitters = {wifi}
    Frame = {f1, f2, f3}
    Slots = 2
    None = None
    Above = {wifi}
SPECIFICATION NodeFairSpec
\* Once AWDL is off and the queues have drained nothing is left to do.
CHECK_DEADLOCK FALSE
INVARIANTS
    Reachable
    OneOwner
    SomethingIsThere
    NoLostWakeup
    DeadTimersUnneeded
PROPERTIES
    EveryFrameFreed
    DisabledIsQuiet
