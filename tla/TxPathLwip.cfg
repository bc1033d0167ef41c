CONSTANTS
    Transmitters = {tcpip}
    Frame = {f1, f2}
    Slots = 3
    None = None
    Above = {}
SPECIFICATION Spec
\* With every block of the bounded heap in use a task that waits for one stops.
CHECK_DEADLOCK FALSE
INVARIANT
    SomethingIsThere
