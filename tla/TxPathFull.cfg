CONSTANTS
    Transmitters = {wifi}
    Frame = {f1, f2, f3}
    Slots = 2
    None = None
    Above = {wifi}
SPECIFICATION Spec
\* With every block of the bounded heap in use a task that waits for one stops.
CHECK_DEADLOCK FALSE
INVARIANT
    EmptyIsEmpty
