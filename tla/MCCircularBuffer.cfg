CONSTANTS
    Data = {d1, d2, d3}
    Size = 3
    Unset = Unset
SPECIFICATION Spec
INVARIANTS
    Sound
PROPERTY
    ImplementsFifo
