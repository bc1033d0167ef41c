CONSTANTS
    Key = {k1, k2, k3, k4}
    Value = {v1}
    None = None
    InitialSize = 6
    MaxChain = 2
    HashValues = {0, 5, 6, 17}
SYMMETRY MCSymmetry
SPECIFICATION Spec
INVARIANTS
    WellFormed
    EachOnce
PROPERTY
    ImplementsMap
