CONSTANTS
    MaxHeight = 2
    MetricInit = 60
    CounterInit = 0
    HeightWord = 8
    Self = 2
    Peers = {1, 3}
    Claims <- MCClaims
    Tlvs <- MCTlvs
    Block = {b1, b2, b3}
    None = None
    Timeout = 2
SYMMETRY MCSymmetry
CONSTRAINT MCWhileUpset
SPECIFICATION Spec
INVARIANTS
    NoUseAfterFree
    NoOrphan
    KnownAreRecent
    FollowsKnown
