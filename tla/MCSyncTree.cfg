CONSTANTS
    MaxHeight = 3
    MetricInit = 60
    CounterInit = 0
    HeightWord = 8
    Node = {1, 2, 3}
    External = {9}
    ExtMetric <- MCExtMetric
    ExtCounter <- MCExtCounter
    InRange <- MCRing
    MaxDisturb = 2
    MaxTorn = 1
SPECIFICATION FairSpec
INVARIANTS
    TypeOK
    MasterIsReal
    DepthBounded
    OwnTreesAreStars
PROPERTIES
    GhostsOnlyRecede
    GhostsVanish
    Settles
