CONSTANTS
    MaxHeight = 10
    MetricInit = 60
    CounterInit = 0
    HeightWord = 64
    Node = {1, 2, 3}
    External = {9}
    ExtMetric <- MCExtMetric
    ExtCounter <- MCExtCounter
    InRange <- MCRing
    MaxDisturb = 1
    MaxTorn = 1
SPECIFICATION Spec
INVARIANT
    NoCycle
