CONSTANTS
    MaxHeight = 2
    MetricInit = 60
    CounterInit = 0
    HeightWord = 8
    Self = 2
    PeerTables <- MCPeerTables
SPECIFICATION LoopSpec
INVARIANTS
    BestSoFar
    OrderIrrelevant
    TornAtMost
\* The loop ends: a finished election has no further step.
CHECK_DEADLOCK FALSE
