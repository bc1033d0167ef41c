CONSTANTS
    Console = console
    Test = {test}
    Generation = {g1, g2, g3}
    Long = {g3}
    None = None
SPECIFICATION FairSpec
INVARIANTS
    BuffersBalanced
    NobodyForgotten
PROPERTY
    CommandsEnd
