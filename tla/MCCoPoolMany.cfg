SPECIFICATION Spec
CONSTANTS
    N = 2
    MaxBlock = 3
    MaxLive = 6
INVARIANTS
    PopIsFresh
