SPECIFICATION FairSpec
CONSTANTS
    Co = {c1, c2}
    Thread = {t1}
    OnStack = {c1}
    Cap = 2
    Timed = TRUE
    MaxOps = 2
    Raw = Raw
INVARIANTS
    Fifo
    DoneVerdict
    WaitersExact
PROPERTIES
    StacksUntouched
    ServedReturn
CHECK_DEADLOCK FALSE
