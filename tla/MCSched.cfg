SPECIFICATION FairSpec
CONSTANTS
    Co = {c1, c2}
    Thread = {t1}
    Loop = Loop
    NoCo = NoCo
    PipeEv = PipeEv
    MaxYield = 2
INVARIANTS
    WakeupsArrive
    ResumedExactlyOnce
    TimersExact
    StopQuiesces
PROPERTIES
    TasksAreDelivered
    WaitsEnd
CHECK_DEADLOCK FALSE
