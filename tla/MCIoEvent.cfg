SPECIFICATION FairSpec
CONSTANTS
    s1 = s1
    s2 = s2
    a = a
    b = b
    x = x
    f1 = f1
    f2 = f2
    NoCo = NoCo
    Sched = {s1, s2}
    Co = {a, b, x}
    Fd = {f1}
    SchedOf <- TwoScheds
    TimedCo = {a, x}
    OpenFd = {f1}
    Shared = FALSE
    CloseInUse = FALSE
    MaxOps <- OneEach
INVARIANTS
    Registrations
    NoMissedEvent
PROPERTIES
    ConnectVerdict
    ReadySocketsWake
CHECK_DEADLOCK FALSE
