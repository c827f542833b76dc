SPECIFICATION Spec
CONSTANTS
    s1 = s1
    s2 = s2
    a = a
    b = b
    x = x
    f1 = f1
    f2 = f2
    NoCo = NoCo
    Sched = {s1}
    Co = {a, b}
    Fd = {f1, f2}
    SchedOf <- OneSched
    TimedCo = {}
    OpenFd = {f1, f2}
    Shared = FALSE
    CloseInUse = TRUE
    MaxOps <- OneFour
PROPERTIES
    ConnectVerdict
CHECK_DEADLOCK FALSE
