SPECIFICATION Spec
CONSTANTS
    Co = {c1, c2}
    Thread = {t1}
    Signaler = {s1}
    W = {w1, w2}
    NoW = NoW
    TimedCo = {c1}
    TimedThread = {}
    Spurious = FALSE
    MaxWait = 2
    MaxSignal = 2
INVARIANTS
    NoWaiterForgotten
CHECK_DEADLOCK FALSE
