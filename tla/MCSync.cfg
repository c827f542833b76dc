SPECIFICATION AllSpec
CONSTANTS
    Co = {c1}
    Thread = {t1, t2}
    Signaler = {s1, s2}
    TimedCo = {c1}
    TimedThread = {t1}
    MaxWait = 2
    MaxSignal = 1
    GroupCo = {c1, c2}
    GroupThread = {t1}
    Worker = {s1, s2, s3}
    W = {w1, w2}
    NoW = NoW
    MutexCo = {c1, c2}
    MutexThread = {t1, t2}
    Null = Null
    MaxLock = 2
INVARIANTS
    WaitersServed
    WaitxOwned
    
    LockHandedOver
PROPERTIES
    ImplementsEvent
    WaitersReturn
CHECK_DEADLOCK FALSE
