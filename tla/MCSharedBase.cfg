SPECIFICATION MemorySpec
CONSTANTS
    MaxBit = 6
    B = 2
    Base = 2
    Line = 2
    Size = {1, 2, 3}
    Align = {2, 4}
    t1 = t1
    t2 = t2
    Thread = {t1, t2}
    None = None
    Huge = {h1, h2}
    PerHuge = 2
    PerLarge = 2
    Units = 2
    Tries = 1
    HugeTries = 1
    Kinds <- SmallAndLarge
    MaxMarked = 3
    BlkSize = 8
    FSize = 3
    Classes = 2
    CacheLine = 2
    ObjSize = {1, 2, 3}
    Places = {0, 1}
    MaxObj = 4
    p1 = p1
    p2 = p2
    p3 = p3
    p4 = p4
    Ptr = {p1, p2, p3, p4}
    Owner <- TwoEach
    Obj = {o1, o2}
    Null = Null
    SizeOf <- Larger
    BasePtr = {p2, p4}
    Word = 16
SYMMETRY Symmetry
INVARIANT SharedOwnership
CHECK_DEADLOCK FALSE
