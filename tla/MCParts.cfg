SPECIFICATION AllSpec
CONSTANTS
    Exercised = {"stacks", "clist", "mutex_queue", "co_pool", "pool", "timers", "overlapped", "hard", "calls",
                 "lru_map", "array", "buffer", "text", "manager", "kqueue", "dns", "context", "disasm",
                 "disasm_arm64", "detours"}
    c1 = c1
    c2 = c2
    c3 = c3
    s1 = s1
    s2 = s2
    w1 = w1
    w2 = w2
    hk = hk
    ts = ts
    ds = ds
    ls = ls
    Co = {c1, c2, c3}
    Stack = {s1}
    StackOf <- StackOfImpl
    Buf = {b1, b2, b3}
    NoCo = NoCo
    NoBuf = NoBuf
    NoFrame = NoFrame
    MaxBufs = 1
    MaxRun = 1
    Node = {n1, n2, n3, n4}
    Null = Null
    Item = {l1, Null}
    N = 2
    MaxLen = 6
    CosPerBlock = 4
    MaxBlock = 3
    MaxLive = 9
    Sch = {s1, s2}
    Elem = {e1, e2, e3}
    MaxCap = 2
    Sleeper = {a, b}
    End = End
    Word = 16
    Unit = 2
    Delays = {0, 2}
    Seconds = {0, 1}
    Fines = {1, 3}
    Cap = 2
    EndlessSelect = FALSE
    MaxNow = 2
    WinCo = {w1, w2}
    Sched = {s1, s2}
    At <- AtImpl
    Uses <- UsesImpl
    Timed <- TimedImpl
    Hooked = {hk}
    Stream = {ts}
    Dgram = {ds}
    Listen = {ls}
    Info = {i1, i2, i3}
    None = None
    ExAtOnce = FALSE
    Rewait = FALSE
    MaxCall = 2
    MaxClose = 1
    HardSock = {g1, g2}
    Liberties = {}
    Caller = {w1}
    CancelAtOnce = TRUE
    CallLiberties = {}
    Key = {k1, k2, k3}
    Val = {v1, v2}
    Capacity = 2
    MovedFrom = MovedFrom
    LruLiberties = {}
    Value = {v1, v2}
    Default = v1
    Raw = Raw
    Broken = Broken
    OwnElement = FALSE
    MaxArray = 5
    Char = {x1, x2}
    Nul = Nul
    Junk = Junk
    MaxText = 4
    Star = 8
    One = 9
    TextLiberties = {}
    AppThread = {m1, t1}
    Main = m1
    Ncpu = 3
    SchedNum = 2
    ManLiberties = {}
    NetCo = {c1, c2, c3}
    NetAt <- NetAtImpl
    Fd = {f1}
    KqLiberties = {}
    DnsLiberties = {}
    Routine = {r1}
    Loop = r0
    Abis = {"x64", "x64_win", "x86", "x86_mac", "x86_win", "arm", "arm64", "mips"}
    Sizes = {48, 49, 50, 51}
    CtxLiberties = {}
    Half8 = 4
    Half16 = 16
    Half32 = 64
    Away <- AwayImpl
    DisLiberties = {}
    Piece = 8
    Page = 4
    Reach14 = 8
    Reach19 = 16
    Reach26 = 32
    Source = 1300
    Copies = {100, 1230, 1250, 1264, 1279, 1289, 1303, 1310, 1318, 1330, 1345, 1372, 1500, 3900}
    ArmLiberties = {}
    plain = plain
    padded = padded
    tiny = tiny
    stub = stub
    h1 = h1
    h2 = h2
    h3 = h3
    h4 = h4
    Fn = {plain, padded, tiny}
    Code <- CodeImpl
    PageOf <- AddressOfImpl
    AddressOf <- AddressOfImpl
    Stub <- StubImpl
    HookVar = {h1, h2, h3, h4}
    FirstPointer <- FirstPointerImpl
    User = {u1, u2}
    Other = {o1}
    Addresses = {7, 14}
    Far = 4
    NearFar = 2
    PerRegion = 4
    IgnoreTooSmall = FALSE
    RetainRegions = FALSE
    NoOne = NoOne
    Own = Own
    DetourLiberties = {}
INVARIANTS
    FrameIntegrity
    StructuresExact
    TimersSound
    
    
    SwitchKeepsAll
    StopsInOrder
    HooksTransparent
PROPERTIES
    SharingIsInvisible
    IsMailbox
    SleepsLongEnough
CHECK_DEADLOCK FALSE
