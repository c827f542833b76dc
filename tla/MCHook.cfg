SPECIFICATION Spec
SYMMETRY Alike
CONSTANTS
    c1 = c1
    c2 = c2
    Co = {c1, c2}
    Thread = {}
    Fd = {f1, f2}
    Desc = {e1, e2}
    None = None
    Liberties = {}
    Timeouts = {"r"}
    Apis <- ReaderAndWriter
INVARIANTS
    SchedulerNotBlocked
    ContextsExact
PROPERTIES
    ModesKept
CHECK_DEADLOCK FALSE
