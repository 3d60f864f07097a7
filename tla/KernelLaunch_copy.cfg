CONSTANTS
    Threads = {t1, t2}
    Launches = {l1, l2}
    NoLaunch = NoLaunch
    Queues = {q1, q2}
    InOrder = {q1}
    FillQueue = q1
    MemBufs = {m1}
    SvmBufs = {}
    Images = {i1}
    DeviceSelect = "auto"
    CpuDevice = FALSE
    Strategy = "copy"
    ExitOnOverflow = FALSE
    Ordering = "checked"
    Gated = {}
    WaitsFirst = FALSE
SPECIFICATION Spec
SYMMETRY Symmetry
INVARIANTS TypeOK Blame NothingMissed CleanAtReturn
PROPERTIES EvidenceKept KeepsPromise
CHECK_DEADLOCK FALSE
