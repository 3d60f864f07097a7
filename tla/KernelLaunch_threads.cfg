CONSTANTS
    Threads = {t1, t2}
    Launches = {l1, l2}
    NoLaunch = NoLaunch
    Queues = {q1}
    InOrder = {q1}
    FillQueue = q1
    MemBufs = {m1}
    SvmBufs = {}
    Images = {}
    DeviceSelect = "device"
    CpuDevice = FALSE
    Strategy = "copy"
    ExitOnOverflow = FALSE
    Ordering = "none"
    Gated = {}
    WaitsFirst = FALSE
SPECIFICATION Spec
SYMMETRY Symmetry
CHECK_DEADLOCK FALSE
INVARIANTS Blame
