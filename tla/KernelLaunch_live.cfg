CONSTANTS
    Threads = {t1}
    Launches = {l1, l2}
    NoLaunch = NoLaunch
    Queues = {q1, q2}
    InOrder = {q1}
    FillQueue = q1
    MemBufs = {m1}
    SvmBufs = {s1}
    Images = {}
    DeviceSelect = "auto"
    CpuDevice = FALSE
    Strategy = "single"
    ExitOnOverflow = FALSE
    Ordering = "checked"
    Gated = {l1}
    WaitsFirst = FALSE
SPECIFICATION FairSpec
INVARIANTS Inductive
PROPERTIES EveryStrayReported EveryLaunchCompletes
CHECK_DEADLOCK FALSE
