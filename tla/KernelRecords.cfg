SPECIFICATION Spec
CONSTANTS
    Threads = {t1}
    Kernels = {k1}
    Launches = {l1, l2}
    Buffers = {b, h}
    HostBuffers = {h}
    NoBuffer = NoBuffer
    Nil = Nil
    NArgs = 2
    MaxHeld = 2
    Shared = {}
    Awaited = {l1, l2}
    MaxDamaged = 1
    Waiting = {l2}
INVARIANTS RecordKept ArgsExact NamesArgument
CONSTRAINT CountsApart
CHECK_DEADLOCK FALSE
