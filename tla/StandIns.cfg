SPECIFICATION Spec
CONSTANTS
    Threads = {t1, t2}
    Launches = {l1, l2}
    Writes = {w1}
    Buffers = {b, h}
    HostBuffers = {h}
    Away = {}
    Queues = {q1, q2}
    InOrder = {q1}
    CacheQueue = CacheQueue
    Gated = {l2}
    SetLate = FALSE
    Settled = TRUE
    Overlapping = FALSE
    Events = {e1}
    Nil = Nil
    Asking = {l1, w1}
    Unchecked = {}
    Alone = TRUE
    MaxRefs = 2
INVARIANTS ProfilesOwn EventsExact
PROPERTIES StandInsHidden EveryCallReturns
CHECK_DEADLOCK FALSE
