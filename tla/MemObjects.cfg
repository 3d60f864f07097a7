CONSTANTS
    Threads = {t1, t2}
    Objects = {o1, o2, o3}
    NoObject = NoObject
    Handles = {h1, h2}
    NoHandle = NoHandle
    Kinds = {"buffer", "sub", "image", "hostimage"}
    Makers = {"user", "internal"}
    MaxRefs = 2
    MayFail = TRUE
    Exclusive = TRUE
    Size = 4
    BufferPoison = 3
    ImagePoison = 2
    Modulus = 64
SPECIFICATION Spec
SYMMETRY Symmetry
CHECK_DEADLOCK FALSE
INVARIANTS NoStaleRecord RecordTracks NoDangling StatsExact
