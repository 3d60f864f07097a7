CONSTANTS
    Threads = {t1, t2}
    Checks = {j1, j2, j3}
    NoCheck = NoCheck
    Contexts = {c1, c2}
    NoContext = NoContext
    Slots = {s1, s2}
    Kernels = {k1, k2, k3}
    NoKernel = NoKernel
    MaxObjects = 2
    Serialised = TRUE
SPECIFICATION Spec
SYMMETRY Symmetry
CHECK_DEADLOCK FALSE
INVARIANTS KernelTypeOK EveryObjectAnalysed RightKernel
PROPERTIES NoRebuild
