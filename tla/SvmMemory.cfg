SPECIFICATION Spec
CONSTANTS
    Threads = {t1, t2}
    Contexts = {c1}
    MaxAddress = 7
    Sizes = {1, 2}
    Alignments = {0}
    Grains = {"fine", "coarse"}
    PoisonLen = 1
    OffsetModulus = 16
    Frees = {"now"}
    MapModes = {"blocking"}
    Interior = FALSE
    CheckWays = {"pointers", "copies"}
    CheckAlone = TRUE
    FineAlone = TRUE
SYMMETRY Symmetry
INVARIANTS Apart FoundRight CacheExact CanariesReady AllExamined
CHECK_DEADLOCK FALSE
