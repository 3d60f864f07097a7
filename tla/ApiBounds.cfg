SPECIFICATION Spec
CONSTANTS
    Threads = {t1, t2}
    Buffers = {b1}
    Images = {i1}
    BufferSizes = {1, 4, 7, 8, 12}
    Sorts = {"2DArray", "3D"}
    Extents = {1, 2}
    DataSizes = {1}
    Offsets = {0, 1, 7}
    Lengths = {1, 8}
    Origins = {0, 1}
    Regions = {1, 2}
    RowPitches = {0}
    SlicePitches = {0}
    Poison <- SmallPoison
    Modulus = 64
    ExitOnOverflow = FALSE
INVARIANTS NothingOutside NoFalseAlarm
