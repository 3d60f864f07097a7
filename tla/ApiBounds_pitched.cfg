SPECIFICATION Spec
CONSTANTS
    Threads = {t1}
    Buffers = {b1}
    Images = {}
    BufferSizes = {8}
    Sorts = {}
    Extents = {1}
    DataSizes = {1}
    Offsets = {0}
    Lengths = {1}
    Origins = {0, 1}
    Regions = {1, 2}
    RowPitches = {0, 2, 3}
    SlicePitches = {0, 6, 8}
    Poison <- SmallPoison
    Modulus = 64
    ExitOnOverflow = FALSE
INVARIANTS NothingOutside
