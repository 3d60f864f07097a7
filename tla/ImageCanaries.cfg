CONSTANTS
    IMAGE_POISON_WIDTH = 2
    IMAGE_POISON_HEIGHT = 3
    IMAGE_POISON_DEPTH = 1
    Types = {"1D", "1DArray", "2D", "2DArray", "3D"}
    Uncovered = {"1DArray", "2DArray"}
    MaxExtent = 2
    DataSizes = {2}
    RowGaps = {1}
    SliceGaps = {NoGap}
    NoGap = NoGap
    MaxStrays = 2
SPECIFICATION Spec
INVARIANTS CanaryIntact HostDataKept RightPlace CopyExact SizeHidden
