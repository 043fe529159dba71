SPECIFICATION MCSpec
CONSTANTS
    Cells <- Bits
    Values <- Bits
    Mul <- Nand
    Norm <- Negation
    Row <- Identity
    Shapes <- MCShapes
    Readers = {r1}
    Buckets = {small, large}
    SrcBucket = small
    DstBucket = large
    Sizes = {small, oversized}
    Oversized = oversized
    PassScope = FALSE
    MaxDispatch = 3
    MaxHandle = 4
PROPERTIES HandlesAreMemory
CHECK_DEADLOCK FALSE
