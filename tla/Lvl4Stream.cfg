SPECIFICATION Spec
CONSTANTS
    Bytes = {"a", "n"}
    Sizes = {0, 1, 2}
    Word = 16
    MaxStream = 4
    MaxConns = 2
INVARIANT TypeOK
INVARIANT Lossless
INVARIANT SegmentsExact
INVARIANT Prompt
INVARIANT Backed
PROPERTY DirtyIsNoOp
PROPERTY LoopEnds
