SPECIFICATION Spec
CONSTANTS
    None = None
    Bank = {"a", "b"}
    Buffer = {"m1"}
    Value = {"x", "y"}
    Block <- ThreeBlocks
    Region = {1, 2}
    Plan <- NarrowPlan
INVARIANTS
    BuffersAccounted
    ChunksTileTheSpans
PROPERTIES
    PagesSurviveHandover
