CONSTANTS
    Radix = 4
    Pointer = 1
    Types <- NarrowWideAndNone
    Handles = {h1, h2}
    MaxVariables = 5
    MaxCalls = 2
SPECIFICATION Spec
INVARIANTS TypeOK Tiled SliceTells
PROPERTY ImplementsStore
CHECK_DEADLOCK FALSE
