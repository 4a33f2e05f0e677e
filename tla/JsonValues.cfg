SPECIFICATION MCSpec
CONSTANTS
    Alphabet = {"/", "~", "0", "1", "a"}
    MaxText = 6
    KeyOrder <- MCKeyOrder
    Literals = {"true", "null"}
    NoKey <- Empty
    Tokens <- MCTokens
    Written <- MCWritten
    MaxDepth = 2
    MaxNodes = 3
    Sources <- MCSources
    Targets <- MCTargets
    Starts <- MCStarts
    Operations <- MCOperations
    Merges <- MCMerges
INVARIANTS
    PatchesArrive
    BytesReturn
PROPERTIES
    PointersMean
\* A patch is applied, a text is long enough.
CHECK_DEADLOCK FALSE
