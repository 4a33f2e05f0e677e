SPECIFICATION Spec
CONSTANTS
    Programs <- ProgramsOfAll
    Effect <- EffectOfAll
    MaxFailures <- Failures
    MaxCounter <- Counts
    MaxMeasurements <- Sizes
    Lengths <- FileLengths
INVARIANTS
    CrashOnlyAfterFailure
    SetUpInOrder
    NothingLeft
    TokenRespected
PROPERTIES
    CountersTrue
