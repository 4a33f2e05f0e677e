SPECIFICATION FairSpec
CONSTANTS
    Programs <- Ending
    Effect <- EffectOfAll
    MaxFailures <- NoFailures
    MaxCounter <- NoCounts
    MaxMeasurements <- NoSizes
    Lengths <- FileLengths
PROPERTIES
    StopsWhenTold
