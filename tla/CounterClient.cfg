SPECIFICATION MCFairSpec
CONSTANTS
    v1 = v1
    c1 = c1
    c2 = c2
    Clients <- MCClients
    Vars <- MCVars
    Start <- MCStart
    MinInt <- MCMinInt
    MaxInt = 3
    Unreliable = TRUE
    MaxRounds = 2
    AddAllowed = FALSE
    MaxRestarts = 0
INVARIANTS
    TypeOK
    NoPhantomIncrement
    SerialIncrementsCount
    AddedOncePerProcess
PROPERTIES
    StopsAfterSigint
\* The clients stop at their bounds or after SIGINT.
CHECK_DEADLOCK FALSE
