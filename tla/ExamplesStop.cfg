SPECIFICATION FairSpec
CONSTANTS
    Offered <- SomeOffers
    Registers = {"r1"}
    Multicasts = {"m1"}
    Bare = {"r1"}
    Equipped = {"m1"}
    Systems = {"async", "interrupt", "vxworks", "discovery"}
    MaxId = 3
    Configurations = {"c1", "c2"}
    Nothing = "nothing"
    Length = 3
    MaxAccidents = 3
    Faults = {"stream", "semaphore", "spawn", "affinity", "server", "clock", "connect", "reroute", "enable", "startup"}
    Starts = 1
    Measurements = 3
PROPERTIES
    StopsWhenTold
\* The programs end.
CHECK_DEADLOCK FALSE
