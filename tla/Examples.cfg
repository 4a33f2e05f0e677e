SPECIFICATION Spec
CONSTANTS
    Offered <- AllOffers
    Registers = {"r1"}
    Multicasts = {"m1"}
    Bare = {"r1"}
    Equipped = {"m1"}
    Systems = {"async", "config", "interrupt", "vxworks", "discovery"}
    MaxId = 3
    Configurations = {"c1", "c2"}
    Nothing = "nothing"
    Length = 3
    MaxAccidents = 3
    Faults = {"stream", "semaphore", "spawn", "affinity", "server", "clock", "connect", "reroute", "enable", "startup"}
    Starts = 2
    Measurements = 3
INVARIANTS
    CallsAccounted
    ConfigurationKept
    InterruptContained
    StopsCompletely
    DiscoverySound
\* The programs end.
CHECK_DEADLOCK FALSE
