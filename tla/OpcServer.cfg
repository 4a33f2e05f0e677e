SPECIFICATION Spec
CONSTANTS
    Clients = {c1, c2}
    Data = {"x", "y"}
    MaxWrites = 2
    MaxStarts = 2
INVARIANTS
    NobodyUninvited
PROPERTIES
    ImplementsRegisters
\* The server may stay down.
CHECK_DEADLOCK FALSE
