SPECIFICATION MCFairSpec
CONSTANTS
    c1 = c1
    c2 = c2
    object = object
    any = any
    int = int
    short = short
    new = new
    Level = Level
    Lev = Lev
    Other = Other
    Missing = Missing
    Name123 = Name123
    Nodes <- MCNodes
    Names <- MCNames
    PrefixOf <- MCPrefixOf
    NameOf <- MCNameOf
    IsVariable <- MCIsVariable
    DataType <- MCDataType
    NewNode <- new
    Clients <- MCClients
    Wanted <- MCWanted
    Folder <- MCFolder
    AddAllowed = TRUE
    Faulty = TRUE
    MaxRounds = 2
INVARIANTS
    SentAsConfigured
    AsksForTheMissing
PROPERTIES
    StopsAfterSigint
\* The clients stop at their bounds or after SIGINT.
CHECK_DEADLOCK FALSE
