SPECIFICATION FairSpec
CONSTANTS
    objects = objects
    server = server
    device = device
    line = line
    temp = temp
    motor = motor
    blob = blob
    guid = guid
    Nodes <- MCNodes
    Objects <- objects
    Refs <- MCRefs
    Ns <- MCNs
    IdType <- MCIdType
    Variables <- MCVariables
    Printable <- MCPrintable
    Uninit = Uninit
    Blank = Blank
    Garbage = Garbage
INVARIANTS
    TypeOK
    DepthBound
    ListingComplete
    ShownWasReadLast
PROPERTIES
    ImplementsListing
    Terminates
\* The traversal returns: the model ends with it.
CHECK_DEADLOCK FALSE
