SPECIFICATION FairSpec
CONSTANTS
    objects = objects
    server = server
    device = device
    temp = temp
    motor = motor
    P1 = P1
    P2 = P2
    None = None
    Nodes <- MCNodes
    Objects <- objects
    Refs <- MCRefs
    Ns <- MCNs
    IdType <- MCIdType
    Variables <- MCVariables
    Printable <- MCVariables
    Uninit = Uninit
    Blank = Blank
    Garbage = Garbage
    SecurePolicies <- MCSecurePolicies
    NonePolicy <- None
    Endpoints <- MCEndpoints
    OtherMode = OtherMode
    NoSession = NoSession
INVARIANTS
    SecureAsConfigured
    EndsCleanly
    StopBeforeConnect
PROPERTIES
    Terminates
\* The process ends.
CHECK_DEADLOCK FALSE
