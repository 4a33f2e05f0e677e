SPECIFICATION MCFairSpec
CONSTANTS
    KeyOrder <- MCKeyOrder
    Literals = {"true"}
    NoKey = ""
    MaxTokens = 9
    Limit <- MCLimit
INVARIANTS
    BuildsMeaning
    PointersSound
    LexerReads
PROPERTIES
    Terminates
