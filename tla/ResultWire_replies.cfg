\* one client and its connection, with every way to cut, drop and read a packet
SPECIFICATION FairSpec
CONSTANTS
    Statements <- MCStatements
    Columns <- MCColumns
    Selections <- MCSelections
    ManipResults <- MCManipResults
    ShortReads = TRUE
    Capacity = 4
    MaxCalls = 3
INVARIANT
    WireTypeOK
    InStep
    AnswerReported
PROPERTY
    CallsReturn
CHECK_DEADLOCK FALSE
