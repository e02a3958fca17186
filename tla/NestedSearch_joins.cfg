\* a condition is searched beside a worker
SPECIFICATION FairSearchSpec
CONSTANTS
    w1 = w1
    w2 = w2
    w3 = w3
    Null = Null
    NoPredicate = NoPredicate
    Threads = {w1, w2}
    Searcher = w1
    Columns <- MCColumns
    Constraints <- MCConstraints
    DefaultOf <- MCDefaultOf
    DataTypes <- MCDataTypes
    Commands <- MCCommands
    Garbage = {1}
    Requests <- WorkerRequests
    Preloaded <- TwoRows
    MaxRequests = 2
CHECK_DEADLOCK FALSE
INVARIANTS
    SearchTypeOK
    UntouchedRowsSelected
    SelectedRowsMeetCondition
    RowsSelectedOnce
    SelectedRowsReplaced
PROPERTY
    SearchEnds
