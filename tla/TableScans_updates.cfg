\* SQL statements of two workers: no deletes
SPECIFICATION FairHistorySpec
CONSTANTS
    w1 = w1
    w2 = w2
    w3 = w3
    Null = Null
    NoPredicate = NoPredicate
    Threads = {w1, w2}
    Columns <- MCColumns
    Constraints <- MCConstraints
    DefaultOf <- MCDefaultOf
    Requests <- UpdateRequests
    Preloaded <- TwoRows
    MaxRequests = 2
CHECK_DEADLOCK FALSE
INVARIANTS
    TypeOK
    StableRowsSeen
    MatchingRowsReplaced
PROPERTY
    ImplementsAtomicTable
    StatementsAnswered
