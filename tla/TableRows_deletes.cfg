\* three workers, two of them may delete
SPECIFICATION Spec
CONSTANTS
    w1 = w1
    w2 = w2
    w3 = w3
    Null = Null
    NoPredicate = NoPredicate
    Threads = {w1, w2, w3}
    Columns <- MCColumns
    Constraints <- MCConstraints
    DefaultOf <- MCDefaultOf
    Requests <- MixedRequests
    Preloaded <- ThreeRows
    MaxRequests = 1
CHECK_DEADLOCK FALSE
INVARIANTS
    RowsDistinct
    SearchDistinct
PROPERTY
    NoResurrection
