\* two inserts race
SPECIFICATION Spec
CONSTANTS
    w1 = w1
    w2 = w2
    w3 = w3
    Null = Null
    NoPredicate = NoPredicate
    Threads = {w1, w2}
    Columns <- MCColumns
    Constraints <- MCConstraints
    DefaultOf <- MCDefaultOf
    Requests <- InsertRequests
    Preloaded <- TwoRows
    MaxRequests = 1
CHECK_DEADLOCK FALSE
INVARIANT
    AutoIncrementUnique
