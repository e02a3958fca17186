\* two threads drop the same table: the catalog stays atomic
SPECIFICATION FairSpec
CONSTANTS
    w1 = w1
    w2 = w2
    w3 = w3
    t1 = t1
    t2 = t2
    Threads = {w1, w2, w3}
    Names = {t1, t2}
    Scripts <- DropperScripts
    MaxStatements = 2
CHECK_DEADLOCK FALSE
INVARIANT
    TypeOK
    MappedPairsAlive
    OwnersCounted
PROPERTY
    ImplementsAtomicCatalog
    StatementsEnd
