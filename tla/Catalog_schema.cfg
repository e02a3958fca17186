\* a schema is read after its table was dropped
SPECIFICATION Spec
CONSTANTS
    w1 = w1
    w2 = w2
    w3 = w3
    t1 = t1
    t2 = t2
    Threads = {w1, w2, w3}
    Names = {t1, t2}
    Scripts <- DropperScripts
    MaxStatements = 2
CHECK_DEADLOCK FALSE
INVARIANT
    SchemaOutlivesUse
