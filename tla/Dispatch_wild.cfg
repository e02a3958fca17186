\* split packets, network errors, exceptions, clients that leave, few threads
SPECIFICATION Spec
CONSTANTS
    c1 = c1
    c2 = c2
    c3 = c3
    Clients = {c1, c2, c3}
    Impatient = {c2, c3}
    Flaky = {c1}
    Outcomes = {"answer", "throw", "assert"}
    NumThreads = 1
    PoolSize = 2
    MaxFds = 2
    MaxCommands = 1
SYMMETRY ClientSymmetry
CHECK_DEADLOCK FALSE
INVARIANT
    TypeOK
    NoJobTwice
    AnsweredOnce
    ConnectionsDistinct
