\* patient clients, a sound network: the server implements the promise
SPECIFICATION FairSpec
CONSTANTS
    c1 = c1
    c2 = c2
    c3 = c3
    Clients = {c1, c2}
    Impatient = {}
    Flaky = {}
    Outcomes = {"answer"}
    NumThreads = 2
    PoolSize = 2
    MaxFds = 2
    MaxCommands = 2
INVARIANT
    AnswersMatch
PROPERTY
    ImplementsServer
