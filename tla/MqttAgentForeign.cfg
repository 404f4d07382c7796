SPECIFICATION Spec
CONSTANTS
    Tasks = {t1, t2}
    NoTask = NoTask
    Brokers = {0, 1}
    MaxParallelOps = 1
    QueueLength = 1
    MaxIdentifier = 3
    Strangers = TRUE
SYMMETRY Symmetry
INVARIANTS
    RepliesMatch
    SocketMatchesSession
