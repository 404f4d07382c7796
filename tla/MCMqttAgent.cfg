SPECIFICATION FairSpec
CONSTANTS
    Tasks = {t1, t2}
    NoTask = NoTask
    Brokers = {0}
    MaxParallelOps = 1
    QueueLength = 1
    MaxIdentifier = 3
    Strangers = FALSE
INVARIANTS
    ReplyAccounting
    SlotsMatchLibrary
PROPERTY
    EveryCallReturns
