SPECIFICATION FairSpec
CONSTANTS
    Ids = {i1, i2}
    Topics = {t1, t2}
    NoTopic = NoTopic
    NumBuffers = 3
    MaxSubscriptions = 2
    TimeoutTicks = 2
    KeepAliveTicks = 2
    PingTimeoutTicks = 1
INVARIANTS
    BufferConservation
    SessionShape
    RxAssertions
    SubscriptionManager
PROPERTIES
    SessionSpec
    EveryOperationReported
    PingNotGivenUpEarly
