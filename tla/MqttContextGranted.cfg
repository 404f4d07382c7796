SPECIFICATION FairSpec
CONSTANTS
    Ids = {i1, i2}
    Topics = {t1}
    NoTopic = NoTopic
    NumBuffers = 3
    MaxSubscriptions = 2
    TimeoutTicks = 2
    KeepAliveTicks = 2
    PingTimeoutTicks = 1
PROPERTY GrantedHasCallback
