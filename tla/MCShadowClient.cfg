SPECIFICATION Spec
CONSTANTS
    Tasks = {t1, t2}
    NoTask = NoTask
    Things = {th1, th2}
    NoThing = NoThing
    MaxThings = 1
    Wanted = {{"deleted"}, {"updated", "delta"}, {}}
    MaxCalls = 2
SYMMETRY Symmetry
INVARIANTS
    TakeNeverFails
    OperationDataAlive
    UpdateReportsOwnAnswer
    BuffersReachCaller
PROPERTIES
    CleanupKeepsNotify
CHECK_DEADLOCK FALSE
