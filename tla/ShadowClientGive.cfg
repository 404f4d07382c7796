SPECIFICATION Spec
CONSTANTS
    Tasks = {t1}
    NoTask = NoTask
    Things = {th1}
    NoThing = NoThing
    MaxThings = 1
    Wanted = {{}}
    MaxCalls = 1
INVARIANTS
    GiveNeverFails
CHECK_DEADLOCK FALSE
