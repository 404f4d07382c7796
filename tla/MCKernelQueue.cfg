SPECIFICATION Spec
CONSTANTS
    Tasks = {u, a, b}
    Urgent = u
    uxPriority <- MCPriority
    NoTask = NoTask
    Items = {x}
    NoItem = NoItem
    uxLength = 2
    MaxLock = 2
SYMMETRY Symmetry
INVARIANT
    NoLostWakeup
