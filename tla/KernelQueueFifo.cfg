SPECIFICATION Spec
CONSTANTS
    Tasks = {u, a}
    Urgent = u
    uxPriority <- MCPriority
    NoTask = NoTask
    Items = {x, y}
    NoItem = NoItem
    uxLength = 3
    MaxLock = 1
PROPERTY
    QueueSpec
