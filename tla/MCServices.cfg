SPECIFICATION ServicesSpec
CONSTANTS
    NumBuffers = 3
    BufferSize = 2
    Lengths = {1, 2, 3}
    MqttTask = mqtt
    AppTasks = {a1, a2}
    portBYTE_ALIGNMENT = 2
    xHeapStructSize = 2
    ucHeap = 9
    configTOTAL_HEAP_SIZE = 29
    SizeMod = 128
    Requests <- MCRequests
    Items <- MCItems
    Tasks = {h, m, l}
    High = h
    Middle = m
    Mutexes = {M1, M2}
    configMAX_PRIORITIES = 15
    uxBasePriority <- MCPriority
    Idle = Idle
    NoTask = NoTask
    Connections = {c1, c2}
    NoOne = NoOne
    MaxSockets = 2
SYMMETRY Symmetry
INVARIANTS
    Ownership
    NullOnlyWhenExhausted
    HeapExact
    ReadyListsExact
    PriorityRestored
    OneMutexExact
    CallsOnLiveObjects
    SocketsAccounted
PROPERTY
    CloseReleases
CHECK_DEADLOCK FALSE
