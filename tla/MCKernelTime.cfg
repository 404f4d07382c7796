SPECIFICATION Spec
CONSTANTS
    Tasks = {bulb, a, b}
    Periodic = {bulb}
    NoTask = NoTask
    TickMod = 6
    MaxWait = 3
    MaxLate = 2
    MaxPended = 1
    OverflowMod = 2
SYMMETRY Symmetry
INVARIANT
    DelaysExact
