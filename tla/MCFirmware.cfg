SPECIFICATION Spec
CONSTANTS
    Bulbs = {b1, b2}
    NoBulb = NoBulb
    UpdateQueueLength = 4
    ServerDates <- MCServerDates
    NoDate = NoDate
    TimeoutPool = 3
    DnsRequests = 2
    RetryMax = 10
    MaxFlight = 2
    MaxTicks = 2
    Writers = {SystemTime, Lwip, UpLwIP}
    Terminal = Terminal
    NoTask = NoTask
    StringLength = 3
    RxQueueLength = 2
INVARIANTS
    NotifiedOnce
    CalendarFollows
    CalendarExists
    StringsWhole
PROPERTIES
    EveryUpdateNotified
    AsksAgain
    EveryStringPrinted
CHECK_DEADLOCK FALSE
