SPECIFICATION Spec
CONSTANTS
    Letters = {"a", "b"}
    MaxTopic = 4
    MaxFilter = 5
    Lengths <- MCLengths
INVARIANTS
    AcceptedIsValid
    MatchIsExact
    RoundTrip
PROPERTY
    LoopsEnd
CHECK_DEADLOCK FALSE
