SPECIFICATION ShortSpec
CONSTANTS
    Conn = {1, 2}
    T = 1
    MaxTime = 5
    Bound <- Replies
    Call <- Calls
    MaxTargets = 2
    UinBits = 24
    MaxRecord = 667
INVARIANTS
    CodeIsTheAnswers
    FailsByOthersOnly
    EgressAllowed
    EndsInTime
PROPERTIES
    TunnelsEnd
