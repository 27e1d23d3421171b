SPECIFICATION LoginSpec
CONSTANTS
    Lookup = {long, short, rival}
    Long = long
    Short = short
    Answer <- TwoAnswers
    Flight <- Flights
    CacheTTL = 1
    MaxTime = 2
    MaxTargets = 2
    Nil = Nil
    None = None
INVARIANTS
    RecordsAccepted
    NeverOwnFault
    SessionIsUsable
    ConnectionsClosed
    AnswersAreFresh
PROPERTIES
    LoginReturns
