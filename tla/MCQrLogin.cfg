SPECIFICATION QrSpec
CONSTANTS
    Request = {r1, r2, r3}
    Sid = {s1, s2}
    Known = {s1}
    None = None
INVARIANTS
    OneExchangeAtATime
    ImagesGoWithSessions
PROPERTIES
    AuthorizedSessionsStay
    RequestsAnswered
