SPECIFICATION FairRenewSpec
CONSTANTS
    Account = {a1}
    Handler = {h1}
    Scheduler = scheduler
    MaxToken = 2
    MaxPasses = 2
    RenewMaxRetries = 2
    ExpiredRetry = 2
    None = None
INVARIANTS
    TokenKept
    DisabledRestsNextPass
PROPERTIES
    TimedOutWritesNothing
    PassEnds
