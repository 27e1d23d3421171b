SPECIFICATION FairRenewSpec
CONSTANTS
    Account = {a1}
    Handler = {h1}
    Scheduler = scheduler
    MaxToken = 1
    MaxPasses = 5
    RenewMaxRetries = 3
    ExpiredRetry = 2
    None = None
INVARIANT RevivalWindow
