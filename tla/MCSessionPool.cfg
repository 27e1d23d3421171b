SPECIFICATION FairSpec
CONSTANTS
    Request = {r1, r2}
    Account = {a1}
    Proxy = {p1}
    Direct = direct
    DefaultProxy = direct
    FallbackDirect = TRUE
    LoginSlots = 1
    ShortlinkSlots = 1
    MaxCalls = 2
    None = None
INVARIANTS
    TypeOK
    LockDiscipline
    SingleFlight
    SlotsMatchHolders
    SessionsBelongToAccounts
    ProxyIsolation
PROPERTIES
    RefinesCache
    EveryCallReturns
