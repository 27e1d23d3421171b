SPECIFICATION WxSpec
CONSTANTS
    Request = {r1, r2}
    Account = {a1}
    Proxy = {p1}
    Direct = direct
    DefaultProxy = p1
    FallbackDirect = TRUE
    LoginSlots = 1
    ShortlinkSlots = 1
    MaxCalls = 2
    MaxTargets = 1
    None = None
INVARIANT RetryUsesFreshSession
