SPECIFICATION AdminSpec
CONSTANTS
    OpenID = {o1, o2}
    Admin = {r1, r2}
    Batches <- TwoIds
    Url = {u1}
    Empty = Empty
    None = None
    MaxId = 2
    MaxScans = 3
    MaxProxyId = 1
SYMMETRY Sym
INVARIANT SettingsStay
INVARIANT ProfileIsOneScan
INVARIANT BatchAnswersEveryId
PROPERTY StaleWritesMiss
