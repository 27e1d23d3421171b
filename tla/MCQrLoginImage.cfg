SPECIFICATION QrSpec
CONSTANTS
    Request = {r1, r2}
    Sid = {s1, s2}
    Known = {}
    None = None
INVARIANT ImageOfEverySession
