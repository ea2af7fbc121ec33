\* Two logins, two callbacks at a time, a clock that outruns every expiry.
CONSTANTS
    a = a
    b = b
    i1 = i1
    i2 = i2
    q1 = q1
    q2 = q2
    NoState = NoState
    State <- MCState
    Sid <- MCSid
    Req <- MCReq
    PendingTtl = 1
    Fallback = 2
    Lifetime = 1
    Leeway = 1
    MaxTime = 3
SPECIFICATION Spec
INVARIANTS TypeOK OneTaker SessionOfLogin ReadsWithGoodToken
PROPERTY LoginKept
