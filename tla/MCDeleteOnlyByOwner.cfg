\* DeleteResource against the administrator and other calls.
CONSTANTS
    a = a
    b = b
    g = g
    x = x
    y = y
    q1 = q1
    q2 = q2
    Free = Free
    Poisoned = Poisoned
    Nobody = Nobody
    User <- TwoUsers
    Group <- NoGroup
    Urc <- OneUrc
    Req <- TwoReqs
    Calls <- Writes
    CliOps <- GrantsOnly
SPECIFICATION Spec
PROPERTY DeleteOnlyByOwner
