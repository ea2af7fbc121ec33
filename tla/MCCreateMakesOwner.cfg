\* CreateResource against the administrator's grants.
CONSTANTS
    a = a
    b = b
    g = g
    x = x
    y = y
    q1 = q1
    q2 = q2
    Free = Free
    Poisoned = Poisoned
    Nobody = Nobody
    User <- OneUser
    Group <- NoGroup
    Urc <- OneUrc
    Req <- OneReq
    Calls <- Writes
    CliOps <- GrantsOnly
SPECIFICATION Spec
PROPERTY CreateMakesOwner
