\* CreateResource with statements that fail and restarts, no administrator.
CONSTANTS
    a = a
    b = b
    g = g
    x = x
    y = y
    q1 = q1
    q2 = q2
    Free = Free
    Poisoned = Poisoned
    Nobody = Nobody
    User <- OneUser
    Group <- NoGroup
    Urc <- OneUrc
    Req <- OneReq
    Calls <- Writes
    CliOps <- NoCli
SPECIFICATION Spec
PROPERTY CreatedIsOwned
