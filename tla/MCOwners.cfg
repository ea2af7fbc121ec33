\* Two users create and delete one resource; the administrator grants and revokes.
CONSTANTS
    a = a
    b = b
    g = g
    x = x
    y = y
    q1 = q1
    q2 = q2
    Free = Free
    Poisoned = Poisoned
    Nobody = Nobody
    User <- TwoUsers
    Group <- NoGroup
    Urc <- OneUrc
    Req <- TwoReqs
    Calls <- Writes
    CliOps <- GrantsOnly
SPECIFICATION Spec
INVARIANTS TypeOK SingleFounder FounderHasRow DeleteAuthorised
PROPERTY OwnershipKept
