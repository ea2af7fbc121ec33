\* Checks, lookups and exchanges on two resources against every admin command.
CONSTANTS
    a = a
    b = b
    g = g
    x = x
    y = y
    q1 = q1
    q2 = q2
    Free = Free
    Poisoned = Poisoned
    Nobody = Nobody
    User <- OneUser
    Group <- OneGroup
    Urc <- TwoUrcs
    Req <- OneReq
    Calls <- Reads
    CliOps <- AllCliOps
SPECIFICATION Spec
SYMMETRY UrcSymmetry
INVARIANT AnswersHeld
