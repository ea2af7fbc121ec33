\* Two clients, four logins, a clock that outruns every expiry and its leeway.
CONSTANTS
    password = password
    github = github
    other = other
    mail = mail
    s1 = s1
    s2 = s2
    NoEmail = NoEmail
    Login <- MCLogin
    Email <- MCEmail
    email <- MCemail
    Verified <- MCVerified
    Exps <- MCExps
    Leeway = 1
    MaxTime = 3
    Slot <- MCSlot
SPECIFICATION Spec
SYMMETRY SlotSymmetry
INVARIANTS TypeOK NoExtension NoCollision FreshAccess
