\* One person with two logins: a raw id token and a login token.
CONSTANTS
    password = password
    github = github
    other = other
    mail = mail
    s1 = s1
    s2 = s2
    NoEmail = NoEmail
    Login <- MCLogin
    Email <- MCEmail
    email <- MCemail
    Verified <- MCVerified
    Exps <- MCExps
    Leeway = 1
    MaxTime = 3
    Slot <- MCSlot
SPECIFICATION Spec
SYMMETRY SlotSymmetry
INVARIANT AccountUnified
