\* Two clients, two sessions, two requests at a time, with the fairness of the
\* clock and the polls.
CONSTANTS
    a = a
    b = b
    k1 = k1
    k2 = k2
    q1 = q1
    q2 = q2
    NoClient = NoClient
    NoCode = NoCode
    Client <- MCClient
    Code <- MCCode
    Req <- MCReq
SPECIFICATION FairSpec
INVARIANTS TypeOK TokenToStarter AnsweredIsGone OneToken
PROPERTIES LoginKept SessionsEnd
