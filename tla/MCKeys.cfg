\* Two provider keys, two calls at a time, two signing keys.
CONSTANTS
    p1 = p1
    p2 = p2
    q1 = q1
    q2 = q2
    k1 = k1
    k2 = k2
    NoKid = NoKid
    Absent = Absent
    Torn = Torn
    Kid <- MCKid
    Call <- MCCall
    Key <- MCKey
SPECIFICATION FairSpec
INVARIANTS TypeOK SteadyKeyAccepted TokensStayOurs LoreTrustsSigner
PROPERTIES LookupsEnd LoreComesUp
