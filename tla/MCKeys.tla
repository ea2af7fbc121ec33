-------------------------------- MODULE MCKeys --------------------------------
(* An instance of Keys for TLC.                                            *)
EXTENDS Keys

CONSTANTS p1, p2, q1, q2, k1, k2

MCKid == {p1, p2}
MCCall == {q1, q2}
MCKey == {k1, k2}
==============================================================================
