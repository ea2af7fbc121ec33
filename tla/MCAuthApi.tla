------------------------------ MODULE MCAuthApi ------------------------------
(* Small instances of AuthApi for TLC.                                     *)
EXTENDS AuthApi, TLC

CONSTANTS a, b, g, x, y, q1, q2

OneUser == {a}
TwoUsers == {a, b}
NoGroup == {}
OneGroup == {g}
OneUrc == {x}
TwoUrcs == {x, y}
OneReq == {q1}
TwoReqs == {q1, q2}

Writes == {"create", "delete"}
Reads == {"check", "lookup", "delete"}
GrantsOnly == {"grant", "revoke"}
NoCli == {}

UrcSymmetry == Permutations(TwoUrcs)
==============================================================================
