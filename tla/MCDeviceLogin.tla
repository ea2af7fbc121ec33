---------------------------- MODULE MCDeviceLogin ----------------------------
(* An instance of DeviceLogin for TLC.                                     *)
EXTENDS DeviceLogin

CONSTANTS a, b, k1, k2, q1, q2

MCClient == {a, b}
MCCode == {k1, k2}
MCReq == {q1, q2}
==============================================================================
