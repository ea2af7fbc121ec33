------------------------------- MODULE MCWebBff -------------------------------
(* An instance of WebBff for TLC.                                          *)
EXTENDS WebBff

CONSTANTS a, b, i1, i2, q1, q2

MCState == {a, b}
MCSid == {i1, i2}
MCReq == {q1, q2}
==============================================================================
