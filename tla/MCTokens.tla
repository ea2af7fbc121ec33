------------------------------- MODULE MCTokens -------------------------------
(* Instances of Tokens for TLC: a person with two logins, and two others   *)
(* whose logins claim the same email without having verified it.  The      *)
(* provider's sub of the second of them is that email.                     *)
EXTENDS Tokens, TLC

CONSTANTS password, github, other, mail, s1, s2

MCLogin == {password, github, other, mail}
MCEmail == {mail}
MCemail == [l \in Login |-> mail]
MCVerified == {password, github}
MCExps == {1}
MCSlot == {s1, s2}
SlotSymmetry == Permutations(MCSlot)
==============================================================================
