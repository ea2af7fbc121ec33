-------------------------------- MODULE Login --------------------------------
(***************************************************************************)
(* What a login promises, native (StartAuthSession and GetAuthSession of   *)
(* auth/src/main.rs) or through the browser (login and callback of         *)
(* web/src/main.rs): it is begun once, by one party, stays open for a      *)
(* while and is then granted, to the party that began it, or is over.  No  *)
(* restart, repeated answer or late answer opens it again.                 *)
(***************************************************************************)
EXTENDS TLAPS

CONSTANTS
    Id,         \* the logins
    Party,      \* those that may begin one
    NoParty

VARIABLES
    open,       \* the logins that may still be granted
    starter,    \* who began each login
    granted     \* <<party, login>> for the logins that were granted

vars == <<open, starter, granted>>

Init ==
    /\ open = {}
    /\ starter = [k \in Id |-> NoParty]
    /\ granted = {}

(* Others may be swept on the occasion.                                    *)
Begin(k, p) ==
    /\ starter[k] = NoParty
    /\ starter' = [starter EXCEPT ![k] = p]
    /\ k \in open' /\ open' \subseteq open \cup {k}
    /\ UNCHANGED granted

Grant(k) ==
    /\ k \in open
    /\ granted' = granted \cup {<<starter[k], k>>}
    /\ open' = open \ {k}
    /\ UNCHANGED starter

(* Denied, failed, expired or lost.                                        *)
Over ==
    /\ open' \subseteq open
    /\ UNCHANGED <<starter, granted>>

Next ==
    \/ \E k \in Id : Grant(k) \/ \E p \in Party : Begin(k, p)
    \/ Over

Spec == Init /\ [][Next]_vars

-----------------------------------------------------------------------------
(* The open logins were begun and are not granted; a login that was granted*)
(* went to its starter.                                                    *)
GrantedIsOver ==
    /\ \A k \in open : starter[k] # NoParty
    /\ \A p \in Party, k \in Id : <<p, k>> \in granted => p = starter[k] /\ k \notin open

(* A login that was begun keeps its starter, and once it is over it is not *)
(* opened again, and not granted either.                                   *)
NeverReopened ==
    \A k \in Id : starter[k] # NoParty =>
        /\ starter'[k] = starter[k]
        /\ k \notin open =>
            /\ k \notin open'
            /\ \A p \in Party : <<p, k>> \in granted' => <<p, k>> \in granted

LoginInv ==
    /\ open \subseteq Id
    /\ starter \in [Id -> Party \cup {NoParty}]
    /\ granted \subseteq Party \X Id
    /\ GrantedIsOver

LEMMA LoginInvariant ==
    ASSUME NoParty \notin Party
    PROVE  Spec => []LoginInv
<1>1. Init => LoginInv
  BY DEF Init, LoginInv, GrantedIsOver
<1>2. LoginInv /\ [Next]_vars => LoginInv'
  <2> SUFFICES ASSUME LoginInv, [Next]_vars
               PROVE  LoginInv'
    OBVIOUS
  <2> USE DEF LoginInv, GrantedIsOver
  <2>1. ASSUME NEW k \in Id, NEW p \in Party, Begin(k, p)
        PROVE  LoginInv'
    BY <2>1 DEF Begin
  <2>2. ASSUME NEW k \in Id, Grant(k)
        PROVE  LoginInv'
    BY <2>2 DEF Grant
  <2>3. CASE Over
    BY <2>3 DEF Over
  <2>4. CASE UNCHANGED vars
    BY <2>4 DEF vars
  <2> QED BY <2>1, <2>2, <2>3, <2>4 DEF Next
<1> QED BY <1>1, <1>2, PTL DEF Spec

(* Whatever implements Login: nobody but its starter is granted a login,   *)
(* and no step of the handlers opens it afterwards.                        *)
THEOREM GrantsAreFinal ==
    ASSUME NoParty \notin Party
    PROVE  Spec => []GrantedIsOver /\ [][NeverReopened]_vars
<1>1. LoginInv => GrantedIsOver
  BY DEF LoginInv
<1>2. LoginInv /\ [Next]_vars => [NeverReopened]_vars
  BY DEF LoginInv, Next, Begin, Grant, Over, NeverReopened, vars
<1> QED BY <1>1, <1>2, LoginInvariant, PTL DEF Spec
==============================================================================
