------------------------------ MODULE Ownership ------------------------------
(***************************************************************************)
(* What CreateResource and DeleteResource promise together about ownership *)
(* (auth/src/store.rs:101-103): registering a resource gives the one who   *)
(* registered it, and nobody else, the right to become its founder; while  *)
(* the resource stays registered nobody takes the founder's place, and it  *)
(* is removed only after its founder's grant is.                           *)
(***************************************************************************)
EXTENDS TLAPS

CONSTANTS User, Urc, Nobody

VARIABLES
    registered,   \* the resources that exist
    claimant,     \* who may still become the founder of a resource
    founder       \* who became the founder

ownershipVars == <<registered, claimant, founder>>

OwnershipInit ==
    /\ registered = {}
    /\ claimant = [u \in Urc |-> Nobody]
    /\ founder = [u \in Urc |-> Nobody]

Register(u, s) ==
    /\ u \notin registered
    /\ registered' = registered \cup {u}
    /\ claimant' = [claimant EXCEPT ![u] = s]
    /\ UNCHANGED founder

Claim(u) ==
    /\ claimant[u] # Nobody
    /\ founder[u] = Nobody
    /\ u \in registered
    /\ founder' = [founder EXCEPT ![u] = claimant[u]]
    /\ claimant' = [claimant EXCEPT ![u] = Nobody]
    /\ UNCHANGED registered

(* The claims of the resources F lapse: the creator held a grant already,  *)
(* its INSERT failed, or the server stopped before it.                     *)
Forfeit(F) ==
    /\ claimant' = [u \in Urc |-> IF u \in F THEN Nobody ELSE claimant[u]]
    /\ UNCHANGED <<registered, founder>>

(* The founder's grant is deleted, revoked or replaced by the admin's.     *)
Withdraw(u) ==
    /\ founder' = [founder EXCEPT ![u] = Nobody]
    /\ UNCHANGED <<registered, claimant>>

Remove(u) ==
    /\ founder[u] = Nobody
    /\ claimant[u] = Nobody
    /\ registered' = registered \ {u}
    /\ UNCHANGED <<claimant, founder>>

OwnershipNext ==
    \/ \E u \in Urc :
        \/ \E s \in User : Register(u, s)
        \/ Claim(u)
        \/ Withdraw(u)
        \/ Remove(u)
    \/ \E F \in SUBSET Urc : Forfeit(F)

OwnershipSpec == OwnershipInit /\ [][OwnershipNext]_ownershipVars

-----------------------------------------------------------------------------
(* What is not registered has neither founder nor claimant, and what has a *)
(* founder has no claimant.                                                *)
FoundedIsSettled ==
    \A u \in Urc :
        /\ u \notin registered => founder[u] = Nobody /\ claimant[u] = Nobody
        /\ founder[u] # Nobody => claimant[u] = Nobody

(* A founder gives way to nobody else, only the claimant becomes one, and a*)
(* resource that has one is not removed.                                   *)
FounderStays ==
    \A u \in Urc :
        /\ founder'[u] \in {founder[u], Nobody} \/ (founder[u] = Nobody /\ founder'[u] = claimant[u])
        /\ u \in registered /\ founder[u] # Nobody => u \in registered'

OwnershipInv ==
    /\ registered \subseteq Urc
    /\ DOMAIN claimant = Urc /\ DOMAIN founder = Urc
    /\ FoundedIsSettled

LEMMA OwnershipInvariant == OwnershipSpec => []OwnershipInv
<1>1. OwnershipInit => OwnershipInv
  BY DEF OwnershipInit, OwnershipInv, FoundedIsSettled
<1>2. OwnershipInv /\ [OwnershipNext]_ownershipVars => OwnershipInv'
  <2> SUFFICES ASSUME OwnershipInv, [OwnershipNext]_ownershipVars
               PROVE  OwnershipInv'
    OBVIOUS
  <2> USE DEF OwnershipInv, FoundedIsSettled
  <2>1. ASSUME NEW u \in Urc, NEW s \in User, Register(u, s)
        PROVE  OwnershipInv'
    BY <2>1 DEF Register
  <2>2. ASSUME NEW u \in Urc, Claim(u)
        PROVE  OwnershipInv'
    BY <2>2 DEF Claim
  <2>3. ASSUME NEW u \in Urc, Withdraw(u) \/ Remove(u)
        PROVE  OwnershipInv'
    BY <2>3 DEF Withdraw, Remove
  <2>4. ASSUME NEW F \in SUBSET Urc, Forfeit(F)
        PROVE  OwnershipInv'
    BY <2>4 DEF Forfeit
  <2>5. CASE UNCHANGED ownershipVars
    BY <2>5 DEF ownershipVars
  <2> QED BY <2>1, <2>2, <2>3, <2>4, <2>5 DEF OwnershipNext
<1> QED BY <1>1, <1>2, PTL DEF OwnershipSpec

(* Whatever implements Ownership: between the registration of a resource   *)
(* and its removal nobody takes its founder's place.                       *)
THEOREM FoundersStay == OwnershipSpec => []FoundedIsSettled /\ [][FounderStays]_ownershipVars
<1>1. OwnershipInv => FoundedIsSettled
  BY DEF OwnershipInv
<1>2. OwnershipInv /\ [OwnershipNext]_ownershipVars => [FounderStays]_ownershipVars
  BY DEF OwnershipInv, OwnershipNext, Register, Claim, Withdraw, Remove, Forfeit,
         FounderStays, ownershipVars
<1> QED BY <1>1, <1>2, OwnershipInvariant, PTL DEF OwnershipSpec
==============================================================================
