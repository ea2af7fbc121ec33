----------------------------- MODULE TokensProofs -----------------------------
(***************************************************************************)
(* Proofs about Tokens, for every set of logins, emails and clients, every *)
(* leeway and every expiry.  The inductive invariant says where a token    *)
(* comes from: through any chain of exchanges it keeps the expiry of the   *)
(* id token it began with, its subject is one of the two names that login  *)
(* has, and its access is its subject's unless that was taken away since.  *)
(***************************************************************************)
EXTENDS Tokens, FiniteSetTheorems, TLAPS

AtMostOne(S) == S = {} \/ \E x \in S : S = {x}

(* A client has one call, and keeps one token.                             *)
OneInv ==
    \A s \in Slot : AtMostOne(call[s]) /\ AtMostOne(wallet[s])

(* What exchanges preserve of a token.                                     *)
Descends(m) ==
    /\ m.exp = m.id.exp
    /\ m.sub \in {m.id.login, canonical_subject(m.id.login)}

TokenInv ==
    \A s \in Slot : \A m \in wallet[s] :
        /\ Descends(m)
        /\ m.access /\ ~m.late => m.sub \in access

IInv == TypeOK /\ OneInv /\ TokenInv

-----------------------------------------------------------------------------
LEMMA OneIsFew ==
    ASSUME NEW S, AtMostOne(S)
    PROVE  Cardinality(S) <= 1
<1>1. CASE S = {}
  BY <1>1, FS_EmptySet
<1>2. CASE \E x \in S : S = {x}
  <2>1. PICK x \in S : S = {x}
    BY <1>2
  <2>2. Cardinality(S) = 1
    BY <2>1, FS_Singleton
  <2> QED BY <2>2
<1> QED BY <1>1, <1>2 DEF AtMostOne

(* The account of a login is one of the store's user ids.                  *)
LEMMA CanonicalType ==
    ASSUME NEW l \in Login
    PROVE  canonical_subject(l) \in Subject
BY ClaimsAssumption DEF canonical_subject, Subject

LEMMA InitIInv == Init => IInv
<1> SUFFICES ASSUME Init PROVE IInv
  OBVIOUS
<1>1. OneInv
  BY DEF Init, OneInv, AtMostOne
<1>2. TypeOK
  BY <1>1, OneIsFew, TimeAssumption DEF Init, TypeOK, OneInv
<1>3. TokenInv
  BY DEF Init, TokenInv
<1> QED BY <1>1, <1>2, <1>3 DEF IInv

(* A call begins, or ends without a token.                                 *)
LEMMA CallStep ==
    ASSUME IInv, NEW s \in Slot, NEW S \in SUBSET (Purpose \X IdToken), AtMostOne(S),
           call' = [call EXCEPT ![s] = S], UNCHANGED <<clock, access, wallet>>
    PROVE  IInv'
<1> USE DEF IInv
<1>1. OneInv'
  BY DEF OneInv, TypeOK
<1>2. \A r \in Slot : Cardinality(call'[r]) <= 1 /\ Cardinality(wallet'[r]) <= 1
  BY <1>1, OneIsFew DEF OneInv
<1>3. TypeOK'
  BY <1>2 DEF TypeOK
<1>4. TokenInv'
  BY DEF TokenInv
<1> QED BY <1>1, <1>3, <1>4

(* A token that descends from a login takes the place of the slot's last.  *)
LEMMA MintStep ==
    ASSUME IInv, NEW s \in Slot, NEW kind \in {"authn", "authz"}, NEW sub \in Subject,
           NEW granted \in BOOLEAN, NEW id \in IdToken,
           sub \in {id.login, canonical_subject(id.login)},
           granted => sub \in access, kind = "authn" => ~granted,
           Mint(s, kind, sub, id.exp, granted, id),
           call' = call \/ call' = [call EXCEPT ![s] = {}],
           UNCHANGED <<clock, access>>
    PROVE  IInv'
<1> DEFINE m == [kind |-> kind, sub |-> sub, exp |-> id.exp, access |-> granted,
                 id |-> id, late |-> FALSE]
<1> USE DEF IInv
<1>1. /\ m \in Minted /\ Descends(m)
      /\ m.kind = "authn" => ~m.access
      /\ m.access => m.sub \in access
  BY TimeAssumption DEF Minted, Descends, IdToken
<1>2. wallet' = [wallet EXCEPT ![s] = {m}]
  BY DEF Mint, Expiry
<1> HIDE DEF m
<1>3. OneInv'
  BY <1>2 DEF OneInv, AtMostOne, TypeOK
<1>4. \A r \in Slot : Cardinality(call'[r]) <= 1 /\ Cardinality(wallet'[r]) <= 1
  BY <1>3, OneIsFew DEF OneInv
<1>5. TypeOK'
  BY <1>1, <1>2, <1>4 DEF TypeOK
<1>6. TokenInv'
  BY <1>1, <1>2 DEF TokenInv, TypeOK
<1> QED BY <1>3, <1>5, <1>6

LEMMA LoginStep ==
    ASSUME IInv, NEW s \in Slot, NEW t \in IdToken, MintAuthn(s, t) \/ MintAuthz(s, t)
    PROVE  IInv'
<1>1. t.login \in Login /\ t.login \in Subject /\ canonical_subject(t.login) \in Subject
  BY CanonicalType DEF IdToken, Subject
<1>2. CASE MintAuthn(s, t)
  BY <1>1, <1>2, MintStep DEF MintAuthn
<1>3. CASE MintAuthz(s, t)
  <2> DEFINE g == t.login \in access
  <2>1. /\ g \in BOOLEAN /\ (g => t.login \in access)
        /\ call' = [call EXCEPT ![s] = {}] /\ UNCHANGED <<clock, access>>
        /\ Mint(s, "authz", t.login, t.exp, g, t)
    BY <1>3 DEF MintAuthz
  <2> HIDE DEF g
  <2> QED BY <1>1, <2>1, MintStep
<1> QED BY <1>2, <1>3

(* The exchange of a token of our own keeps its subject and its expiry, and*)
(* reads the access anew.                                                  *)
LEMMA ExchangeStep ==
    ASSUME IInv, NEW s \in Slot, NEW r \in Slot, NEW m \in wallet[r], ExchangeOwn(s, m)
    PROVE  IInv'
<1>1. /\ m.sub \in Subject /\ m.id \in IdToken /\ m.exp = m.id.exp
      /\ m.sub \in {m.id.login, canonical_subject(m.id.login)}
  BY DEF IInv, TypeOK, TokenInv, Descends, Minted
<1> DEFINE g == Granted(m)
<1>2. /\ g \in BOOLEAN /\ (g => m.sub \in access)
      /\ call' = call /\ UNCHANGED <<clock, access>>
      /\ Mint(s, "authz", m.sub, m.id.exp, g, m.id)
  BY <1>1 DEF ExchangeOwn, Granted
<1> HIDE DEF g
<1> QED BY <1>1, <1>2, MintStep

LEMMA GiveStep ==
    ASSUME IInv, NEW u \in Subject, GiveAccess(u)
    PROVE  IInv'
<1> USE DEF IInv, GiveAccess
<1>1. TypeOK'
  BY DEF TypeOK
<1>2. OneInv'
  BY DEF OneInv
<1>3. TokenInv'
  BY DEF TokenInv
<1> QED BY <1>1, <1>2, <1>3

(* The tokens of who lost access are marked, and are otherwise as before.  *)
LEMMA MarkedToken ==
    ASSUME NEW m \in Minted, NEW b \in BOOLEAN
    PROVE  LET n == [m EXCEPT !.late = b]
           IN  /\ n \in Minted
               /\ n.kind = m.kind /\ n.sub = m.sub /\ n.exp = m.exp
               /\ n.access = m.access /\ n.id = m.id /\ n.late = b
BY DEF Minted

LEMMA TakeStep ==
    ASSUME IInv, NEW u \in Subject, TakeAccess(u)
    PROVE  IInv'
<1> DEFINE Mark(m) == [m EXCEPT !.late = m.late \/ (m.sub = u /\ m.access)]
<1> USE DEF IInv
<1>1. \A s \in Slot : wallet'[s] = {Mark(m) : m \in wallet[s]}
  BY DEF TakeAccess
<1>2. \A m \in Minted :
        /\ Mark(m) \in Minted
        /\ Mark(m).kind = m.kind /\ Mark(m).sub = m.sub /\ Mark(m).exp = m.exp
        /\ Mark(m).access = m.access /\ Mark(m).id = m.id
        /\ Mark(m).late = (m.late \/ (m.sub = u /\ m.access))
  BY MarkedToken DEF Minted
<1> HIDE DEF Mark
<1>3. OneInv'
  BY <1>1 DEF OneInv, AtMostOne, TakeAccess
<1>4. \A r \in Slot : Cardinality(call'[r]) <= 1 /\ Cardinality(wallet'[r]) <= 1
  BY <1>3, OneIsFew DEF OneInv
<1>5. TypeOK'
  <2>1. \A s \in Slot : wallet'[s] \subseteq Minted
    BY <1>1, <1>2 DEF TypeOK
  <2>2. \A s \in Slot : \A m \in wallet'[s] : m.kind = "authn" => ~m.access
    BY <1>1, <1>2 DEF TypeOK
  <2>3. DOMAIN wallet' = Slot /\ call' = call /\ clock' = clock /\ access' \subseteq access
    BY DEF TakeAccess
  <2> QED BY <1>4, <2>1, <2>2, <2>3 DEF TypeOK
<1>6. TokenInv'
  <2> SUFFICES ASSUME NEW s \in Slot, NEW m \in wallet[s]
               PROVE  /\ Descends(Mark(m))
                      /\ Mark(m).access /\ ~Mark(m).late => Mark(m).sub \in access'
    BY <1>1 DEF TokenInv
  <2>1. m \in Minted /\ Descends(m) /\ (m.access /\ ~m.late => m.sub \in access)
    BY DEF TypeOK, TokenInv
  <2>2. Descends(Mark(m))
    BY <1>2, <2>1 DEF Descends
  <2>3. Mark(m).access /\ ~Mark(m).late => m.access /\ ~m.late /\ m.sub # u
    BY <1>2, <2>1
  <2> QED BY <1>2, <2>1, <2>2, <2>3 DEF TakeAccess
<1> QED BY <1>3, <1>5, <1>6

LEMMA TickStep ==
    ASSUME IInv, Tick
    PROVE  IInv'
<1> USE DEF IInv, Tick
<1>1. TypeOK'
  BY TimeAssumption DEF TypeOK
<1>2. OneInv' /\ TokenInv'
  BY DEF OneInv, TokenInv
<1> QED BY <1>1, <1>2

LEMMA Invariant == Spec => []IInv
<1>1. IInv /\ [Next]_vars => IInv'
  <2> SUFFICES ASSUME IInv, [Next]_vars PROVE IInv'
    OBVIOUS
  <2>1. ASSUME NEW s \in Slot, NEW t \in IdToken, NEW p \in Purpose, Verify(s, p, t)
        PROVE  IInv'
    <3>1. {<<p, t>>} \in SUBSET (Purpose \X IdToken) /\ AtMostOne({<<p, t>>})
      BY DEF AtMostOne
    <3> QED BY <2>1, <3>1, CallStep DEF Verify
  <2>2. ASSUME NEW s \in Slot, Cut(s)
        PROVE  IInv'
    <3>1. {} \in SUBSET (Purpose \X IdToken) /\ AtMostOne({})
      BY DEF AtMostOne
    <3> QED BY <2>2, <3>1, CallStep DEF Cut
  <2>3. CASE UNCHANGED vars
    BY <2>3 DEF vars, IInv, TypeOK, OneInv, TokenInv
  <2> QED BY <2>1, <2>2, <2>3, LoginStep, ExchangeStep, GiveStep, TakeStep, TickStep DEF Next
<1> QED BY <1>1, InitIInv, PTL DEF Spec

-----------------------------------------------------------------------------
(* The types of calls and tokens; no authn token gives access.             *)
THEOREM TypeCorrect == Spec => []TypeOK
<1>1. IInv => TypeOK
  BY DEF IInv
<1> QED BY <1>1, Invariant, PTL

(* mint passes the verified expiry on: no chain of exchanges outlives the  *)
(* login it began with.                                                    *)
THEOREM NoneExtended == Spec => []NoExtension
<1>1. IInv => NoExtension
  <2> SUFFICES ASSUME IInv, NEW s \in Slot, NEW m \in wallet[s]
               PROVE  m.exp <= m.id.exp
    BY DEF NoExtension, Out
  <2>1. m.exp \in Nat /\ m.exp = m.id.exp
    BY DEF IInv, TypeOK, TokenInv, Descends, Minted
  <2> QED BY <2>1
<1> QED BY <1>1, Invariant, PTL

(* canonical_subject brings two logins together by a verified email only:  *)
(* of both, or of one whose email the provider uses as the other's sub.    *)
(* Nothing is assumed of what subs and emails look like.                   *)
THEOREM NoneCollides == Spec => []NoCollision
<1>1. IInv => NoCollision
  <2> SUFFICES ASSUME IInv, NEW s \in Slot, NEW r \in Slot,
                      NEW m \in wallet[s], NEW n \in wallet[r], m.sub = n.sub,
                      m.id.login # n.id.login
               PROVE  \/ OneAccount(m.id.login, n.id.login)
                      \/ SubIsEmail(m.id.login, n.id.login)
                      \/ SubIsEmail(n.id.login, m.id.login)
    BY DEF NoCollision, Out
  <2> DEFINE l == m.id.login
             k == n.id.login
  <2>1. l \in Login /\ k \in Login /\ l # k
    BY DEF IInv, TypeOK, Minted, IdToken
  <2>2. m.sub \in {l, canonical_subject(l)} /\ m.sub \in {k, canonical_subject(k)}
    BY DEF IInv, TokenInv, Descends
  <2> HIDE DEF l, k
  <2>3. CASE m.sub = l
    <3>1. canonical_subject(k) = l /\ l # k
      BY <2>1, <2>2, <2>3
    <3> QED BY <3>1 DEF canonical_subject, SubIsEmail, l, k
  <2>4. CASE m.sub = k
    <3>1. canonical_subject(l) = k /\ l # k
      BY <2>1, <2>2, <2>4
    <3> QED BY <3>1 DEF canonical_subject, SubIsEmail, l, k
  <2>5. CASE m.sub # l /\ m.sub # k
    <3>1. m.sub = canonical_subject(l) /\ m.sub = canonical_subject(k)
      BY <2>2, <2>5
    <3> QED BY <2>5, <3>1 DEF canonical_subject, OneAccount, l, k
  <2> QED BY <2>3, <2>4, <2>5
<1> QED BY <1>1, Invariant, PTL

(* role_for is read at the mint, never taken from the presented token: a   *)
(* token minted after a revocation gives no access.                        *)
THEOREM AccessIsFresh == Spec => []FreshAccess
<1>1. IInv => FreshAccess
  BY DEF IInv, TokenInv, FreshAccess, Out
<1> QED BY <1>1, Invariant, PTL
==============================================================================
