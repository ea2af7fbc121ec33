----------------------------- MODULE WebBffProofs -----------------------------
(***************************************************************************)
(* Proofs about WebBff, for every set of logins, session ids and callbacks *)
(* and all periods.  The inductive invariant follows a state from the      *)
(* pending map to the callback that took it to the session it made: it is  *)
(* in one of the three places at most, for good.                           *)
(***************************************************************************)
EXTENDS WebBff, FiniteSetTheorems, TLAPS

(* A callback on its way took a state that was begun, and once the code is *)
(* redeemed it is that state's.                                            *)
TakenInv ==
    \A q \in Req :
        /\ pc[q] # "idle" => phase[taken[q]] # "fresh"
        /\ pc[q] \in {"external", "create"} => code[q] = taken[q]

(* A state that made a session is nowhere else.                            *)
MadeInv ==
    \A c, s \in State : <<c, s>> \in made =>
        /\ c = s
        /\ s \notin pending /\ phase[s] # "fresh"
        /\ \A q \in Req : pc[q] # "idle" => taken[q] # s

(* A session was made of its login, and goes when its token does if it was *)
(* good then.                                                              *)
SessionsInv ==
    \A x \in sessions :
        /\ <<x.code, x.login>> \in made
        /\ x.born < x.token => x.expires_at = x.token

IInv ==
    /\ TypeOK
    /\ OneTaker /\ TakenInv /\ MadeInv
    /\ SessionsInv /\ SessionOfLogin /\ ReadsWithGoodToken

-----------------------------------------------------------------------------
(* The clock and every period ahead of it are times.                       *)
LEMMA Times ==
    ASSUME TypeOK
    PROVE  /\ clock \in Time /\ clock + PendingTtl \in Time
           /\ clock + Lifetime \in Time /\ clock + Fallback \in Time
BY PeriodsAssumption DEF TypeOK, Time

LEMMA InitIInv == Init => IInv
<1> SUFFICES ASSUME Init
             PROVE  IInv
  OBVIOUS
<1>1. TypeOK
  <2>1. 0 \in Time /\ 0 \in 0..MaxTime /\ Cardinality(reading) <= 1
    BY PeriodsAssumption, FS_EmptySet DEF Init, Time
  <2> QED BY <2>1 DEF Init, TypeOK, Phases
<1>2. OneTaker /\ TakenInv /\ MadeInv /\ SessionsInv /\ SessionOfLogin /\ ReadsWithGoodToken
  BY DEF Init, OneTaker, TakenInv, MadeInv, SessionsInv, SessionOfLogin, ReadsWithGoodToken
<1> QED BY <1>1, <1>2 DEF IInv

-----------------------------------------------------------------------------
(* Steps that change no session: what is known of those remains.           *)
LEMMA SessionsUntouched ==
    ASSUME IInv, UNCHANGED <<sessions, reading, made>>
    PROVE  SessionsInv' /\ SessionOfLogin' /\ ReadsWithGoodToken'
BY DEF IInv, SessionsInv, SessionOfLogin, ReadsWithGoodToken

LEMMA LoginStep ==
    ASSUME IInv, NEW s \in State, Login(s)
    PROVE  IInv'
<1> USE DEF IInv, Login, requests
<1>1. TypeOK'
  <2>1. clock + PendingTtl \in Time
    BY Times
  <2> QED BY <2>1, PeriodsAssumption DEF TypeOK, Phases, Time
<1>2. OneTaker' /\ TakenInv'
  BY DEF TypeOK, OneTaker, TakenInv
<1>3. MadeInv'
  BY DEF TypeOK, MadeInv
<1> QED BY <1>1, <1>2, <1>3, SessionsUntouched

(* The browser and the provider move a login on.                           *)
LEMMA PhaseStep ==
    ASSUME IInv, NEW s \in State, Redirected(s) \/ CodeIssued(s)
    PROVE  IInv'
<1> USE DEF IInv, Redirected, CodeIssued, requests
<1>1. TypeOK'
  BY DEF TypeOK, Phases
<1>2. OneTaker' /\ TakenInv' /\ MadeInv'
  BY DEF TypeOK, OneTaker, TakenInv, MadeInv
<1> QED BY <1>1, <1>2, SessionsUntouched

LEMMA CallbackStep ==
    ASSUME IInv, NEW q \in Req, NEW s \in State, NEW c \in State, Callback(q, s, c)
    PROVE  IInv'
<1> USE DEF IInv, Callback, Known, Remaining, Goto
<1>1. TypeOK'
  BY DEF TypeOK
<1>2. OneTaker'
  BY DEF TypeOK, OneTaker
<1>3. TakenInv'
  BY DEF TypeOK, TakenInv
<1>4. MadeInv'
  BY DEF TypeOK, MadeInv
<1> QED BY <1>1, <1>2, <1>3, <1>4, SessionsUntouched

(* The provider's check of the verifier ties the code to the state.        *)
LEMMA RedeemedStep ==
    ASSUME IInv, NEW q \in Req, Redeemed(q)
    PROVE  IInv'
<1> USE DEF IInv, Redeemed, Goto
<1>0. code[q] = taken[q]
  BY NoStateAssumption DEF TypeOK, Accepts, Challenge
<1>1. TypeOK'
  <2>1. clock + Lifetime \in Time
    BY Times
  <2> QED BY <2>1 DEF TypeOK, Phases
<1>2. OneTaker'
  BY DEF TypeOK, OneTaker
<1>3. TakenInv'
  BY <1>0 DEF TypeOK, TakenInv
<1>4. MadeInv'
  BY DEF TypeOK, MadeInv
<1> QED BY <1>1, <1>2, <1>3, <1>4, SessionsUntouched

LEMMA MoveStep ==
    ASSUME IInv, NEW q \in Req, Exchanged(q) \/ CallbackEnds(q)
    PROVE  IInv'
<1> USE DEF IInv, Exchanged, CallbackEnds, Goto, logins
<1>1. TypeOK'
  BY DEF TypeOK
<1>2. OneTaker' /\ TakenInv'
  BY DEF TypeOK, OneTaker, TakenInv
<1>3. MadeInv'
  BY DEF TypeOK, MadeInv
<1> QED BY <1>1, <1>2, <1>3, SessionsUntouched

(* The session that a callback makes is the only one of its login.         *)
LEMMA CreatedStep ==
    ASSUME IInv, NEW q \in Req, NEW i \in Sid, Created(q, i)
    PROVE  IInv'
<1> USE DEF IInv, Created, Goto, logins
<1> DEFINE new == [sid |-> i, login |-> taken[q], code |-> code[q],
                   expires_at |-> ExpiresAt(exp[q]), born |-> clock, token |-> exp[q]]
<1>0. /\ sessions' = Unexpired \cup {new} /\ Unexpired \subseteq sessions
      /\ made' = made \cup {<<code[q], taken[q]>>}
      /\ code[q] = taken[q] /\ taken[q] \in State /\ exp[q] \in Time
      /\ taken[q] \notin pending /\ phase[taken[q]] # "fresh"
      /\ \A r \in Req \ {q} : pc[r] # "idle" => taken[r] # taken[q]
  BY DEF Unexpired, TypeOK, TakenInv, OneTaker
<1>1. new \in Session
  <2>1. ExpiresAt(exp[q]) \in Time /\ clock \in Time
    BY <1>0, Times DEF ExpiresAt
  <2> QED BY <1>0, <2>1 DEF Session
<1>2. \A x \in sessions : x.sid # i /\ x.login # taken[q]
  <2> SUFFICES ASSUME NEW x \in sessions
               PROVE  x.sid # i /\ x.login # taken[q]
    OBVIOUS
  <2>1. x.login \in State /\ x.code \in State /\ <<x.code, x.login>> \in made
    BY DEF TypeOK, Session, SessionsInv
  <2> QED BY <2>1 DEF MadeInv
<1> HIDE DEF new
<1>3. new.sid = i /\ new.login = taken[q] /\ new.code = code[q]
      /\ new.expires_at = ExpiresAt(exp[q]) /\ new.born = clock /\ new.token = exp[q]
  BY DEF new
<1>4. TypeOK'
  <2>1. sessions' \subseteq Session
    BY <1>0, <1>1 DEF TypeOK
  <2>2. made' \subseteq State \X State
    BY <1>0 DEF TypeOK
  <2>3. \A x, y \in sessions' : x.sid = y.sid => x = y
    BY <1>0, <1>2, <1>3 DEF TypeOK
  <2> QED BY <2>1, <2>2, <2>3 DEF TypeOK
<1>5. OneTaker' /\ TakenInv'
  BY DEF TypeOK, OneTaker, TakenInv
<1>6. MadeInv'
  BY <1>0 DEF TypeOK, MadeInv
<1>7. SessionsInv'
  <2>1. new.born < new.token => new.expires_at = new.token
    BY <1>0, <1>3, PeriodsAssumption DEF ExpiresAt, TypeOK, Time
  <2> QED BY <1>0, <1>3, <2>1 DEF SessionsInv
<1>8. SessionOfLogin'
  BY <1>0, <1>2, <1>3 DEF SessionOfLogin
<1>9. ReadsWithGoodToken'
  BY DEF ReadsWithGoodToken
<1> QED BY <1>4, <1>5, <1>6, <1>7, <1>8, <1>9

LEMMA LogoutStep ==
    ASSUME IInv, NEW i \in Sid, Logout(i)
    PROVE  IInv'
<1> USE DEF IInv, Logout, logins, requests
<1>1. TypeOK'
  BY DEF TypeOK
<1>2. OneTaker' /\ TakenInv' /\ MadeInv'
  BY DEF OneTaker, TakenInv, MadeInv
<1>3. SessionsInv' /\ SessionOfLogin' /\ ReadsWithGoodToken'
  BY DEF SessionsInv, SessionOfLogin, ReadsWithGoodToken
<1> QED BY <1>1, <1>2, <1>3

(* repos finds no expired session, and one that was good when it was made  *)
(* expires with its token.                                                 *)
LEMMA ReposStep ==
    ASSUME IInv, NEW i \in Sid, Repos(i)
    PROVE  IInv'
<1> USE DEF IInv
<1>0. PICK x \in Get(i) : reading' = {[session |-> x, at |-> clock]}
  BY DEF Repos
<1> DEFINE r == [session |-> x, at |-> clock]
<1>1. x \in sessions /\ x \in Session /\ x.expires_at > clock
  BY DEF Get, TypeOK
<1>2. r.session = x /\ r.at = clock /\ r \in Reading
  BY <1>1, Times DEF Reading
<1>3. reading' = {r}
  BY <1>0
<1> HIDE DEF r
<1>4. TypeOK'
  <2>1. Cardinality({r}) = 1
    BY FS_Singleton
  <2>2. Cardinality(reading') <= 1
    BY <1>3, <2>1
  <2>3. reading' \subseteq Reading
    BY <1>2, <1>3
  <2> QED BY <2>2, <2>3 DEF TypeOK, Repos, logins, requests
<1>5. OneTaker' /\ TakenInv' /\ MadeInv' /\ SessionsInv' /\ SessionOfLogin'
  BY DEF OneTaker, TakenInv, MadeInv, SessionsInv, SessionOfLogin, Repos, logins, requests
<1>6. ReadsWithGoodToken'
  <2>1. x.born < x.token => x.expires_at = x.token
    BY <1>1 DEF SessionsInv
  <2>2. x.expires_at \in Int /\ x.token \in Int /\ clock \in Int
    BY <1>1, PeriodsAssumption DEF TypeOK, Session, Time
  <2>3. r.session.born < r.session.token => r.at < r.session.token
    BY <1>1, <1>2, <2>1, <2>2
  <2> QED BY <1>3, <2>3 DEF ReadsWithGoodToken
<1> QED BY <1>4, <1>5, <1>6

LEMMA ListedStep ==
    ASSUME IInv, Listed
    PROVE  IInv'
<1> USE DEF IInv, Listed, logins, requests
<1>1. TypeOK'
  BY FS_EmptySet DEF TypeOK
<1>2. OneTaker' /\ TakenInv' /\ MadeInv' /\ SessionsInv' /\ SessionOfLogin'
  BY DEF OneTaker, TakenInv, MadeInv, SessionsInv, SessionOfLogin
<1>3. ReadsWithGoodToken'
  BY DEF ReadsWithGoodToken
<1> QED BY <1>1, <1>2, <1>3

LEMMA RestartStep ==
    ASSUME IInv, Restart
    PROVE  IInv'
<1> USE DEF IInv, Restart
<1>1. TypeOK'
  BY FS_EmptySet DEF TypeOK, Phases
<1>2. OneTaker' /\ TakenInv'
  BY DEF OneTaker, TakenInv
<1>3. MadeInv'
  BY DEF TypeOK, MadeInv
<1>4. SessionsInv' /\ SessionOfLogin' /\ ReadsWithGoodToken'
  BY DEF SessionsInv, SessionOfLogin, ReadsWithGoodToken
<1> QED BY <1>1, <1>2, <1>3, <1>4

LEMMA TickStep ==
    ASSUME IInv, Tick
    PROVE  IInv'
<1> USE DEF IInv, Tick, logins, requests
<1>1. TypeOK'
  BY PeriodsAssumption DEF TypeOK, Time
<1>2. OneTaker' /\ TakenInv' /\ MadeInv'
  BY DEF OneTaker, TakenInv, MadeInv
<1> QED BY <1>1, <1>2, SessionsUntouched

LEMMA StepIInv ==
    ASSUME IInv, [Next]_vars
    PROVE  IInv'
<1>1. CASE UNCHANGED vars
  <2>1. TypeOK'
    BY <1>1 DEF IInv, TypeOK, vars, logins, requests
  <2>2. OneTaker' /\ TakenInv' /\ MadeInv'
    BY <1>1 DEF IInv, OneTaker, TakenInv, MadeInv, vars, logins, requests
  <2> QED BY <1>1, <2>1, <2>2, SessionsUntouched DEF vars, IInv
<1> QED
  BY <1>1, LoginStep, PhaseStep, CallbackStep, RedeemedStep, MoveStep, CreatedStep, LogoutStep,
     ReposStep, ListedStep, RestartStep, TickStep DEF Next

LEMMA Invariant == Spec => []IInv
BY InitIInv, StepIInv, PTL DEF Spec

-----------------------------------------------------------------------------
(* Both tables, the callbacks and the calls of repos keep their types.     *)
THEOREM TypeCorrect == Spec => []TypeOK
<1>1. IInv => TypeOK
  BY DEF IInv
<1> QED BY <1>1, Invariant, PTL

(* take_pending gives a state to one callback, for any number of them.     *)
THEOREM OneTakerEach == Spec => []OneTaker
<1>1. IInv => OneTaker
  BY DEF IInv
<1> QED BY <1>1, Invariant, PTL

(* A session is made of the code of its own login, and no login makes two. *)
THEOREM SessionsOfLogins == Spec => []SessionOfLogin
<1>1. IInv => SessionOfLogin
  BY DEF IInv
<1> QED BY <1>1, Invariant, PTL

(* repos starts no call with a token that expired in its session, for every*)
(* lifetime, leeway and fallback.                                          *)
THEOREM ReadsGoodTokens == Spec => []ReadsWithGoodToken
<1>1. IInv => ReadsWithGoodToken
  BY DEF IInv
<1> QED BY <1>1, Invariant, PTL

-----------------------------------------------------------------------------
(* The states that callbacks have taken.                                   *)
Taken == {taken[q] : q \in {r \in Req : pc[r] # "idle"}}

Made(s) == \E c \in State : <<c, s>> \in made

LEMMA OpenIs == Open = {s \in pending \cup Taken : ~Made(s)}
BY DEF Open, Taken, Made

LEMMA OpenIsPrime == Open' = {s \in pending' \cup Taken' : ~Made(s)'}
BY DEF Open, Taken, Made

(* A step that begins no login and makes no session is over for some, at   *)
(* most.                                                                   *)
LEMMA OverStep ==
    ASSUME pending' \cup Taken' \subseteq pending \cup Taken, UNCHANGED made,
           \A s \in State : phase'[s] = "fresh" <=> phase[s] = "fresh"
    PROVE  L!Over
<1>1. Open' \subseteq Open
  BY OpenIs, OpenIsPrime DEF Made
<1>2. [s \in State |-> IF phase'[s] = "fresh" THEN NoState ELSE s]
       = [s \in State |-> IF phase[s] = "fresh" THEN NoState ELSE s]
  OBVIOUS
<1> QED BY <1>1, <1>2 DEF L!Over

LEMMA LoginBegins ==
    ASSUME IInv, NEW s \in State, Login(s)
    PROVE  L!Begin(s, s)
<1> USE DEF Login, requests
<1>1. [t \in State |-> IF phase'[t] = "fresh" THEN NoState ELSE t]
       = [[t \in State |-> IF phase[t] = "fresh" THEN NoState ELSE t] EXCEPT ![s] = s]
  BY DEF IInv, TypeOK
<1>2. ~Made(s)
  BY DEF Made, IInv, MadeInv
<1>3. Taken' = Taken /\ (\A t : Made(t)' <=> Made(t))
  BY DEF Taken, Made
<1>4. s \in Open' /\ Open' \subseteq Open \cup {s}
  BY <1>2, <1>3, OpenIs, OpenIsPrime
<1> QED BY <1>1, <1>4 DEF L!Begin

LEMMA CreatedGrants ==
    ASSUME IInv, NEW q \in Req, NEW i \in Sid, Created(q, i)
    PROVE  taken[q] \in State /\ L!Grant(taken[q])
<1> USE DEF Created, Goto, logins
<1> DEFINE s == taken[q]
<1>1. /\ s \in State /\ code[q] = s /\ phase[s] # "fresh" /\ s \notin pending
      /\ \A r \in Req \ {q} : pc[r] # "idle" => taken[r] # s
      /\ ~Made(s)
  BY DEF IInv, TypeOK, TakenInv, OneTaker, MadeInv, Made
<1>2. s \in Open
  BY <1>1, OpenIs DEF Taken
<1>3. \A t : Made(t)' <=> Made(t) \/ t = s
  BY <1>1 DEF Made
<1>4. Taken' = Taken \ {s}
  BY <1>1 DEF Taken, IInv, TypeOK
<1>5. Open' = Open \ {s}
  BY <1>1, <1>3, <1>4, OpenIs, OpenIsPrime
<1>6. made' = made \cup {<<[t \in State |-> IF phase[t] = "fresh" THEN NoState ELSE t][s], s>>}
  BY <1>1
<1> QED BY <1>1, <1>2, <1>5, <1>6 DEF L!Grant

LEMMA ImplementsStep ==
    ASSUME IInv, [Next]_vars
    PROVE  [L!Next]_(L!vars)
<1> USE DEF IInv, TypeOK
<1>1. ASSUME NEW s \in State, Login(s)
      PROVE  L!Next
  BY <1>1, LoginBegins DEF L!Next
<1>2. ASSUME NEW s \in State, Redirected(s) \/ CodeIssued(s)
      PROVE  L!Next
  <2>1. /\ pending' = pending /\ Taken' = Taken /\ made' = made
        /\ \A t \in State : phase'[t] = "fresh" <=> phase[t] = "fresh"
    BY <1>2 DEF Redirected, CodeIssued, requests, Taken
  <2> QED BY <2>1, OverStep DEF L!Next
<1>3. ASSUME NEW q \in Req, NEW s \in State, NEW c \in State, Callback(q, s, c)
      PROVE  L!Next
  <2>1. pending' \cup Taken' \subseteq pending \cup Taken
    BY <1>3 DEF Callback, Known, Remaining, Goto, Taken
  <2> QED BY <1>3, <2>1, OverStep DEF Callback, L!Next
<1>4. ASSUME NEW q \in Req, Redeemed(q) \/ Exchanged(q) \/ CallbackEnds(q)
      PROVE  L!Next
  <2>1. pending' = pending /\ made' = made /\ taken' = taken
        /\ \A t \in State : phase'[t] = "fresh" <=> phase[t] = "fresh"
    BY <1>4 DEF Redeemed, Exchanged, CallbackEnds, logins, Accepts
  <2>2. Taken' \subseteq Taken
    BY <1>4 DEF Redeemed, Exchanged, CallbackEnds, Goto, Taken
  <2> QED BY <2>1, <2>2, OverStep DEF L!Next
<1>5. ASSUME NEW q \in Req, NEW i \in Sid, Created(q, i)
      PROVE  L!Next
  BY <1>5, CreatedGrants DEF L!Next
<1>6. ASSUME (\E i \in Sid : Logout(i) \/ Repos(i)) \/ Listed \/ Tick
      PROVE  L!Next
  <2>1. UNCHANGED <<pending, phase, taken, pc, made>>
    BY <1>6 DEF Logout, Repos, Listed, Tick, logins, requests
  <2>2. Taken' = Taken
    BY <2>1 DEF Taken
  <2> QED BY <2>1, <2>2, OverStep DEF L!Next
<1>7. CASE Restart
  <2>1. pending' = {} /\ Taken' = {} /\ made' = made
        /\ \A t \in State : phase'[t] = "fresh" <=> phase[t] = "fresh"
    BY <1>7 DEF Restart, Taken
  <2> QED BY <2>1, OverStep DEF L!Next
<1>8. CASE UNCHANGED vars
  BY <1>8 DEF vars, logins, requests, Open, L!vars
<1> QED BY <1>1, <1>2, <1>3, <1>4, <1>5, <1>6, <1>7, <1>8 DEF Next

(* The frontend's handlers implement Login: a state leads to one session,  *)
(* made of the code that was issued for it, or is over for good.           *)
THEOREM LoginImplemented == Spec => LoginKept
<1>1. Init => L!Init
  <2> SUFFICES ASSUME Init
               PROVE  L!Init
    OBVIOUS
  <2>1. Open = {}
    BY DEF Init, Open
  <2>2. [s \in State |-> IF phase[s] = "fresh" THEN NoState ELSE s] = [s \in State |-> NoState]
    BY DEF Init
  <2> QED BY <2>1, <2>2 DEF Init, L!Init
<1>2. IInv /\ [Next]_vars => [L!Next]_(L!vars)
  BY ImplementsStep
<1> QED BY <1>1, <1>2, Invariant, PTL DEF Spec, LoginKept, L!Spec

(* A login that was begun, left the map, and is with no callback.          *)
Gone(s) == phase[s] # "fresh" /\ s \notin pending /\ \A q \in Req : pc[q] # "idle" => taken[q] # s

(* Such a login is not pending again, and makes no session any more.       *)
GoneForGood ==
    \A s \in State : Gone(s) =>
        /\ s \notin pending'
        /\ \A c \in State : <<c, s>> \in made' => <<c, s>> \in made

(* A state that was swept, cut, lost in a restart or made into a session   *)
(* that was logged out stays so: no repeated or late callback makes another*)
(* session of it (from Login, which the handlers implement).               *)
THEOREM LoginsGoForGood == Spec => [][GoneForGood]_vars
<1>1. L!Spec => [][L!NeverReopened]_(L!vars)
  BY L!GrantsAreFinal, NoStateAssumption, PTL
<1>2. IInv /\ IInv' /\ [L!NeverReopened]_(L!vars) => GoneForGood
  <2> SUFFICES ASSUME IInv, IInv', [L!NeverReopened]_(L!vars), NEW s \in State, Gone(s)
               PROVE  /\ s \notin pending'
                      /\ \A c \in State : <<c, s>> \in made' => <<c, s>> \in made
    BY DEF GoneForGood
  <2>1. s \notin Open /\ s # NoState
    BY NoStateAssumption DEF Gone, Open
  <2>2. s \notin Open' /\ \A c \in State : <<c, s>> \in made' => <<c, s>> \in made
    BY <2>1 DEF L!NeverReopened, L!vars, Gone
  <2>3. s \in pending' => s \in Open'
    BY DEF IInv, MadeInv, Open
  <2> QED BY <2>2, <2>3
<1> QED BY <1>1, <1>2, LoginImplemented, Invariant, PTL DEF LoginKept
==============================================================================
