-------------------------- MODULE DeviceLoginProofs --------------------------
(***************************************************************************)
(* Proofs about DeviceLogin, for every set of clients, codes and requests. *)
(* The inductive invariant says what a handler that waits at an await may  *)
(* rely on when it goes on, whatever happened meanwhile: its session was   *)
(* started by its own client, and when the provider gave it a token then   *)
(* nobody else has one of that session.                                    *)
(***************************************************************************)
EXTENDS DeviceLogin, FiniteSetTheorems, TLAPS

(* The requests that carry a token of the provider.                        *)
Near == {"token", "verifying"}

(* A poll in progress carries the code and the client of a started session.*)
PollsInv ==
    \A q \in Req :
        /\ pc[q] = "starting" => who[q] \in Client
        /\ pc[q] \in {"idle", "starting"} => code[q] = NoCode
        /\ pc[q] \notin {"idle", "starting"} =>
                /\ code[q] \in Code
                /\ state[code[q]] \in Client /\ who[q] = state[code[q]]
                /\ device[code[q]] # Unused

(* A code that was not handed out has no past; a token went to the starter,*)
(* for a code that is spent.                                               *)
CodesInv ==
    \A k \in Code :
        /\ device[k] = Unused => state[k] = NoClient /\ k \notin refused
        /\ \A c \in Client : <<c, k>> \in issued => state[k] = c /\ device[k] = "redeemed"

(* A provider's token is the only one of its session.                      *)
RedeemedInv ==
    \A q \in Req : pc[q] \in Near =>
        /\ device[code[q]] = "redeemed"
        /\ \A c \in Client : <<c, code[q]>> \notin issued
        /\ \A r \in Req \ {q} : pc[r] \in Near => code[r] # code[q]

IInv == TypeOK /\ PollsInv /\ CodesInv /\ RedeemedInv /\ AnsweredIsGone

-----------------------------------------------------------------------------
LEMMA InitIInv == Init => IInv
BY DEF Init, IInv, TypeOK, PollsInv, CodesInv, RedeemedInv, AnsweredIsGone, DeviceStates,
       Replies, Near

(* A request that ends with the sessions' past as it was, or with sessions *)
(* gone, disturbs nobody.                                                  *)
LEMMA EndStep ==
    ASSUME IInv, NEW q \in Req, Answer(q), table' \subseteq table, live' \subseteq table',
           live' \subseteq live, UNCHANGED <<state, device, history>>
    PROVE  IInv'
<1> USE DEF IInv, TypeOK, Answer, Goto, history
<1>1. TypeOK'
  OBVIOUS
<1>2. PollsInv'
  BY DEF PollsInv
<1>3. CodesInv'
  BY DEF CodesInv
<1>4. RedeemedInv'
  BY DEF RedeemedInv, Near
<1>5. AnsweredIsGone'
  BY DEF AnsweredIsGone
<1> QED BY <1>1, <1>2, <1>3, <1>4, <1>5

LEMMA StartCallStep ==
    ASSUME IInv, NEW q \in Req, NEW c \in Client, StartCall(q, c)
    PROVE  IInv'
<1> USE DEF IInv, TypeOK, StartCall, Goto, sessions, history
<1>1. TypeOK'
  OBVIOUS
<1>2. PollsInv'
  BY DEF PollsInv
<1>3. CodesInv' /\ AnsweredIsGone'
  BY DEF CodesInv, AnsweredIsGone
<1>4. RedeemedInv'
  BY DEF RedeemedInv, Near
<1> QED BY <1>1, <1>2, <1>3, <1>4

LEMMA StartedStep ==
    ASSUME IInv, NEW q \in Req, NEW k \in Code, Started(q, k)
    PROVE  IInv'
<1> USE DEF IInv, TypeOK, Started, Insert, Answer, Goto, history
<1>0. who[q] \in Client
  BY DEF PollsInv
<1>1. TypeOK'
  BY <1>0 DEF Swept, DeviceStates, Unused
<1>2. PollsInv'
  BY <1>0 DEF PollsInv, Unused
<1>3. CodesInv'
  BY <1>0 DEF CodesInv, Unused
<1>4. RedeemedInv'
  BY DEF RedeemedInv, PollsInv, Near, Unused
<1>5. AnsweredIsGone'
  BY DEF AnsweredIsGone, CodesInv, Swept, Unused
<1> QED BY <1>1, <1>2, <1>3, <1>4, <1>5

LEMMA PollCallStep ==
    ASSUME IInv, NEW q \in Req, NEW c \in Client, NEW k \in Code, PollCall(q, c, k)
    PROVE  IInv'
<1> USE DEF IInv, TypeOK, PollCall, Goto, requests, history
<1>1. TypeOK'
  BY DEF Swept
<1>2. PollsInv'
  BY DEF PollsInv, Resolves, Swept
<1>3. CodesInv' /\ AnsweredIsGone'
  BY DEF CodesInv, AnsweredIsGone, Swept
<1>4. RedeemedInv'
  BY DEF RedeemedInv, Near
<1> QED BY <1>1, <1>2, <1>3, <1>4

(* The provider gives a token for a code that it redeems now, and so to    *)
(* one poll.                                                               *)
LEMMA ProviderStep ==
    ASSUME IInv, NEW q \in Req, ProviderAnswers(q)
    PROVE  IInv'
<1> USE DEF IInv, TypeOK, ProviderAnswers, Redeem, Goto, sessions, history
<1>0. /\ code[q] \in Code /\ device[code[q]] # Unused
      /\ \A p \in Req : pc[p] \in Near => device[code[p]] = "redeemed" /\ code[p] \in Code
  BY DEF PollsInv, RedeemedInv, Near
<1>1. TypeOK'
  BY <1>0 DEF DeviceStates, Replies, Unused
<1>2. PollsInv'
  BY <1>0 DEF PollsInv, Unused
<1>3. CodesInv' /\ AnsweredIsGone'
  BY <1>0 DEF CodesInv, AnsweredIsGone, Unused
<1>4. RedeemedInv'
  <2> SUFFICES ASSUME NEW p \in Req, pc'[p] \in Near
               PROVE  /\ device'[code[p]] = "redeemed"
                      /\ \A c \in Client : <<c, code[p]>> \notin issued
                      /\ \A r \in Req \ {p} : pc'[r] \in Near => code[r] # code[p]
    BY DEF RedeemedInv
  <2>1. CASE p = q
    <3>0. pc'[q] \in {"token", "verifying"}
      BY <2>1 DEF Near
    <3>1. Redeem(q)
      <4>1. ASSUME NEW reply \in {"pending", "error"}, pc' = [pc EXCEPT ![q] = reply]
            PROVE  pc'[q] \notin {"token", "verifying"}
        BY <4>1
      <4> QED BY <3>0, <4>1 DEF Redeem
    <3>2. device'[code[q]] = "redeemed"
      BY <1>0, <3>1 DEF Redeem
    <3>3. \A r \in Req \ {q} : pc'[r] \in Near => code[r] # code[q]
      BY <1>0, <3>1 DEF Redeem
    <3>4. \A c \in Client : <<c, code[q]>> \notin issued
      BY <1>0, <3>1 DEF CodesInv, Redeem
    <3> QED BY <2>1, <3>2, <3>3, <3>4
  <2>2. CASE p # q
    <3>1. pc[p] \in Near /\ device[code[p]] = "redeemed"
      BY <1>0, <2>2
    <3>2. device'[code[p]] = "redeemed"
      BY <1>0, <3>1
    <3>3. pc'[q] \in Near => code[q] # code[p]
      BY <3>1 DEF Near
    <3> QED BY <2>2, <3>1, <3>2, <3>3 DEF RedeemedInv
  <2> QED BY <2>1, <2>2
<1> QED BY <1>1, <1>2, <1>3, <1>4

LEMMA DeniedStep ==
    ASSUME IInv, NEW q \in Req, Denied(q)
    PROVE  IInv'
<1> USE DEF IInv, TypeOK, Denied, Remove, Answer, Goto
<1>0. code[q] \in Code /\ device[code[q]] # Unused
  BY DEF PollsInv
<1>1. TypeOK'
  BY <1>0
<1>2. PollsInv'
  BY DEF PollsInv
<1>3. CodesInv' /\ AnsweredIsGone'
  BY <1>0 DEF CodesInv, AnsweredIsGone
<1>4. RedeemedInv'
  BY DEF RedeemedInv, Near
<1> QED BY <1>1, <1>2, <1>3, <1>4

LEMMA GotTokenStep ==
    ASSUME IInv, NEW q \in Req, GotToken(q)
    PROVE  IInv'
<1> USE DEF IInv, TypeOK, GotToken, Goto, sessions, history
<1>1. TypeOK' /\ CodesInv' /\ AnsweredIsGone'
  BY DEF CodesInv, AnsweredIsGone
<1>2. PollsInv'
  BY DEF PollsInv
<1>3. RedeemedInv'
  BY DEF RedeemedInv, Near
<1> QED BY <1>1, <1>2, <1>3

(* The token is issued to the client that the poll was resolved for.       *)
LEMMA IssueStep ==
    ASSUME IInv, NEW q \in Req, Issue(q)
    PROVE  IInv'
<1> USE DEF IInv, TypeOK, Issue, Remove, Answer, Goto
<1>0. /\ code[q] \in Code /\ who[q] \in Client /\ state[code[q]] = who[q]
      /\ device[code[q]] = "redeemed"
      /\ \A r \in Req \ {q} : pc[r] \in Near => code[r] # code[q]
  BY DEF PollsInv, RedeemedInv, Near
<1>1. TypeOK'
  BY <1>0
<1>2. PollsInv'
  BY DEF PollsInv
<1>3. CodesInv'
  BY <1>0 DEF CodesInv, Unused
<1>4. RedeemedInv'
  BY <1>0 DEF RedeemedInv, Near
<1>5. AnsweredIsGone'
  BY <1>0 DEF AnsweredIsGone
<1> QED BY <1>1, <1>2, <1>3, <1>4, <1>5

LEMMA UserActsStep ==
    ASSUME IInv, NEW k \in Code, UserActs(k)
    PROVE  IInv'
<1> USE DEF IInv, TypeOK, UserActs, sessions, requests, history, Unused
<1>0. /\ \A l \in Code : device[l] = "redeemed" => device'[l] = "redeemed"
      /\ \A l \in Code : device'[l] = Unused => device[l] = Unused
      /\ device' \in [Code -> DeviceStates]
      /\ \A l \in Code : device[l] # Unused => device'[l] # Unused
  BY DEF DeviceStates
<1>1. TypeOK' /\ AnsweredIsGone'
  BY <1>0 DEF AnsweredIsGone
<1>2. PollsInv'
  BY <1>0 DEF PollsInv
<1>3. CodesInv'
  BY <1>0 DEF CodesInv
<1>4. RedeemedInv'
  BY <1>0 DEF RedeemedInv, PollsInv, Near
<1> QED BY <1>1, <1>2, <1>3, <1>4

LEMMA RestartStep ==
    ASSUME IInv, Restart
    PROVE  IInv'
BY DEF IInv, TypeOK, PollsInv, CodesInv, RedeemedInv, AnsweredIsGone, Near, Restart, history

LEMMA StepIInv ==
    ASSUME IInv, [Next]_vars
    PROVE  IInv'
<1>1. ASSUME NEW q \in Req, StillPending(q) \/ MintFails(q) \/ Cut(q)
      PROVE  IInv'
  <2>1. live \subseteq table
    BY DEF IInv, TypeOK
  <2> QED BY <1>1, <2>1, EndStep DEF StillPending, MintFails, Cut, Remove, sessions
<1>2. ASSUME NEW q \in Req, Handler(q)
      PROVE  IInv'
  BY <1>1, <1>2, StartedStep, ProviderStep, DeniedStep, GotTokenStep, IssueStep DEF Handler
<1>3. ASSUME NEW k \in Code, Expire(k)
      PROVE  IInv'
  BY <1>3 DEF Expire, IInv, TypeOK, PollsInv, CodesInv, RedeemedInv, AnsweredIsGone,
              requests, history
<1>4. CASE UNCHANGED vars
  BY <1>4 DEF vars, sessions, requests, history, IInv, TypeOK, PollsInv, CodesInv, RedeemedInv,
              AnsweredIsGone
<1> QED
  BY <1>2, <1>3, <1>4, StartCallStep, PollCallStep, UserActsStep, RestartStep DEF Next

LEMMA Invariant == Spec => []IInv
BY InitIInv, StepIInv, PTL DEF Spec

-----------------------------------------------------------------------------
(* The table, the requests and the provider's codes keep their types; a    *)
(* session in the table has a client and a device code.                    *)
THEOREM TypeCorrect == Spec => []TypeOK
<1>1. IInv => TypeOK
  BY DEF IInv
<1> QED BY <1>1, Invariant, PTL

(* get_auth_session gives an authn token only to the client that started   *)
(* the session, for any number of clients and overlapping polls.           *)
THEOREM TokensToStarters == Spec => []TokenToStarter
<1>1. IInv => TokenToStarter
  BY DEF IInv, CodesInv, TokenToStarter
<1> QED BY <1>1, Invariant, PTL

(* A session that was answered by a token or a refusal is gone for good.   *)
THEOREM AnsweredAreGone == Spec => []AnsweredIsGone
<1>1. IInv => AnsweredIsGone
  BY DEF IInv
<1> QED BY <1>1, Invariant, PTL

LEMMA AtMostOne ==
    ASSUME NEW S, \A x, y \in S : x = y
    PROVE  Cardinality(S) <= 1
<1>1. CASE S = {}
  BY <1>1, FS_EmptySet
<1>2. CASE S # {}
  <2>1. PICK x \in S : TRUE
    BY <1>2
  <2>2. S = {x}
    BY <2>1
  <2> QED BY <2>2, FS_Singleton
<1> QED BY <1>1, <1>2

(* Every token has an approval behind it that was redeemed once, and no    *)
(* two polls of a session get one, however many overlap.                   *)
THEOREM OneTokenEach == Spec => []OneToken
<1>1. ASSUME IInv
      PROVE  OneToken
  <2> SUFFICES ASSUME NEW k \in Code
               PROVE  LET near == {q \in Req : code[q] = k /\ pc[q] \in {"token", "verifying"}} IN
                      /\ near # {} \/ (\E c \in Client : <<c, k>> \in issued) => device[k] = "redeemed"
                      /\ Cardinality(near) <= IF \E c \in Client : <<c, k>> \in issued THEN 0 ELSE 1
    BY DEF OneToken
  <2> DEFINE near == {q \in Req : code[q] = k /\ pc[q] \in {"token", "verifying"}}
  <2>1. /\ near # {} => device[k] = "redeemed"
        /\ \A q, r \in near : q = r
        /\ \A c \in Client : <<c, k>> \in issued => near = {}
    BY <1>1 DEF IInv, RedeemedInv, Near
  <2>2. \A c \in Client : <<c, k>> \in issued => device[k] = "redeemed"
    BY <1>1 DEF IInv, CodesInv
  <2>3. Cardinality(near) <= 1
    BY <2>1, AtMostOne
  <2>4. near = {} => Cardinality(near) <= 0
    BY FS_EmptySet
  <2> HIDE DEF near
  <2>5. /\ near # {} \/ (\E c \in Client : <<c, k>> \in issued) => device[k] = "redeemed"
        /\ Cardinality(near) <= IF \E c \in Client : <<c, k>> \in issued THEN 0 ELSE 1
    BY <2>1, <2>2, <2>3, <2>4
  <2> QED BY <2>5 DEF near
<1> QED BY <1>1, Invariant, PTL

-----------------------------------------------------------------------------
(* The sessions of the polls in progress.                                  *)
Polled == {code[q] : q \in {r \in Req : code[r] # NoCode}}

Issued(k) == \E c \in Client : <<c, k>> \in issued

LEMMA OpenIs == Open = {k \in table \cup Polled : ~Issued(k)}
BY DEF Open, Polled, Issued

(* A step that starts no session and issues no token is over for some, at  *)
(* most.                                                                   *)
LEMMA OverStep ==
    ASSUME table' \subseteq table, Polled' \subseteq table \cup Polled, UNCHANGED <<state, issued>>
    PROVE  L!Over
<1>1. Open' = {k \in table' \cup Polled' : ~Issued(k)'}
  BY DEF Open, Polled, Issued
<1> QED BY <1>1, OpenIs DEF L!Over, Issued

(* Started begins the session it inserts.                                  *)
LEMMA StartedBegins ==
    ASSUME IInv, NEW q \in Req, NEW k \in Code, Started(q, k)
    PROVE  L!Begin(k, who[q]) /\ who[q] \in Client
<1> USE DEF IInv, TypeOK, Started, Insert, Answer, Goto, history
<1>1. who[q] \in Client /\ state[k] = NoClient
  BY DEF PollsInv, CodesInv
<1>2. Open' = {j \in table' \cup Polled' : ~Issued(j)'}
  BY DEF Open, Polled, Issued
<1>3. ~Issued(k)' /\ k \in table'
  BY DEF CodesInv, Issued, Unused
<1>4. table' \subseteq table \cup {k} /\ Polled' \subseteq Polled
  BY DEF Swept, Polled
<1>5. k \in Open' /\ Open' \subseteq Open \cup {k}
  BY <1>2, <1>3, <1>4, OpenIs DEF Issued
<1> QED BY <1>1, <1>5 DEF L!Begin

(* Issue grants the session that the poll resolved, which a sweep since    *)
(* has not closed.                                                         *)
LEMMA IssueGrants ==
    ASSUME IInv, NEW q \in Req, Issue(q)
    PROVE  code[q] \in Code /\ L!Grant(code[q])
<1> USE DEF IInv, TypeOK, Issue, Remove, Answer, Goto
<1>1. /\ code[q] \in Code /\ code[q] # NoCode
      /\ who[q] \in Client /\ who[q] = state[code[q]]
      /\ \A c \in Client : <<c, code[q]>> \notin issued
  BY NoCodeAssumption DEF PollsInv, RedeemedInv, Near
<1>2. code[q] \in Open
  BY <1>1, OpenIs DEF Polled, Issued
<1>3. Open' = {j \in table' \cup Polled' : ~Issued(j)'}
  BY DEF Open, Polled, Issued
<1>4. \A j : Issued(j)' <=> Issued(j) \/ j = code[q]
  BY <1>1 DEF Issued
<1>5. /\ Polled' \subseteq Polled
      /\ Polled \subseteq Polled' \cup {code[q]}
  BY DEF Polled
<1>6. Open' = Open \ {code[q]}
  BY <1>3, <1>4, <1>5, OpenIs
<1> QED BY <1>1, <1>2, <1>6 DEF L!Grant

LEMMA LoginStep ==
    ASSUME IInv, [Next]_vars
    PROVE  [L!Next]_(L!vars)
<1> USE DEF IInv, TypeOK
<1>1. ASSUME NEW q \in Req, Handler(q)
      PROVE  L!Next
  <2>1. ASSUME NEW k \in Code, Started(q, k)
        PROVE  L!Next
    BY <2>1, StartedBegins DEF L!Next
  <2>2. CASE Issue(q)
    BY <2>2, IssueGrants DEF L!Next
  <2>3. CASE ProviderAnswers(q) \/ GotToken(q)
    <3>1. Polled' = Polled
      BY <2>3 DEF ProviderAnswers, Redeem, GotToken, Goto, Polled
    <3> QED BY <2>3, <3>1, OverStep DEF ProviderAnswers, Redeem, GotToken, sessions, history, L!Next
  <2>4. CASE StillPending(q) \/ Denied(q) \/ MintFails(q) \/ Cut(q)
    <3>1. Answer(q) /\ table' \subseteq table /\ UNCHANGED <<state, issued>>
      BY <2>4 DEF StillPending, Denied, MintFails, Cut, Remove, sessions, history
    <3>2. Polled' \subseteq Polled
      BY <3>1 DEF Answer, Polled
    <3> QED BY <3>1, <3>2, OverStep DEF L!Next
  <2> QED BY <1>1, <2>1, <2>2, <2>3, <2>4 DEF Handler
<1>2. ASSUME NEW q \in Req, NEW c \in Client, StartCall(q, c)
      PROVE  L!Next
  <2>1. Polled' = Polled
    BY <1>2 DEF StartCall, Polled
  <2> QED BY <1>2, <2>1, OverStep DEF StartCall, sessions, history, L!Next
<1>3. ASSUME NEW q \in Req, NEW c \in Client, NEW k \in Code, PollCall(q, c, k)
      PROVE  L!Next
  <2>1. table' \subseteq table /\ UNCHANGED <<state, issued>>
    BY <1>3 DEF PollCall, Swept, history
  <2>2. Polled' \subseteq table \cup Polled
    BY <1>3 DEF PollCall, Resolves, Swept, Polled, requests
  <2> QED BY <2>1, <2>2, OverStep DEF L!Next
<1>4. ASSUME NEW k \in Code, Expire(k) \/ UserActs(k)
      PROVE  L!Next
  <2>1. table' = table /\ Polled' = Polled /\ UNCHANGED <<state, issued>>
    BY <1>4 DEF Expire, UserActs, sessions, requests, history, Polled
  <2> QED BY <2>1, OverStep DEF L!Next
<1>5. CASE Restart
  <2>1. table' = {} /\ Polled' = {} /\ UNCHANGED <<state, issued>>
    BY <1>5 DEF Restart, history, Polled
  <2> QED BY <2>1, OverStep DEF L!Next
<1>6. CASE UNCHANGED vars
  BY <1>6 DEF vars, sessions, requests, history, Open, L!vars
<1> QED BY <1>1, <1>2, <1>3, <1>4, <1>5, <1>6 DEF Next

(* The two handlers with their table implement Login: what is begun once   *)
(* is granted at most once, to the client that began it, or over.          *)
THEOREM LoginImplemented == Spec => LoginKept
<1>1. Init => L!Init
  <2> SUFFICES ASSUME Init
               PROVE  L!Init
    OBVIOUS
  <2>1. Open = {}
    BY DEF Init, Open
  <2> QED BY <2>1 DEF Init, L!Init
<1>2. IInv /\ [Next]_vars => [L!Next]_(L!vars)
  BY LoginStep
<1> QED BY <1>1, <1>2, Invariant, PTL DEF Spec, LoginKept, L!Spec

(* A session that left the table while no poll carries it.                 *)
Gone(k) == state[k] # NoClient /\ k \notin table /\ \A q \in Req : code[q] # k

(* Such a session does not come back, and no token comes of it any more.   *)
GoneForGood ==
    \A k \in Code : Gone(k) =>
        /\ k \notin table'
        /\ \A c \in Client : <<c, k>> \in issued' => <<c, k>> \in issued

(* What was swept, refused, lost in a restart or answered stays so: no late*)
(* poll of get_auth_session revives it (from Login, which the handlers     *)
(* implement).                                                             *)
THEOREM SessionsGoForGood == Spec => [][GoneForGood]_vars
<1>1. L!Spec => [][L!NeverReopened]_(L!vars)
  BY L!GrantsAreFinal, NoClientAssumption, PTL
<1>2. AnsweredIsGone' /\ [L!NeverReopened]_(L!vars) => GoneForGood
  <2> SUFFICES ASSUME AnsweredIsGone', [L!NeverReopened]_(L!vars), NEW k \in Code, Gone(k)
               PROVE  /\ k \notin table'
                      /\ \A c \in Client : <<c, k>> \in issued' => <<c, k>> \in issued
    BY DEF GoneForGood
  <2>1. k \notin Open
    BY DEF Gone, Open
  <2>2. k \notin Open' /\ \A c \in Client : <<c, k>> \in issued' => <<c, k>> \in issued
    BY <2>1 DEF L!NeverReopened, L!vars, Gone
  <2>3. k \in table' => k \in Open'
    BY DEF AnsweredIsGone, Open
  <2> QED BY <2>2, <2>3
<1> QED BY <1>1, <1>2, LoginImplemented, AnsweredAreGone, PTL DEF LoginKept
==============================================================================
