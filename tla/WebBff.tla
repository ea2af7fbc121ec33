-------------------------------- MODULE WebBff --------------------------------
(***************************************************************************)
(* The web frontend's logins and sessions (web/src/main.rs): the table of  *)
(* pending logins, the table of sessions and the handlers that change      *)
(* them, against the provider (authorization code with PKCE), kaguya-auth  *)
(* and browsers that may open a callback twice, late, or with the code of  *)
(* another login.                                                          *)
(*                                                                         *)
(* Each table is locked for one operation and never across an await, so a  *)
(* handler is a few atomic segments.  A `state` is fresh for each login    *)
(* and stored with a verifier of its own: one value of State is the two,   *)
(* and the code that the provider issues for it.                           *)
(***************************************************************************)
EXTENDS Naturals, FiniteSets

CONSTANTS
    State,      \* the logins: state, verifier and code
    Sid,        \* session ids
    Req,        \* callbacks handled at a time
    NoState,
    PendingTtl, \* PENDING_TTL
    Fallback,   \* the 3600 s of a session whose token has expired
    Lifetime,   \* of the provider's id tokens
    Leeway,     \* of kaguya-auth's check of exp
    MaxTime     \* bound on the clock

ASSUME PeriodsAssumption ==
    {PendingTtl, Fallback, Lifetime, Leeway, MaxTime} \subseteq Nat
ASSUME NoStateAssumption == NoState \notin State

VARIABLES
    clock,
    pending,    \* the states in the map
    due,        \* their expires_at
    phase,      \* how far each login has come
    pc,         \* where each callback is
    taken,      \* the state that a callback took
    code,       \* the code that it carries
    exp,        \* the exp of the token that it got
    sessions,   \* the map of sessions, as a set of Session
    reading,    \* the sessions, as looked up, of the repos calls in progress
    made        \* history: <<code, login>> of the sessions that were created

logins == <<pending, due, phase>>
requests == <<pc, taken, code, exp>>
vars == <<clock, logins, requests, sessions, reading, made>>

(* A login: not begun, its handler asking for the provider's URL, without  *)
(* one, with the user at the provider, a code issued, the code redeemed.   *)
Phases == {"fresh", "asking", "failed", "offered", "issued", "redeemed"}

Time == 0..(MaxTime + Lifetime + Fallback + PendingTtl)

(* A session with two histories: when it began and its token's exp.        *)
Session == [sid : Sid, login : State, code : State, expires_at : Time, born : Time, token : Time]

(* A call of repos: the session it found, and when.                        *)
Reading == [session : Session, at : Time]

TypeOK ==
    /\ clock \in 0..MaxTime
    /\ pending \subseteq State /\ due \in [State -> Time]
    /\ phase \in [State -> Phases]
    /\ pc \in [Req -> {"idle", "code", "external", "create"}]
    /\ taken \in [Req -> State] /\ code \in [Req -> State] /\ exp \in [Req -> Time]
    /\ sessions \subseteq Session
    /\ reading \subseteq Reading /\ Cardinality(reading) <= 1
    /\ made \subseteq State \X State
    /\ \A x, y \in sessions : x.sid = y.sid => x = y
    /\ \A s \in pending : phase[s] # "fresh" /\ due[s] <= clock + PendingTtl

Init ==
    /\ clock = 0
    /\ pending = {} /\ due = [s \in State |-> 0]
    /\ phase = [s \in State |-> "fresh"]
    /\ pc = [q \in Req |-> "idle"]
    /\ taken \in [Req -> State] /\ code = taken
    /\ exp = [q \in Req |-> 0]
    /\ sessions = {} /\ reading = {} /\ made = {}

-----------------------------------------------------------------------------
(* Mutant of Login: twice the time.                                        *)
LoginTwiceTtl(s) ==
    /\ phase[s] = "fresh"
    /\ pending' = {t \in pending : due[t] > clock} \cup {s}
    /\ due' = [due EXCEPT ![s] = clock + 2 * PendingTtl]
    /\ phase' = [phase EXCEPT ![s] = "asking"]
    /\ UNCHANGED <<clock, requests, sessions, reading, made>>

(* login: expired entries are swept and the new one is there before the    *)
(* provider is asked for its endpoint.                                     *)
Login(s) ==
    /\ phase[s] = "fresh"
    /\ pending' = {t \in pending : due[t] > clock} \cup {s}
    /\ due' = [due EXCEPT ![s] = clock + PendingTtl]
    /\ phase' = [phase EXCEPT ![s] = "asking"]
    /\ UNCHANGED <<clock, requests, sessions, reading, made>>

(* The browser is sent to the provider, or told that login is unavailable: *)
(* the pending entry stays either way.                                     *)
Redirected(s) ==
    /\ phase[s] = "asking"
    /\ \E p \in {"offered", "failed"} : phase' = [phase EXCEPT ![s] = p]
    /\ UNCHANGED <<clock, pending, due, requests, sessions, reading, made>>

(* The user logs in at the provider, which issues a code.                  *)
CodeIssued(s) ==
    /\ phase[s] = "offered"
    /\ phase' = [phase EXCEPT ![s] = "issued"]
    /\ UNCHANGED <<clock, pending, due, requests, sessions, reading, made>>

-----------------------------------------------------------------------------
Goto(q, l) == pc' = [pc EXCEPT ![q] = l]

(* Mutant of Remaining: the entry stays.                                   *)
NotTaken(s) == pending

(* take_pending removes the entry, expired or not.                         *)
Remaining(s) == pending \ {s}

(* Mutant of Known: any state is let through.                              *)
AnyState(s) == TRUE

Known(s) == s \in pending

(* A browser opens the callback with the state s and an issued code.       *)
Callback(q, s, c) ==
    /\ pc[q] = "idle"
    /\ phase[s] \in {"offered", "issued", "redeemed"} /\ phase[c] \in {"issued", "redeemed"}
    /\ Known(s)
    /\ pending' = Remaining(s)
    /\ \/ /\ due[s] > clock
          /\ Goto(q, "code")
          /\ taken' = [taken EXCEPT ![q] = s]
          /\ code' = [code EXCEPT ![q] = c]
       \/ /\ due[s] <= clock
          /\ UNCHANGED <<pc, taken, code>>
    /\ UNCHANGED <<clock, due, phase, exp, sessions, reading, made>>

(* Mutant of Challenge: it is left out of the URL.                         *)
NoChallenge(s) == NoState

(* The code_challenge with which authorize_url sends the login s to the    *)
(* provider: that of its own verifier.                                     *)
Challenge(s) == s

(* The provider redeems a code once, and with the verifier of the challenge*)
(* that the code was asked with, if there was one.                         *)
Accepts(c, verifier) == phase[c] = "issued" /\ Challenge(c) \in {verifier, NoState}

(* exchange_code                                                           *)
Redeemed(q) ==
    /\ pc[q] = "code"
    /\ Accepts(code[q], taken[q])
    /\ phase' = [phase EXCEPT ![code[q]] = "redeemed"]
    /\ exp' = [exp EXCEPT ![q] = clock + Lifetime]
    /\ Goto(q, "external")
    /\ UNCHANGED <<clock, pending, due, taken, code, sessions, reading, made>>

(* exchange_external: kaguya-auth verifies the id token.                   *)
Exchanged(q) ==
    /\ pc[q] = "external"
    /\ exp[q] + Leeway >= clock
    /\ Goto(q, "create")
    /\ UNCHANGED <<clock, logins, taken, code, exp, sessions, reading, made>>

(* The session's expiry: its token's, or an hour from now when the answer  *)
(* comes after that.                                                       *)
ExpiresAt(e) == IF e > clock THEN e ELSE clock + Fallback

(* What create's sweep leaves.                                             *)
Unexpired == {x \in sessions : x.expires_at > clock}

Created(q, i) ==
    /\ pc[q] = "create"
    /\ \A x \in sessions : x.sid # i
    /\ sessions' = Unexpired \cup
           {[sid |-> i, login |-> taken[q], code |-> code[q], expires_at |-> ExpiresAt(exp[q]),
             born |-> clock, token |-> exp[q]]}
    /\ made' = made \cup {<<code[q], taken[q]>>}
    /\ Goto(q, "idle")
    /\ UNCHANGED <<clock, logins, taken, code, exp, reading>>

(* An exchange fails or is refused, or the browser hangs up: the state is  *)
(* spent.                                                                  *)
CallbackEnds(q) ==
    /\ pc[q] # "idle"
    /\ Goto(q, "idle")
    /\ UNCHANGED <<clock, logins, taken, code, exp, sessions, reading, made>>

Logout(i) ==
    /\ \E x \in sessions : x.sid = i
    /\ sessions' = {x \in sessions : x.sid # i}
    /\ UNCHANGED <<clock, logins, requests, reading, made>>

(* Mutant of Get: expired sessions are left to the sweep.                  *)
GetUnfiltered(i) == {x \in sessions : x.sid = i}

(* Store::get, of me and of repos.                                         *)
Get(i) == {x \in sessions : x.sid = i /\ x.expires_at > clock}

(* repos copies the session's token and takes it to loreserver, one call   *)
(* at a time in the model.                                                 *)
Repos(i) ==
    /\ reading = {}
    /\ \E x \in Get(i) : reading' = {[session |-> x, at |-> clock]}
    /\ UNCHANGED <<clock, logins, requests, sessions, made>>

(* loreserver's list, or an error: connect, call and stream may each fail. *)
Listed ==
    /\ reading # {}
    /\ reading' = {}
    /\ UNCHANGED <<clock, logins, requests, sessions, made>>

(* The frontend restarts: both maps are empty, the handlers gone.          *)
Restart ==
    /\ pending' = {} /\ sessions' = {} /\ reading' = {}
    /\ phase' = [s \in State |-> IF phase[s] = "asking" THEN "failed" ELSE phase[s]]
    /\ pc' = [q \in Req |-> "idle"]
    /\ UNCHANGED <<clock, due, taken, code, exp, made>>

Tick ==
    /\ clock < MaxTime
    /\ clock' = clock + 1
    /\ UNCHANGED <<logins, requests, sessions, reading, made>>

Next ==
    \/ \E s \in State :
        \/ Login(s) \/ Redirected(s) \/ CodeIssued(s)
        \/ \E q \in Req, c \in State : Callback(q, s, c)
    \/ \E q \in Req :
        \/ Redeemed(q) \/ Exchanged(q) \/ CallbackEnds(q)
        \/ \E i \in Sid : Created(q, i)
    \/ \E i \in Sid : Logout(i) \/ Repos(i)
    \/ Listed \/ Restart \/ Tick

Spec == Init /\ [][Next]_vars

-----------------------------------------------------------------------------
(* A state is good for one callback: while one is on its way with it, no   *)
(* other is, and it is not to be taken again, whatever callbacks are       *)
(* repeated, cut or overlap.                                               *)
OneTaker ==
    \A q \in Req : pc[q] # "idle" =>
        /\ taken[q] \notin pending
        /\ \A r \in Req \ {q} : pc[r] # "idle" => taken[r] # taken[q]

(* A session is the outcome of one login: the code it was made of is the   *)
(* one issued for the state its callback took ("the code challenge binds   *)
(* the callback's code to this login"), and no login makes two.            *)
SessionOfLogin ==
    /\ \A x \in sessions : x.code = x.login
    /\ \A x, y \in sessions : x.login = y.login => x = y

(* A call to loreserver starts with a token that has not expired, if it    *)
(* had not when its session was created: the user meets a login page, not  *)
(* a refused token, though expired sessions stay in the map until another  *)
(* is created.  (A session created later lives an hour on its dead token.) *)
ReadsWithGoodToken ==
    \A r \in reading : r.session.born < r.session.token => r.at < r.session.token

(* What Login calls open: the state is in the map, or with a callback that *)
(* may still create its session.                                           *)
Open == {s \in pending \cup {taken[q] : q \in {r \in Req : pc[r] # "idle"}} :
            \A c \in State : <<c, s>> \notin made}

L == INSTANCE Login WITH
        Id <- State, Party <- State, NoParty <- NoState, open <- Open, granted <- made,
        starter <- [s \in State |-> IF phase[s] = "fresh" THEN NoState ELSE s]

(* The handlers implement Login: a state that was taken, swept or lost in  *)
(* a restart never leads to a session again, and the session of a login is *)
(* made of the code that was issued for it.                                *)
LoginKept == L!Spec
==============================================================================
