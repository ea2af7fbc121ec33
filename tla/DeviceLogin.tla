----------------------------- MODULE DeviceLogin -----------------------------
(***************************************************************************)
(* Native login: StartAuthSession and GetAuthSession of kaguya-auth        *)
(* (auth/src/main.rs), its table of login sessions (auth/src/sessions.rs)  *)
(* and its device-flow client (auth/src/oidc_device.rs), against the OIDC  *)
(* provider and the lore CLIs that poll.                                   *)
(*                                                                         *)
(* The session table is locked for one map operation at a time and never   *)
(* across an await, so a handler runs as a few atomic segments between its *)
(* awaits: the call to the provider and the verification of the token it   *)
(* sends.  At an await the call can be cut (its client gone, the request   *)
(* failed), and other handlers and the clock go on.                        *)
(*                                                                         *)
(* A session_code is fresh and belongs to one device_code of the provider; *)
(* one value of Code stands for the two.                                   *)
(***************************************************************************)
EXTENDS Naturals, FiniteSets

CONSTANTS
    Client,     \* the CLIs; each sends a client_state of its own
    Code,       \* session codes, each with its device code
    Req,        \* the requests the server handles at a time
    NoClient, NoCode

ASSUME NoClientAssumption == NoClient \notin Client
ASSUME NoCodeAssumption == NoCode \notin Code

VARIABLES
    table,      \* the session codes in the map
    live,       \* those whose expires_at is ahead
    state,      \* the client_state stored with a code
    device,     \* the provider: what became of each device code
    pc,         \* where each request is
    who,        \* the client_state a request carries
    code,       \* the session_code a poll carries
    issued,     \* history: <<client, code>> of the polls answered by a token
    refused     \* history: the codes of which a poll was answered "denied"

sessions == <<table, live, state>>
requests == <<pc, who, code>>
history == <<issued, refused>>
vars == <<sessions, device, requests, history>>

(* A device code at the provider: not yet handed out, waiting for the      *)
(* user, approved, refused by the user or timed out, redeemed.             *)
Unused == "unused"
DeviceStates == {Unused, "waiting", "approved", "denied", "redeemed"}

(* Answers of the token endpoint, as classify tells them apart.            *)
Replies == {"pending", "token", "error"}

TypeOK ==
    /\ live \subseteq table /\ table \subseteq Code
    /\ state \in [Code -> Client \cup {NoClient}]
    /\ device \in [Code -> DeviceStates]
    /\ pc \in [Req -> {"idle", "starting", "polling", "verifying"} \cup Replies]
    /\ who \in [Req -> Client \cup {NoClient}]
    /\ code \in [Req -> Code \cup {NoCode}]
    /\ issued \subseteq Client \X Code /\ refused \subseteq Code
    /\ \A k \in table : state[k] \in Client /\ device[k] # Unused

Init ==
    /\ table = {} /\ live = {}
    /\ state = [k \in Code |-> NoClient]
    /\ device = [k \in Code |-> Unused]
    /\ pc = [q \in Req |-> "idle"]
    /\ who = [q \in Req |-> NoClient]
    /\ code = [q \in Req |-> NoCode]
    /\ issued = {} /\ refused = {}

-----------------------------------------------------------------------------
Goto(q, l) == pc' = [pc EXCEPT ![q] = l]

(* The request ends; the slot is as good as new.                           *)
Answer(q) ==
    /\ Goto(q, "idle")
    /\ who' = [who EXCEPT ![q] = NoClient]
    /\ code' = [code EXCEPT ![q] = NoCode]

(* remove, of a session_code that may be gone already.                     *)
Remove(k) == table' = table \ {k} /\ live' = live \ {k}

(* Mutant of Swept: nothing is swept.                                      *)
Unswept == table

(* sweep: what is left of the table.                                       *)
Swept == live

-----------------------------------------------------------------------------
(* start_auth_session awaits the provider, then inserts.                   *)
StartCall(q, c) ==
    /\ pc[q] = "idle"
    /\ Goto(q, "starting")
    /\ who' = [who EXCEPT ![q] = c]
    /\ UNCHANGED <<sessions, device, code, history>>

(* insert: a sweep, then the session under a fresh session_code.           *)
Insert(k, c) ==
    /\ table' = Swept \cup {k} /\ live' = live \cup {k}
    /\ state' = [state EXCEPT ![k] = c]

(* Mutant of Started: the session is there before the provider answers.    *)
StartedEarly(q, k) ==
    /\ pc[q] = "starting"
    /\ device[k] = Unused
    /\ Insert(k, who[q])
    /\ UNCHANGED <<device, history>>
    /\ Answer(q)

(* The provider hands out a device code and the client is told.            *)
Started(q, k) ==
    /\ pc[q] = "starting"
    /\ device[k] = Unused
    /\ device' = [device EXCEPT ![k] = "waiting"]
    /\ Insert(k, who[q])
    /\ UNCHANGED history
    /\ Answer(q)

-----------------------------------------------------------------------------
(* Mutant of Resolves: the session_code is enough.                         *)
ResolvesAnyone(k, c) == k \in Swept

(* Mutant of Resolves: a code that was answered or swept resolves again.   *)
ResolvesGone(k, c) == device[k] # Unused /\ state[k] = c

(* resolve: the code is known, live, and started with this client_state.   *)
Resolves(k, c) == k \in Swept /\ state[k] = c

(* get_auth_session sweeps and resolves before its first await; a code     *)
(* that does not resolve is answered NotFound.                             *)
PollCall(q, c, k) ==
    /\ pc[q] = "idle"
    /\ table' = Swept
    /\ \/ /\ Resolves(k, c)
          /\ Goto(q, "polling")
          /\ who' = [who EXCEPT ![q] = c]
          /\ code' = [code EXCEPT ![q] = k]
       \/ ~Resolves(k, c) /\ UNCHANGED requests
    /\ UNCHANGED <<live, state, device, history>>

(* The provider answers a poll: an approved code is redeemed, once.        *)
Redeem(q) ==
    /\ device[code[q]] = "approved"
    /\ device' = [device EXCEPT ![code[q]] = "redeemed"]
    /\ Goto(q, "token")

(* It may also put a poll off (authorization_pending, slow_down, a body    *)
(* with neither token nor error) or answer any other error (of the code, of*)
(* the client, of its own), whatever has become of the code.               *)
ProviderAnswers(q) ==
    /\ pc[q] = "polling"
    /\ \/ Redeem(q)
       \/ \E reply \in {"pending", "error"} : Goto(q, reply) /\ UNCHANGED device
    /\ UNCHANGED <<sessions, who, code, history>>

(* classify: Pending.                                                      *)
StillPending(q) ==
    /\ pc[q] = "pending"
    /\ UNCHANGED <<sessions, device, history>>
    /\ Answer(q)

(* classify: Denied.  The session goes.                                    *)
Denied(q) ==
    /\ pc[q] = "error"
    /\ Remove(code[q])
    /\ refused' = refused \cup {code[q]}
    /\ UNCHANGED <<state, device, issued>>
    /\ Answer(q)

(* Mutant of GotToken: "authorization_pending" is not told from a token.   *)
GotAnything(q) ==
    /\ pc[q] \in {"pending", "token"}
    /\ Goto(q, "verifying")
    /\ UNCHANGED <<sessions, device, who, code, history>>

(* classify: Token.  It is verified, which may await the provider's JWKS.  *)
GotToken(q) ==
    /\ pc[q] = "token"
    /\ Goto(q, "verifying")
    /\ UNCHANGED <<sessions, device, who, code, history>>

(* Mutant of Issue: the session is not removed.                            *)
IssueOnly(q) ==
    /\ pc[q] = "verifying"
    /\ issued' = issued \cup {<<who[q], code[q]>>}
    /\ UNCHANGED <<sessions, device, refused>>
    /\ Answer(q)

(* The token is good: the session goes, an authn token is minted.          *)
Issue(q) ==
    /\ pc[q] = "verifying"
    /\ Remove(code[q])
    /\ issued' = issued \cup {<<who[q], code[q]>>}
    /\ UNCHANGED <<state, device, refused>>
    /\ Answer(q)

(* The session is gone already when minting fails.                         *)
MintFails(q) ==
    /\ pc[q] = "verifying"
    /\ Remove(code[q])
    /\ UNCHANGED <<state, device, history>>
    /\ Answer(q)

(* A call to the provider fails, its token is rejected or the client hangs *)
(* up: the handler ends at its await and the session stays as it is.       *)
Cut(q) ==
    /\ pc[q] # "idle"
    /\ UNCHANGED <<sessions, device, history>>
    /\ Answer(q)

-----------------------------------------------------------------------------
(* expires_at passes.                                                      *)
Expire(k) ==
    /\ k \in live
    /\ live' = live \ {k}
    /\ UNCHANGED <<table, state, device, requests, history>>

(* The user at the provider, or its timeout, which comes before or after   *)
(* ours (the clamp to 60..600 s), and also for an approval not redeemed.   *)
UserActs(k) ==
    /\ \/ device[k] = "waiting" /\ \E d \in {"approved", "denied"} : device' = [device EXCEPT ![k] = d]
       \/ device[k] = "approved" /\ device' = [device EXCEPT ![k] = "denied"]
    /\ UNCHANGED <<sessions, requests, history>>

(* The service restarts: the map and the handlers are gone.                *)
Restart ==
    /\ table' = {} /\ live' = {}
    /\ pc' = [q \in Req |-> "idle"]
    /\ who' = [q \in Req |-> NoClient]
    /\ code' = [q \in Req |-> NoCode]
    /\ UNCHANGED <<state, device, history>>

Handler(q) ==
    \/ \E k \in Code : Started(q, k)
    \/ ProviderAnswers(q) \/ StillPending(q) \/ Denied(q) \/ GotToken(q)
    \/ Issue(q) \/ MintFails(q) \/ Cut(q)

Next ==
    \/ \E q \in Req :
        \/ Handler(q)
        \/ \E c \in Client : StartCall(q, c)
        \/ \E c \in Client, k \in Code : PollCall(q, c, k)
    \/ \E k \in Code : Expire(k) \/ UserActs(k)
    \/ Restart

Spec == Init /\ [][Next]_vars

(* The clock runs, handlers go on (their awaits end), and the client that  *)
(* started a session polls it as long as it is there.  Nothing is assumed  *)
(* of the user or the provider's answers.  Polling is strongly fair since  *)
(* the slots of Req, a bound of the model, are taken and freed.            *)
Fairness ==
    /\ \A k \in Code : WF_vars(Expire(k))
    /\ \A q \in Req : WF_vars(Handler(q))
    /\ \A k \in Code : SF_vars(\E q \in Req, c \in Client : state[k] = c /\ PollCall(q, c, k))

FairSpec == Spec /\ Fairness

-----------------------------------------------------------------------------
(* An authn token goes only to the client that started the session ("which *)
(* binds the poll to the caller that started it"), whatever polls of other *)
(* clients, cut calls and restarts come between.                           *)
TokenToStarter ==
    \A c \in Client, k \in Code : <<c, k>> \in issued => state[k] = c

(* A session that a poll answered with a token or a refusal is gone, and   *)
(* no overlapping poll of it brings it back, even where the provider's     *)
(* error did not end its device code.                                      *)
AnsweredIsGone ==
    \A k \in table : k \notin refused /\ \A c \in Client : <<c, k>> \notin issued

(* A token has the user's approval behind it, and at most one poll of a    *)
(* session gets or is about to get one, however many overlap.              *)
OneToken ==
    \A k \in Code :
        LET near == {q \in Req : code[q] = k /\ pc[q] \in {"token", "verifying"}} IN
        /\ near # {} \/ (\E c \in Client : <<c, k>> \in issued) => device[k] = "redeemed"
        /\ Cardinality(near) <= IF \E c \in Client : <<c, k>> \in issued THEN 0 ELSE 1

(* What Login calls open: the session is there, or a poll that resolved it *)
(* is still to be answered, which a sweep in between does not stop.        *)
Open == {k \in table \cup {code[q] : q \in {r \in Req : code[r] # NoCode}} :
            \A c \in Client : <<c, k>> \notin issued}

L == INSTANCE Login WITH Id <- Code, Party <- Client, NoParty <- NoClient,
                         open <- Open, starter <- state, granted <- issued

(* The handlers implement Login: a session that was answered, swept, given *)
(* up or lost in a restart is never polled to a token again, and a token   *)
(* ends what its own client began.                                         *)
LoginKept == L!Spec

(* A session whose client keeps polling does not stay: it is answered or   *)
(* swept, though its poll may be cut after the provider spent the code.    *)
SessionsEnd ==
    \A k \in Code : k \in table ~> k \notin table
==============================================================================
