-------------------------------- MODULE Tokens --------------------------------
(***************************************************************************)
(* The tokens kaguya-auth accepts and mints (auth/src/verify.rs, keys.rs   *)
(* and the exchanges of main.rs): who a token says its bearer is, until    *)
(* when, and with what access.                                             *)
(*                                                                         *)
(* A login is an identity at the OIDC provider, and its id token one value *)
(* of IdToken.  Verifying an id token may await the provider's keys; a     *)
(* token of our own is verified without an await.  From the verification   *)
(* on a handler runs to its end: role_for and mint do not await.  The urc  *)
(* is one that a call asks for; Access stands for its rows in the store.   *)
(* A forged, foreign or malformed token is refused and is no step.         *)
(***************************************************************************)
EXTENDS Naturals, FiniteSets

CONSTANTS
    Login,      \* the `sub`s of the provider's connectors, one per login
    Email,      \* the emails of the accounts, lowercased; the code does not
                \* tell one from a sub, and a provider may use one as the other
    email,      \* the email claim of each login, or NoEmail
    Verified,   \* the logins whose email_verified claim is true
    NoEmail,
    Exps,       \* the values of the exp claims of the id tokens
    Leeway,     \* jsonwebtoken's leeway for exp
    MaxTime,    \* bound on the clock
    Slot        \* the clients: each has one call and keeps its last token

ASSUME NamesAssumption == NoEmail \notin Email
ASSUME ClaimsAssumption == email \in [Login -> Email \cup {NoEmail}] /\ Verified \subseteq Login
ASSUME TimeAssumption == Exps \subseteq Nat /\ Leeway \in Nat /\ MaxTime \in Nat

(* The user ids of the store, and the id tokens of the provider.           *)
Subject == Login \cup Email
IdToken == [login : Login, exp : Exps]

(* What a handler knows after verification, with the sub it will mint for. *)
Claims == [sub : Subject, exp : Nat, id : IdToken]

(* A minted token: "authn" without access, "authz" with the access of its  *)
(* subject.  Two histories: the id token it descends from, and whether its *)
(* subject's access was taken away after it was minted.                    *)
Minted == [kind : {"authn", "authz"}, sub : Subject, exp : Nat,
           access : BOOLEAN, id : IdToken, late : BOOLEAN]

VARIABLES
    clock,
    access,     \* the subjects with a role on the urc
    call,       \* the call of each slot: at most one
    wallet      \* the last token minted for a slot: at most one

vars == <<clock, access, call, wallet>>

Purpose == {"login", "exchange"}

TypeOK ==
    /\ clock \in 0..MaxTime
    /\ access \subseteq Subject
    /\ \A s \in Slot : call[s] \subseteq Purpose \X IdToken /\ Cardinality(call[s]) <= 1
    /\ \A s \in Slot : wallet[s] \subseteq Minted /\ Cardinality(wallet[s]) <= 1
    /\ DOMAIN call = Slot /\ DOMAIN wallet = Slot
    /\ \A s \in Slot : \A m \in wallet[s] : m.kind = "authn" => ~m.access

Init ==
    /\ clock = 0
    /\ access = {}
    /\ call = [s \in Slot |-> {}]
    /\ wallet = [s \in Slot |-> {}]

-----------------------------------------------------------------------------
(* validate_exp, with the leeway.                                          *)
Live(exp) == exp + Leeway >= clock

(* Mutant of canonical_subject: any email unifies.                         *)
AnyEmail(l) == IF email[l] # NoEmail THEN email[l] ELSE l

(* The canonical account id: a verified email, or else the sub.            *)
canonical_subject(l) == IF l \in Verified /\ email[l] # NoEmail THEN email[l] ELSE l

(* Mutant of Expiry: minted tokens have a lifetime of their own.           *)
FromNow(exp) == clock + 1

(* The exp of a minted token is the verified token's.                      *)
Expiry(exp) == exp

(* mint: the token takes the place of the slot's last one.                 *)
Mint(s, kind, sub, exp, granted, id) ==
    wallet' = [wallet EXCEPT ![s] =
        {[kind |-> kind, sub |-> sub, exp |-> Expiry(exp), access |-> granted,
          id |-> id, late |-> FALSE]}]

(* A call with an id token: its signature and exp are checked against the  *)
(* keys, and the handler resumes.  "login" stands for both the web's       *)
(* exchange of an external token and a poll of the native login.           *)
Verify(s, p, t) ==
    /\ call[s] = {}
    /\ Live(t.exp)
    /\ call' = [call EXCEPT ![s] = {<<p, t>>}]
    /\ UNCHANGED <<clock, access, wallet>>

(* Mutant of MintAuthn: a login token that gives access.                   *)
MintAuthnWithAccess(s, t) ==
    /\ <<"login", t>> \in call[s]
    /\ call' = [call EXCEPT ![s] = {}]
    /\ Mint(s, "authn", canonical_subject(t.login), t.exp,
            canonical_subject(t.login) \in access, t)
    /\ UNCHANGED <<clock, access>>

(* A login mints an authn token for the canonical subject.                 *)
MintAuthn(s, t) ==
    /\ <<"login", t>> \in call[s]
    /\ call' = [call EXCEPT ![s] = {}]
    /\ Mint(s, "authn", canonical_subject(t.login), t.exp, FALSE, t)
    /\ UNCHANGED <<clock, access>>

(* The exchange of an id token mints for the sub it carries.               *)
MintAuthz(s, t) ==
    /\ <<"exchange", t>> \in call[s]
    /\ call' = [call EXCEPT ![s] = {}]
    /\ Mint(s, "authz", t.login, t.exp, t.login \in access, t)
    /\ UNCHANGED <<clock, access>>

(* Mutant of Granted: the access of the presented token is passed on.      *)
Forwarded(m) == m.access \/ m.sub \in access

(* The exchange reads the roles anew, whatever the bearer carries.         *)
Granted(m) == m.sub \in access

(* The exchange of one of our own tokens, authn or authz.                  *)
ExchangeOwn(s, m) ==
    /\ call[s] = {}
    /\ Live(m.exp)
    /\ Mint(s, "authz", m.sub, m.exp, Granted(m), m.id)
    /\ UNCHANGED <<clock, access, call>>

(* A mint that fails, a client that hangs up, or a restart.                *)
Cut(s) ==
    /\ call[s] # {}
    /\ call' = [call EXCEPT ![s] = {}]
    /\ UNCHANGED <<clock, access, wallet>>

-----------------------------------------------------------------------------
(* The store changes: a role is given (by the admin or by creating).       *)
GiveAccess(u) ==
    /\ u \notin access
    /\ access' = access \cup {u}
    /\ UNCHANGED <<clock, call, wallet>>

(* A role is taken away; the tokens out there keep what they say.          *)
TakeAccess(u) ==
    /\ u \in access
    /\ access' = access \ {u}
    /\ wallet' = [s \in Slot |-> {[m EXCEPT !.late = m.late \/ (m.sub = u /\ m.access)] : m \in wallet[s]}]
    /\ UNCHANGED <<clock, call>>

Tick ==
    /\ clock < MaxTime
    /\ clock' = clock + 1
    /\ UNCHANGED <<access, call, wallet>>

Next ==
    \/ \E s \in Slot :
        \/ \E t \in IdToken :
            \/ \E p \in Purpose : Verify(s, p, t)
            \/ MintAuthn(s, t)
            \/ MintAuthz(s, t)
        \/ \E s2 \in Slot : \E m \in wallet[s2] : ExchangeOwn(s, m)
        \/ Cut(s)
    \/ \E u \in Subject : GiveAccess(u) \/ TakeAccess(u)
    \/ Tick

Spec == Init /\ [][Next]_vars

-----------------------------------------------------------------------------
Out == UNION {wallet[s] : s \in Slot}

(* "Tokens are issued with the OIDC id token's expiry": however many times *)
(* a token is exchanged for another, by whom and how late, none outlives   *)
(* the login it began with.                                                *)
NoExtension ==
    \A m \in Out : m.exp <= m.id.exp

(* The logins l and k are of the account of one verified email.            *)
OneAccount(l, k) == {l, k} \subseteq Verified /\ email[l] = email[k]

(* The provider's sub of l is the verified email of k.                     *)
SubIsEmail(l, k) == k \in Verified /\ email[k] = l

(* Two minted tokens with one subject come from one login, from logins that*)
(* the provider verified the same email of or, since emails and subs are   *)
(* one namespace of user ids, from logins of which one has the other's     *)
(* verified email for its sub: no email claim that is not verified makes   *)
(* them meet, through any chain of exchanges.                              *)
NoCollision ==
    \A m, n \in Out : m.sub = n.sub =>
        LET l == m.id.login
            k == n.id.login
        IN  l = k \/ OneAccount(l, k) \/ SubIsEmail(l, k) \/ SubIsEmail(k, l)

(* A token that gives access was minted while its subject had it: a token  *)
(* minted after a revocation has none, even in exchange for one that does. *)
FreshAccess ==
    \A m \in Out : m.access /\ ~m.late => m.sub \in access

(* "A verified email unifies the same person's logins across connectors    *)
(* into one account": tokens of logins with one verified email have one    *)
(* subject.                                                                *)
AccountUnified ==
    \A m, n \in Out :
        /\ {m.id.login, n.id.login} \subseteq Verified
        /\ email[m.id.login] = email[n.id.login]
        /\ email[m.id.login] # NoEmail
        => m.sub = n.sub
==============================================================================
