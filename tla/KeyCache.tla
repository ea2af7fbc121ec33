------------------------------- MODULE KeyCache -------------------------------
(***************************************************************************)
(* OidcVerifier (auth/src/verify.rs): the cache of the provider's keys     *)
(* behind an async RwLock, and its calls of verify(), each with a token of *)
(* the provider.  The provider publishes keys and retires them.            *)
(*                                                                         *)
(* A read guard lives from the lookup to the end of the `if let`: the      *)
(* token is verified under it on a hit, and it is dropped before the       *)
(* fetch.  Forged and malformed tokens are refused whatever the keys and   *)
(* are no step.                                                            *)
(***************************************************************************)
EXTENDS FiniteSets

CONSTANTS
    Kid,        \* the provider's keys
    Call,       \* the calls of verify() at a time
    NoKid

ASSUME NoKidAssumption == NoKid \notin Kid

VARIABLES
    provider,   \* each key: "new", "published" or "retired"
    cache,      \* the cached set; empty also before the first fetch
    guard,      \* the calls that hold a read guard
    at,         \* where each call is
    kid,        \* the key of its token
    fetched,    \* the set it has fetched
    steady      \* history: its key has been published since it began

call == <<at, kid, fetched, steady>>
cacheVars == <<provider, cache, guard, call>>

CacheTypeOK ==
    /\ provider \in [Kid -> {"new", "published", "retired"}]
    /\ cache \subseteq Kid /\ guard \subseteq Call
    /\ at \in [Call -> {"idle", "reading", "looking", "fetching", "writing", "refused"}]
    /\ kid \in [Call -> Kid \cup {NoKid}]
    /\ fetched \in [Call -> SUBSET Kid]
    /\ steady \in [Call -> BOOLEAN]
    /\ guard = {q \in Call : at[q] = "looking"}

Published == {k \in Kid : provider[k] = "published"}

(* The verifier of a process that has just started.                        *)
Fresh ==
    /\ cache' = {} /\ guard' = {}
    /\ at' = [q \in Call |-> "idle"]
    /\ kid' = [q \in Call |-> NoKid]
    /\ fetched' = [q \in Call |-> {}]
    /\ steady' = [q \in Call |-> FALSE]

CacheInit ==
    /\ provider \in [Kid -> {"new", "published"}]
    /\ cache = {} /\ guard = {}
    /\ at = [q \in Call |-> "idle"]
    /\ kid = [q \in Call |-> NoKid]
    /\ fetched = [q \in Call |-> {}]
    /\ steady = [q \in Call |-> FALSE]

-----------------------------------------------------------------------------
MoveTo(q, l) == at' = [at EXCEPT ![q] = l]

End(q) ==
    /\ MoveTo(q, "idle")
    /\ kid' = [kid EXCEPT ![q] = NoKid]
    /\ fetched' = [fetched EXCEPT ![q] = {}]
    /\ steady' = [steady EXCEPT ![q] = FALSE]

(* verify() is called with a token signed by a key that the provider has   *)
(* or had.                                                                 *)
Ask(q, k) ==
    /\ at[q] = "idle" /\ provider[k] # "new"
    /\ MoveTo(q, "reading")
    /\ kid' = [kid EXCEPT ![q] = k]
    /\ steady' = [steady EXCEPT ![q] = provider[k] = "published"]
    /\ UNCHANGED <<provider, cache, guard, fetched>>

(* read().await                                                            *)
ReadLock(q) ==
    /\ at[q] = "reading"
    /\ MoveTo(q, "looking")
    /\ guard' = guard \cup {q}
    /\ UNCHANGED <<provider, cache, kid, fetched, steady>>

(* The token is verified with the cached key.                              *)
Hit(q) ==
    /\ at[q] = "looking" /\ kid[q] \in cache
    /\ guard' = guard \ {q}
    /\ UNCHANGED <<provider, cache>>
    /\ End(q)

(* Mutant of Miss: a cache that is there is not refetched.                 *)
MissRefuses(q) ==
    /\ at[q] = "looking" /\ kid[q] \notin cache
    /\ MoveTo(q, IF cache = {} THEN "fetching" ELSE "refused")
    /\ guard' = guard \ {q}
    /\ UNCHANGED <<provider, cache, kid, fetched, steady>>

(* Mutant of Miss: the fetch is made under the guard.                      *)
MissGuarded(q) ==
    /\ at[q] = "looking" /\ kid[q] \notin cache
    /\ MoveTo(q, "fetching")
    /\ UNCHANGED <<provider, cache, guard, kid, fetched, steady>>

(* The key is not cached, or nothing is: the guard goes, the fetch begins. *)
Miss(q) ==
    /\ at[q] = "looking" /\ kid[q] \notin cache
    /\ MoveTo(q, "fetching")
    /\ guard' = guard \ {q}
    /\ UNCHANGED <<provider, cache, kid, fetched, steady>>

(* fetch_jwks: the set as it is when the provider answers; this process    *)
(* may see it later, and after that of a later answer.                     *)
Fetched(q) ==
    /\ at[q] = "fetching"
    /\ MoveTo(q, "writing")
    /\ fetched' = [fetched EXCEPT ![q] = Published]
    /\ UNCHANGED <<provider, cache, guard, kid, steady>>

(* Discovery or the fetch fails: the token is refused, "JWKS unavailable". *)
FetchFails(q) ==
    /\ at[q] = "fetching"
    /\ UNCHANGED <<provider, cache, guard>>
    /\ End(q)

(* write().await: the set replaces the cached one whatever that is.        *)
Refresh(q) ==
    /\ at[q] = "writing" /\ guard = {}
    /\ cache' = fetched[q]
    /\ UNCHANGED <<provider, guard>>

(* The call was verified with what it fetched, before the write.           *)
Accepted(q) ==
    /\ kid[q] \in fetched[q]
    /\ Refresh(q)
    /\ End(q)

Refused(q) ==
    /\ kid[q] \notin fetched[q]
    /\ Refresh(q)
    /\ MoveTo(q, "refused")
    /\ UNCHANGED <<kid, fetched, steady>>

(* The refusal reaches the caller.                                         *)
Answered(q) ==
    /\ at[q] = "refused"
    /\ UNCHANGED <<provider, cache, guard>>
    /\ End(q)

(* The caller hangs up: the call is dropped at one of its awaits.          *)
Dropped(q) ==
    /\ at[q] \in {"reading", "fetching", "writing"}
    /\ UNCHANGED <<provider, cache, guard>>
    /\ End(q)

-----------------------------------------------------------------------------
(* The provider rotates: a key of another name comes, one goes for good.   *)
Publish(k) ==
    /\ provider[k] = "new"
    /\ provider' = [provider EXCEPT ![k] = "published"]
    /\ UNCHANGED <<cache, guard, call>>

Retire(k) ==
    /\ provider[k] = "published"
    /\ provider' = [provider EXCEPT ![k] = "retired"]
    /\ steady' = [q \in Call |-> steady[q] /\ kid[q] # k]
    /\ UNCHANGED <<cache, guard, at, kid, fetched>>

-----------------------------------------------------------------------------
(* "an unknown `kid` triggers one refetch, covering key rotation": a token *)
(* whose key has been published since the call began is never refused for  *)
(* its key, whatever sets overlapping calls put into the cache.            *)
SteadyKeyAccepted ==
    \A q \in Call : at[q] = "refused" => ~steady[q]

(* A call waits for nobody else's fetch: with the provider silent for ever,*)
(* those that look up the cache or replace it still get there.             *)
LookupsEnd ==
    \A q \in Call : at[q] \in {"reading", "looking", "writing"}
                 ~> at[q] \notin {"reading", "looking", "writing"}
==============================================================================
