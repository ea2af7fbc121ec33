--------------------------------- MODULE Keys ---------------------------------
(***************************************************************************)
(* The two kinds of keys of one kaguya-auth process: the provider's, which *)
(* it verifies identities with, and its own, which it mints tokens with.   *)
(* A stop of the process ends the calls and the cache of the one and the   *)
(* key in memory of the other; calls are served once both are there.       *)
(***************************************************************************)
EXTENDS KeyCache, SigningKey

vars == <<cacheVars, keyVars>>

TypeOK == CacheTypeOK /\ KeyTypeOK

Init == CacheInit /\ KeyInit

-----------------------------------------------------------------------------
(* A token that was accepted is exchanged for one that is signed.          *)
Mints(q) == (Hit(q) \/ Accepted(q)) /\ SignToken

Verifying(q) ==
    /\ boot = "serving"
    /\ \/ \E k \in Kid : Ask(q, k)
       \/ ReadLock(q) \/ Miss(q) \/ Fetched(q) \/ FetchFails(q)
       \/ Refused(q) \/ Answered(q) \/ Dropped(q)
    /\ UNCHANGED keyVars

Provider == (\E k \in Kid : Publish(k) \/ Retire(k)) /\ UNCHANGED keyVars

Stop == (StopAuth \/ RemoveVolume) /\ Fresh /\ UNCHANGED provider

Next ==
    \/ \E q \in Call : Mints(q) \/ Verifying(q)
    \/ Provider
    \/ Boots /\ UNCHANGED cacheVars
    \/ (FirstStart \/ RestartLore \/ StopLore) /\ UNCHANGED cacheVars
    \/ Stop

Spec == Init /\ [][Next]_vars

(* Docker restarts what has been started and has exited (auth has been when*)
(* there is a key file), a process that is not stopped goes on, and the    *)
(* RwLock is fair: a writer gets its turn however many readers come.       *)
(* Nobody is assumed to run `docker compose up`, which the first start of  *)
(* either takes, nor the provider to answer or callers to call.            *)
Fairness ==
    /\ WF_vars(keyfile # Absent /\ Boots /\ UNCHANGED cacheVars)
    /\ WF_vars(RestartLore /\ UNCHANGED cacheVars)
    /\ \A q \in Call :
        /\ WF_vars((ReadLock(q) \/ Miss(q)) /\ UNCHANGED keyVars)
        /\ WF_vars(Hit(q) /\ SignToken)
        /\ SF_vars(Accepted(q) /\ SignToken)
        /\ SF_vars(Refused(q) /\ UNCHANGED keyVars)

FairSpec == Spec /\ Fairness

-----------------------------------------------------------------------------
(* A lore that has been started comes up once the signing key is whole and *)
(* the stops come to an end, though it may have met a jwks.json that was   *)
(* absent or torn before: the next start of auth writes it anew, the next  *)
(* of lore reads it.  Only the removal of the volume undoes its start.     *)
LoreComesUp ==
    <>[][~(Stop \/ StopLore)]_vars =>
        (keyfile \in Key /\ lore # "created" ~> lore \in {"up", "created"})
==============================================================================
