------------------------------ MODULE KeysProofs ------------------------------
(***************************************************************************)
(* Proofs about Keys, for any number of provider keys, overlapping         *)
(* verifications and signing keys.  The invariants of the two components   *)
(* are proved apart and composed: a step of the process is a step of each, *)
(* or leaves it alone.                                                     *)
(***************************************************************************)
EXTENDS Keys, TLAPS

(* A call whose key has been published throughout: it still is, and the    *)
(* set that the call fetched has it.                                       *)
SteadyInv ==
    \A q \in Call :
        /\ at[q] # "idle" => kid[q] \in Kid
        /\ steady[q] => /\ at[q] # "idle"
                        /\ provider[kid[q]] = "published"
                        /\ at[q] = "writing" => kid[q] \in fetched[q]

CacheIInv == CacheTypeOK /\ SteadyInv /\ SteadyKeyAccepted

(* A whole key file is what everything else goes back to: the signer once  *)
(* it is loaded, a whole jwks.json, what loreserver trusts.                *)
KeyFileInv ==
    /\ keyfile \in used \cup {Absent, Torn}
    /\ boot = "write_key" => signer \in used /\ keyfile = Torn
    /\ boot \in {"publish", "write_jwks", "serving"} => signer \in used /\ signer = keyfile
    /\ jwks \in Key => jwks = keyfile
    /\ lore = "up" => trust \in Key /\ trust = keyfile

KeyIInv == KeyTypeOK /\ KeyFileInv /\ TokensStayOurs

IInv == CacheIInv /\ KeyIInv

-----------------------------------------------------------------------------
LEMMA InitIInv == Init => IInv
<1> SUFFICES ASSUME Init
             PROVE  IInv
  OBVIOUS
<1>1. CacheIInv
  BY DEF Init, CacheInit, CacheIInv, CacheTypeOK, SteadyInv, SteadyKeyAccepted
<1>2. KeyIInv
  BY FileAssumption
  DEF Init, KeyInit, KeyIInv, KeyTypeOK, KeyFileInv, TokensStayOurs, File
<1> QED BY <1>1, <1>2 DEF IInv

-----------------------------------------------------------------------------
(* The calls of verify(), one action at a time.                            *)
LEMMA AskStep ==
    ASSUME CacheIInv, NEW q \in Call, NEW k \in Kid, Ask(q, k)
    PROVE  CacheIInv'
BY DEF CacheIInv, CacheTypeOK, SteadyInv, SteadyKeyAccepted, Ask, MoveTo

(* A call that ends in any way.                                            *)
LEMMA EndStep ==
    ASSUME CacheIInv, NEW q \in Call, End(q), UNCHANGED provider,
           cache' \subseteq Kid, guard' = guard \ {q}
    PROVE  CacheIInv'
<1>1. CacheTypeOK'
  BY DEF CacheIInv, CacheTypeOK, End, MoveTo
<1>2. SteadyInv' /\ SteadyKeyAccepted'
  BY DEF CacheIInv, CacheTypeOK, SteadyInv, SteadyKeyAccepted, End, MoveTo
<1> QED BY <1>1, <1>2 DEF CacheIInv

LEMMA LookStep ==
    ASSUME CacheIInv, NEW q \in Call, ReadLock(q) \/ Miss(q)
    PROVE  CacheIInv'
<1> USE DEF CacheIInv, CacheTypeOK, ReadLock, Miss, MoveTo
<1>1. CacheTypeOK'
  OBVIOUS
<1>2. SteadyInv' /\ SteadyKeyAccepted'
  BY DEF SteadyInv, SteadyKeyAccepted
<1> QED BY <1>1, <1>2

(* What the provider answers has every key that is published then.         *)
LEMMA FetchedStep ==
    ASSUME CacheIInv, NEW q \in Call, Fetched(q)
    PROVE  CacheIInv'
<1> USE DEF CacheIInv, CacheTypeOK, Fetched, MoveTo
<1>1. CacheTypeOK'
  BY DEF Published
<1>2. SteadyInv' /\ SteadyKeyAccepted'
  BY DEF SteadyInv, SteadyKeyAccepted, Published
<1> QED BY <1>1, <1>2

LEMMA RefusedStep ==
    ASSUME CacheIInv, NEW q \in Call, Refused(q)
    PROVE  CacheIInv'
<1> USE DEF CacheIInv, CacheTypeOK, Refused, Refresh, MoveTo
<1>1. CacheTypeOK'
  OBVIOUS
<1>2. SteadyInv' /\ SteadyKeyAccepted'
  BY DEF SteadyInv, SteadyKeyAccepted
<1> QED BY <1>1, <1>2

LEMMA ProviderStep ==
    ASSUME CacheIInv, NEW k \in Kid, Publish(k) \/ Retire(k)
    PROVE  CacheIInv'
<1>1. CASE Publish(k)
  BY <1>1 DEF CacheIInv, CacheTypeOK, SteadyInv, SteadyKeyAccepted, Publish, call
<1>2. CASE Retire(k)
  <2> USE <1>2 DEF CacheIInv, Retire
  <2>1. \A q \in Call : steady'[q] = (steady[q] /\ kid[q] # k)
    BY Zenon
  <2>2. steady' \in [Call -> BOOLEAN]
    BY Zenon
  <2>3. \A q \in Call : steady'[q] => steady[q] /\ kid[q] # k
    BY <2>1, Zenon
  <2>4. CacheTypeOK'
    BY <2>2 DEF CacheTypeOK
  <2>5. SteadyInv'
    BY <2>3 DEF CacheTypeOK, SteadyInv
  <2>6. SteadyKeyAccepted'
    BY <2>3 DEF SteadyKeyAccepted
  <2> QED BY <2>4, <2>5, <2>6
<1> QED BY <1>1, <1>2

LEMMA FreshStep ==
    ASSUME CacheIInv, Fresh, UNCHANGED provider
    PROVE  CacheIInv'
BY DEF CacheIInv, CacheTypeOK, SteadyInv, SteadyKeyAccepted, Fresh

(* A step of the process is one of these for the verifier.                 *)
LEMMA CacheStep ==
    ASSUME CacheIInv, [Next]_vars
    PROVE  CacheIInv'
<1>1. ASSUME NEW q \in Call, Mints(q)
      PROVE  CacheIInv'
  <2>1. CASE Hit(q)
    BY <2>1, EndStep DEF Hit, CacheIInv, CacheTypeOK
  <2>2. CASE Accepted(q)
    <3>1. guard' = guard \ {q} /\ cache' \subseteq Kid
      BY <2>2 DEF Accepted, Refresh, CacheIInv, CacheTypeOK
    <3> QED BY <2>2, <3>1, EndStep DEF Accepted, Refresh
  <2> QED BY <1>1, <2>1, <2>2 DEF Mints
<1>2. ASSUME NEW q \in Call, FetchFails(q) \/ Answered(q) \/ Dropped(q)
      PROVE  CacheIInv'
  <2>1. guard' = guard \ {q} /\ cache' \subseteq Kid /\ End(q) /\ provider' = provider
    BY <1>2 DEF FetchFails, Answered, Dropped, CacheIInv, CacheTypeOK
  <2> QED BY <2>1, EndStep
<1>3. ASSUME NEW q \in Call, Verifying(q)
      PROVE  CacheIInv'
  BY <1>2, <1>3, AskStep, LookStep, FetchedStep, RefusedStep DEF Verifying
<1>4. CASE UNCHANGED cacheVars
  BY <1>4 DEF cacheVars, call, CacheIInv, CacheTypeOK, SteadyInv, SteadyKeyAccepted
<1> QED BY <1>1, <1>3, <1>4, ProviderStep, FreshStep DEF Next, Provider, Stop, vars

-----------------------------------------------------------------------------
(* The start of auth, one write at a time.  The first key is generated when*)
(* there was none, and so before any token and any jwks.json.              *)
LEMMA GenerateStep ==
    ASSUME KeyIInv, NEW k \in Key \ used, Generate(k)
    PROVE  KeyIInv'
<1> USE FileAssumption DEF KeyIInv, Generate, server
<1>1. KeyTypeOK'
  BY DEF KeyTypeOK, File
<1>2. KeyFileInv'
  BY DEF KeyTypeOK, KeyFileInv, File
<1>3. TokensStayOurs'
  BY DEF KeyTypeOK, TokensStayOurs
<1> QED BY <1>1, <1>2, <1>3

LEMMA BootStep ==
    ASSUME KeyIInv,
           StartAuth \/ LoadKey \/ LoadTorn \/ KeyWritten \/ PublishJwks \/ JwksWritten
    PROVE  KeyIInv'
<1> USE FileAssumption
    DEF KeyIInv, StartAuth, LoadKey, LoadTorn, KeyWritten, PublishJwks, JwksWritten, files, server
<1>1. KeyTypeOK'
  BY DEF KeyTypeOK, KeyFileInv, File
<1>2. KeyFileInv'
  BY DEF KeyTypeOK, KeyFileInv, File
<1>3. TokensStayOurs'
  BY DEF KeyTypeOK, KeyFileInv, TokensStayOurs
<1> QED BY <1>1, <1>2, <1>3

LEMMA SignStep ==
    ASSUME KeyIInv, SignToken
    PROVE  KeyIInv'
BY DEF KeyIInv, KeyTypeOK, KeyFileInv, TokensStayOurs, SignToken, files, server

LEMMA StopStep ==
    ASSUME KeyIInv, StopAuth \/ RemoveVolume
    PROVE  KeyIInv'
<1> USE FileAssumption DEF KeyIInv, StopAuth, RemoveVolume, files, server
<1>1. KeyTypeOK'
  BY DEF KeyTypeOK, File
<1>2. KeyFileInv' /\ TokensStayOurs'
  BY DEF KeyTypeOK, KeyFileInv, TokensStayOurs
<1> QED BY <1>1, <1>2

LEMMA LoreStep ==
    ASSUME KeyIInv, FirstStart \/ RestartLore \/ StopLore
    PROVE  KeyIInv'
<1> USE FileAssumption DEF KeyIInv, FirstStart, RestartLore, LoreBoots, StopLore, files
<1>1. KeyTypeOK'
  BY DEF KeyTypeOK, File
<1>2. KeyFileInv' /\ TokensStayOurs'
  BY DEF KeyTypeOK, KeyFileInv, TokensStayOurs
<1> QED BY <1>1, <1>2

LEMMA KeyStep ==
    ASSUME KeyIInv, [Next]_vars
    PROVE  KeyIInv'
<1>1. CASE UNCHANGED keyVars
  BY <1>1 DEF keyVars, files, server, KeyIInv, KeyTypeOK, KeyFileInv, TokensStayOurs, File
<1> QED BY <1>1, GenerateStep, BootStep, SignStep, StopStep, LoreStep
        DEF Next, Mints, Verifying, Provider, Boots, Stop, vars

LEMMA Invariant == Spec => []IInv
<1>1. IInv /\ [Next]_vars => IInv'
  BY CacheStep, KeyStep DEF IInv
<1> QED BY <1>1, InitIInv, PTL DEF Spec

-----------------------------------------------------------------------------
(* The verifier, the files and loreserver keep their types; a read guard is*)
(* held exactly by the calls that look the cache up.                       *)
THEOREM TypeCorrect == Spec => []TypeOK
<1>1. IInv => TypeOK
  BY DEF IInv, CacheIInv, KeyIInv, TypeOK
<1> QED BY <1>1, Invariant, PTL

(* verify() never refuses a token for its key when the provider has had    *)
(* that key published since the call began.                                *)
THEOREM SteadyKeysAccepted == Spec => []SteadyKeyAccepted
<1>1. IInv => SteadyKeyAccepted
  BY DEF IInv, CacheIInv
<1> QED BY <1>1, Invariant, PTL

(* load_or_generate signs with one key for the life of the volume, whatever*)
(* stops come between and within its writes.                               *)
THEOREM TokensAreOurs == Spec => []TokensStayOurs
<1>1. IInv => TokensStayOurs
  BY DEF IInv, KeyIInv
<1> QED BY <1>1, Invariant, PTL

(* loreserver, once it is up, trusts the key auth signs with.              *)
THEOREM LoreTrusts == Spec => []LoreTrustsSigner
<1>1. IInv => LoreTrustsSigner
  BY DEF IInv, KeyIInv, KeyFileInv, TokensStayOurs, LoreTrustsSigner
<1> QED BY <1>1, Invariant, PTL
==============================================================================
