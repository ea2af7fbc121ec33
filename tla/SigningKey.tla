------------------------------ MODULE SigningKey ------------------------------
(***************************************************************************)
(* The signing key of kaguya-auth and its publication (auth/src/keys.rs,   *)
(* jwks.rs and the first lines of main): two files of the auth-keys volume *)
(* that outlive the process, and loreserver, which reads one of them when  *)
(* it starts.                                                              *)
(*                                                                         *)
(* std::fs::write truncates a file before it fills it, so a process that   *)
(* stops, or a write that fails, in between leaves the file torn.          *)
(***************************************************************************)
CONSTANTS
    Key,        \* the RSA keys that may be generated
    Absent, Torn

ASSUME FileAssumption == Absent \notin Key /\ Torn \notin Key /\ Absent # Torn

VARIABLES
    keyfile,    \* signing_key.pem
    jwks,       \* jwks.json
    boot,       \* how far auth's main() has come
    signer,     \* the key it has in memory
    lore,       \* loreserver: "created", "exited" or "up"
    trust,      \* the key that lore has read
    used,       \* history: the keys generated so far
    minted      \* history: the keys of the tokens minted in this volume's life

files == <<keyfile, jwks>>
server == <<lore, trust>>
keyVars == <<files, boot, signer, server, used, minted>>

File == Key \cup {Absent, Torn}

KeyTypeOK ==
    /\ keyfile \in File /\ jwks \in File /\ used \subseteq Key /\ minted \subseteq used
    /\ boot \in {"down", "load", "write_key", "publish", "write_jwks", "serving"}
    /\ signer \in Key \cup {Absent} /\ trust \in Key \cup {Absent}
    /\ lore \in {"created", "exited", "up"}
    /\ lore = "up" => trust # Absent

KeyInit ==
    /\ keyfile = Absent /\ jwks = Absent
    /\ boot = "down" /\ signer = Absent
    /\ lore = "created" /\ trust = Absent
    /\ used = {} /\ minted = {}

-----------------------------------------------------------------------------
(* Docker starts the container, at first and again by its restart policy.  *)
StartAuth ==
    /\ boot = "down"
    /\ boot' = "load"
    /\ UNCHANGED <<files, signer, server, used, minted>>

(* Mutant of LoadKey: the key is generated anew at each start.             *)
LoadAnew ==
    /\ boot = "load" /\ keyfile \in Key
    /\ \E k \in Key \ used : signer' = k /\ keyfile' = k /\ used' = used \cup {k}
    /\ boot' = "publish"
    /\ UNCHANGED <<jwks, server, minted>>

LoadKey ==
    /\ boot = "load" /\ keyfile \in Key
    /\ signer' = keyfile
    /\ boot' = "publish"
    /\ UNCHANGED <<files, server, used, minted>>

(* The file exists and does not parse: main ends with the error.           *)
LoadTorn ==
    /\ boot = "load" /\ keyfile = Torn
    /\ boot' = "down"
    /\ UNCHANGED <<files, signer, server, used, minted>>

(* Mutant of Generate: the key is not saved.                               *)
GenerateUnsaved(k) ==
    /\ boot = "load" /\ keyfile = Absent
    /\ signer' = k
    /\ used' = used \cup {k}
    /\ boot' = "publish"
    /\ UNCHANGED <<files, server, minted>>

(* The first start: a new key, whose file the write has just created.      *)
Generate(k) ==
    /\ boot = "load" /\ keyfile = Absent
    /\ signer' = k
    /\ used' = used \cup {k}
    /\ keyfile' = Torn
    /\ boot' = "write_key"
    /\ UNCHANGED <<jwks, server, minted>>

KeyWritten ==
    /\ boot = "write_key"
    /\ keyfile' = signer
    /\ boot' = "publish"
    /\ UNCHANGED <<jwks, signer, server, used, minted>>

(* Mutant of PublishJwks: a file that is there is not written again.       *)
PublishOnce ==
    /\ boot = "publish"
    /\ jwks' = IF jwks = Absent THEN Torn ELSE jwks
    /\ boot' = IF jwks = Absent THEN "write_jwks" ELSE "serving"
    /\ UNCHANGED <<keyfile, signer, server, used, minted>>

(* publish, at each start: the file is truncated, then filled.             *)
PublishJwks ==
    /\ boot = "publish"
    /\ jwks' = Torn
    /\ boot' = "write_jwks"
    /\ UNCHANGED <<keyfile, signer, server, used, minted>>

JwksWritten ==
    /\ boot = "write_jwks"
    /\ jwks' = signer
    /\ boot' = "serving"
    /\ UNCHANGED <<keyfile, signer, server, used, minted>>

(* mint                                                                    *)
SignToken ==
    /\ boot = "serving"
    /\ minted' = minted \cup {signer}
    /\ UNCHANGED <<files, boot, signer, server, used>>

(* auth stops at any point: killed, or a write that fails.                 *)
StopAuth ==
    /\ boot # "down"
    /\ boot' = "down"
    /\ signer' = Absent
    /\ UNCHANGED <<files, server, used, minted>>

-----------------------------------------------------------------------------
(* `test -f /keys/jwks.json` in auth's container.                          *)
Healthy == boot # "down" /\ jwks # Absent

(* lore reads jwks.json and "refuses to boot if it is absent", or torn.    *)
LoreBoots ==
    /\ IF jwks \in Key
          THEN lore' = "up" /\ trust' = jwks
          ELSE lore' = "exited" /\ trust' = Absent
    /\ UNCHANGED <<files, boot, signer, used, minted>>

(* The first start is the work of a `docker compose up` that waits for the *)
(* health check, and gives up after 15 failed ones or when auth exits: lore*)
(* may stay created.                                                       *)
FirstStart ==
    /\ lore = "created" /\ Healthy
    /\ LoreBoots

(* The restart policy, for a container that has been started once.         *)
RestartLore ==
    /\ lore = "exited"
    /\ LoreBoots

(* lore exits by itself or is killed.                                      *)
StopLore ==
    /\ lore = "up"
    /\ lore' = "exited" /\ trust' = Absent
    /\ UNCHANGED <<files, boot, signer, used, minted>>

(* `docker compose down -v`, with a key left to generate.                  *)
RemoveVolume ==
    /\ used # Key
    /\ keyfile' = Absent /\ jwks' = Absent
    /\ boot' = "down" /\ signer' = Absent
    /\ lore' = "created" /\ trust' = Absent
    /\ minted' = {}
    /\ UNCHANGED used

Boots ==
    \/ StartAuth \/ LoadKey \/ LoadTorn \/ KeyWritten \/ PublishJwks \/ JwksWritten
    \/ \E k \in Key \ used : Generate(k)

-----------------------------------------------------------------------------
(* "The key survives restarts": a token that was minted is one of the key  *)
(* file's, and so of the signer's after any number of stops and starts,    *)
(* until the volume is removed.                                            *)
TokensStayOurs == minted \subseteq {keyfile}

(* A loreserver that is up has read the key that auth signs with and has   *)
(* signed with, whichever of the two stopped and started in between.       *)
LoreTrustsSigner ==
    lore = "up" => /\ minted \subseteq {trust}
                   /\ boot = "serving" => trust = signer
==============================================================================
