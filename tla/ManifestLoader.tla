--------------------------- MODULE ManifestLoader ---------------------------
(***************************************************************************)
(* manifestloader: finds a manifest through the registry's metadata,       *)
(* fetches and verifies it, and keeps it under two keys of a cache that    *)
(* adapter instances share: the network's or subscriber's key and a key    *)
(* for the metadata's URLs.  One cache, registry or HTTP call is one step. *)
(* The publisher and the registry are external.                            *)
(***************************************************************************)
EXTENDS Naturals, FiniteSets

CONSTANTS Instances,    \* adapter instances sharing the cache
          Callers,      \* requests and refresh loops that use a loader
          Home,         \* Home[c]: the instance a caller runs in
          Ids,          \* network and subscriber ids
          Urls,         \* metadata: a manifest, signature and key URL
          NoUrl,        \* no metadata yet
          Setups,       \* loader configurations the instances may have
          TTL,          \* config cacheTTL, in ticks
          MaxRelease    \* bound: releases of the manifest

\* skipSignatureVerification, forceRefreshOnStartup, disableCache
Configs == [skip : BOOLEAN, force : BOOLEAN, disable : BOOLEAN]

ASSUME LoaderAssumption ==
  /\ TTL \in Nat \ {0} /\ MaxRelease \in Nat \ {0}
  /\ NoUrl \notin Urls /\ Ids \cap Urls = {} /\ Home \in [Callers -> Instances]
  /\ Setups \subseteq [Instances -> Configs]

VARIABLES config,      \* config[i]: this instance's loader configuration
          refreshed,   \* refreshed[i]: refreshedKeys
          uptime,      \* uptime[i]: ticks since the start, where refreshes are forced
          served,      \* release the manifest URLs serve
          signed,      \* release the signature URLs serve a signature of
          cache,       \* cache[k]: the shared cache
          call         \* call[c]: where this caller's lookup is

loaderVars ==
  <<config, refreshed, uptime, served, signed, cache, call>>

Keys == Ids \cup Urls
MaxAge == 2 * TTL   \* ages are not told apart beyond this

\* release 0 stands for no document.
Docs == [release : 0 .. MaxRelease, verified : BOOLEAN, age : 0 .. MaxAge]
NoDoc == [release |-> 0, verified |-> FALSE, age |-> 0]
NoCall == [pc |-> "idle", key |-> NoUrl, url |-> NoUrl, bypass |-> FALSE, doc |-> NoDoc]

LoaderInit ==
  /\ config \in Setups
  /\ refreshed = [i \in Instances |-> {}]
  /\ uptime = [i \in Instances |-> 0]
  /\ served = 1 /\ signed = 1
  /\ cache = [k \in Keys |-> [doc |-> NoDoc, left |-> 0]]
  /\ call = [c \in Callers |-> NoCall]

-----------------------------------------------------------------------------
(* The publisher, the registry and time (external) *)

\* A release is uploaded before its signature.
UploadManifest ==
  /\ served < MaxRelease
  /\ served' = served + 1
  /\ UNCHANGED <<config, refreshed, uptime, signed, cache, call>>

UploadSignature ==
  /\ signed < served
  /\ signed' = signed + 1
  /\ UNCHANGED <<config, refreshed, uptime, served, cache, call>>

Older(n) == IF n < MaxAge THEN n + 1 ELSE n
OlderDoc(d) == IF d.release = 0 THEN d ELSE [d EXCEPT !.age = Older(@)]

\* A document is not held for a tick between its fetch and its cache writes.
Tick ==
  /\ \A c \in Callers : call[c].pc \notin {"keep", "store"}
  /\ uptime' = [i \in Instances |-> IF config[i].force THEN Older(uptime[i]) ELSE 0]
  /\ cache' = [k \in Keys |->
       IF cache[k].left > 1
       THEN [doc |-> OlderDoc(cache[k].doc), left |-> cache[k].left - 1]
       ELSE [doc |-> NoDoc, left |-> 0]]
  /\ UNCHANGED <<config, refreshed, served, signed, call>>

-----------------------------------------------------------------------------
(* The lookups *)

\* shouldBypassCache marks the key before anything was fetched.
Bypasses(i, k) ==
  config[i].disable \/ (config[i].force /\ k \notin refreshed[i])

\* GetByNetworkID and GetBySubscriberID; GetByMetadata is their common tail and
\* has no caller of its own.
Get(c, k) ==
  LET i == Home[c]
  IN /\ call[c].pc = "idle"
     /\ call' = [call EXCEPT ![c] =
          [NoCall EXCEPT !.pc = IF Bypasses(i, k) THEN "registry" ELSE "key",
                         !.key = k, !.bypass = Bypasses(i, k)]]
     /\ refreshed' = IF config[i].force /\ ~config[i].disable
                     THEN [refreshed EXCEPT ![i] = @ \cup {k}] ELSE refreshed
     /\ UNCHANGED <<config, uptime, served, signed, cache>>

\* loadFromCache: a hit must be verified unless this instance does not verify.
LoadFromCache(i, k) ==
  /\ cache[k].doc.release # 0
  /\ cache[k].doc.verified \/ config[i].skip

\* The id's own key; a cache error counts as a miss.
ReadKey(c) ==
  /\ call[c].pc = "key"
  /\ \/ /\ LoadFromCache(Home[c], call[c].key)
        /\ call' = [call EXCEPT ![c].pc = "done", ![c].doc = cache[call[c].key].doc]
     \/ call' = [call EXCEPT ![c].pc = "registry"]
  /\ UNCHANGED <<config, refreshed, uptime, served, signed, cache>>

\* Fault: the forced refresh of an id stops at the metadata key.
ReadMetadataKeyAlways(c, u) ==
  /\ LoadFromCache(Home[c], u)
  /\ call' = [call EXCEPT ![c].doc = cache[u].doc, ![c].url = u, ![c].pc = "store"]

\* getByMetadata: the metadata's key is a hit.
ReadMetadataKey(c, u) ==
  /\ ~call[c].bypass
  /\ LoadFromCache(Home[c], u)
  /\ call' = [call EXCEPT ![c].doc = cache[u].doc, ![c].url = u, ![c].pc = "store"]

\* LookupRegistry or LookupNode returns metadata with all its URLs, other ones than
\* last time perhaps; then the metadata's key is read, where an error is a miss.
LookupMetadata(c) ==
  /\ call[c].pc = "registry"
  /\ \E u \in Urls :
       \/ ReadMetadataKey(c, u)
       \/ call' = [call EXCEPT ![c].pc = "fetch", ![c].url = u]
  /\ UNCHANGED <<config, refreshed, uptime, served, signed, cache>>

\* The manifest; without verification it is ready to be kept.
FetchManifest(c) ==
  /\ call[c].pc = "fetch"
  /\ call' = [call EXCEPT ![c].doc = [release |-> served, verified |-> FALSE, age |-> 0],
                          ![c].pc = IF config[Home[c]].skip THEN "keep" ELSE "verify"]
  /\ UNCHANGED <<config, refreshed, uptime, served, signed, cache>>

\* Signature and public key; VerifyDetachedArtifact accepts only the signed release.
VerifyManifest(c) ==
  /\ call[c].pc = "verify"
  /\ call[c].doc.release = signed
  /\ call' = [call EXCEPT ![c].doc = [release |-> signed, verified |-> TRUE, age |-> 0],
                          ![c].pc = "keep"]
  /\ UNCHANGED <<config, refreshed, uptime, served, signed, cache>>

\* A registry or HTTP error, missing metadata, or a signature that does not verify.
LookupFails(c) ==
  /\ call[c].pc \in {"registry", "fetch", "verify"}
  /\ call' = [call EXCEPT ![c].pc = "failed", ![c].doc = NoDoc]
  /\ UNCHANGED <<config, refreshed, uptime, served, signed, cache>>

\* store: cache.Set with the full TTL; its error is logged and ignored.
StoreDoc(c, k) ==
  \/ /\ ~config[Home[c]].disable
     /\ cache' = [cache EXCEPT ![k] = [doc |-> call[c].doc, left |-> TTL]]
  \/ UNCHANGED cache

KeepUnderMetadata(c) ==
  /\ call[c].pc = "keep"
  /\ StoreDoc(c, call[c].url)
  /\ call' = [call EXCEPT ![c].pc = "store"]
  /\ UNCHANGED <<config, refreshed, uptime, served, signed>>

\* Fault: a document served from the metadata key renews that key.
StoreUnderKeyRenews(c) ==
  /\ call[c].pc = "store"
  /\ cache' = [cache EXCEPT ![call[c].key] = [doc |-> call[c].doc, left |-> TTL],
                            ![call[c].url] = [doc |-> call[c].doc, left |-> TTL]]
  /\ call' = [call EXCEPT ![c].pc = "done"]
  /\ UNCHANGED <<config, refreshed, uptime, served, signed>>

StoreUnderKey(c) ==
  /\ call[c].pc = "store"
  /\ StoreDoc(c, call[c].key)
  /\ call' = [call EXCEPT ![c].pc = "done"]
  /\ UNCHANGED <<config, refreshed, uptime, served, signed>>

\* The process restarts: its lookups and what it had refreshed are gone.
LoaderRestarts(i) ==
  /\ refreshed' = [refreshed EXCEPT ![i] = {}]
  /\ uptime' = [uptime EXCEPT ![i] = 0]
  /\ call' = [c \in Callers |-> IF Home[c] = i THEN NoCall ELSE call[c]]
  /\ UNCHANGED <<config, served, signed, cache>>

LookupStep(c) ==
  \/ ReadKey(c) \/ LookupMetadata(c) \/ FetchManifest(c)
  \/ VerifyManifest(c) \/ LookupFails(c) \/ KeepUnderMetadata(c) \/ StoreUnderKey(c)

LoaderEnvironment ==
  UploadManifest \/ UploadSignature \/ Tick

-----------------------------------------------------------------------------
\* A document is at most two TTLs old when it is handed out: the id's key may be
\* filled from a metadata key that is about to expire, and from nothing older.
StalenessBounded ==
  \A c \in Callers : call[c].pc = "done" => call[c].doc.age < 2 * TTL

\* The lookup that forceRefreshOnStartup sends past the cache does not come back
\* with a document from before the instance's start, from either of the keys.
RefreshedOnStart ==
  \A c \in Callers :
    call[c].pc = "done" /\ call[c].bypass => call[c].doc.age <= uptime[Home[c]]
=============================================================================
