--------------------------- MODULE RegistryClient ---------------------------
(***************************************************************************)
(* registry and dediregistry: Lookup of a subscriber's signing key, by the *)
(* shared cache first and by HTTP then.  The registry service is external: *)
(* the record of a pair <<subscriber, key id>> goes through the versions   *)
(* of Records, and a lookup is told by the version that it works with.     *)
(***************************************************************************)
EXTENDS Naturals, Sequences, FiniteSets

CONSTANTS Pairs,       \* pairs <<subscriber id, key id>>, ids being token sequences
          Records,     \* Records[p]: the versions of the record of p, in time
          Networks,    \* network ids
          Agnostic,    \* networkAgnosticSubscriberIDs
          Configs,     \* [plugin, vault, allowed, ttl] the adapter may have
          Lookers,     \* requests and artifact verifications that look up keys
          Never,       \* the time of what has not happened
          MaxNow       \* bound: ticks of the clock

ASSUME RegistryAssumption ==
  /\ MaxNow \in Nat /\ Never \notin Nat
  /\ Pairs \subseteq Seq(STRING) \X Seq(STRING)
  /\ \A p \in Pairs :
       /\ Len(Records[p]) \in Nat \ {0}
       /\ \A v \in 1 .. Len(Records[p]) :
            Records[p][v].ttl \in Nat /\ Records[p][v].validUntil \in Nat
  /\ \A c \in Configs : /\ c.plugin \in {"registry", "dedi"}
                       /\ c.allowed \subseteq Networks /\ c.ttl \in Nat

VARIABLES config, now,
          version,     \* version[p]: the record's current version
          replaced,    \* replaced[p][v]: when version v was replaced
          cache,       \* cache[key]: [pair, version, until]
          look         \* look[r]: a Lookup under way

registryVars == <<config, now, version, replaced, cache, look>>

Blank == <<>>            \* an empty id
Dedi == config.plugin = "dedi"

\* Fault: keys are cached by their key id alone.
CacheKeyOfKeyId(p) == p[2]

\* lookupCacheKey escapes both ids; registry joins them with "_", so that the keys
\* of two pairs may be the same where ids have a "_" of their own.
CacheKey(p) == IF Dedi THEN p ELSE p[1] \o <<"_">> \o p[2]

NoEntry == [pair |-> <<Blank, Blank>>, version |-> 0, until |-> 0]
NoLook == [pc |-> "idle", pair |-> <<Blank, Blank>>, network |-> Blank,
           version |-> 0, code |-> ""]

Rec(p, v) == Records[p][v]

RegistryInit ==
  /\ config \in Configs
  /\ now = 0
  /\ version = [p \in Pairs |-> 1]
  /\ replaced = [p \in Pairs |-> [v \in 1 .. Len(Records[p]) |-> Never]]
  /\ cache = [k \in {CacheKey(p) : p \in Pairs} |-> NoEntry]
  /\ look = [r \in Lookers |-> NoLook]

-----------------------------------------------------------------------------
(* The registry service and time (external) *)

RecordChanges(p) ==
  /\ version[p] < Len(Records[p])
  /\ version' = [version EXCEPT ![p] = @ + 1]
  /\ replaced' = [replaced EXCEPT ![p][version[p]] = now]
  /\ UNCHANGED <<config, now, cache, look>>

\* Ticks are long: a record is not held for one between its fetch and its use.
Tick ==
  /\ now < MaxNow
  /\ \A r \in Lookers : look[r].pc \notin {"store", "done"}
  /\ now' = now + 1
  /\ UNCHANGED <<config, version, replaced, cache, look>>

-----------------------------------------------------------------------------
(* Network membership: validateMemberships and validateContextNetworkID *)

ValidateContextNetworkID(members, network) ==
  network = Blank \/ (network \in members
                      /\ (config.allowed # {} => network \in config.allowed))

ValidateMemberships(members, subscriber, network) ==
  \/ subscriber \in Agnostic
  \/ /\ config.allowed # {} => members \cap config.allowed # {}
     /\ ValidateContextNetworkID(members, network)

\* isSubscriberRecord; record.subscriber is empty when the record names none.
IsSubscriberRecord(record, subscriber) ==
  record.subscriber \in {Blank, subscriber}

-----------------------------------------------------------------------------
(* Lookup *)

Answer(r, code, p, v) ==
  look' = [look EXCEPT ![r].pc = "done", ![r].code = code, ![r].pair = p, ![r].version = v]

BeginLookup(r, p, network) ==
  look' = [look EXCEPT ![r] =
             [NoLook EXCEPT !.pc = "cache", !.pair = p, !.network = network]]

\* DeDi refuses an empty or unusable path segment; registry sends what it is given.
RefuseIds(r) ==
  /\ look[r].pc = "cache"
  /\ Dedi /\ Blank \in {look[r].pair[1], look[r].pair[2]}
  /\ Answer(r, "AUT_SIGNATURE_INVALID", look[r].pair, 0)
  /\ UNCHANGED <<config, now, version, replaced, cache>>

\* cachedLookup: an entry that is live, readable and, for DeDi, this subscriber's.
Cached(p) ==
  /\ CacheKey(p) \in DOMAIN cache
  /\ LET e == cache[CacheKey(p)]
     IN /\ e.version # 0 /\ now < e.until
        /\ Dedi => IsSubscriberRecord(Rec(e.pair, e.version), p[1])

\* Fault: the memberships are checked when the record is fetched only.
CacheHitUnchecked(r) ==
  LET p == look[r].pair
      e == cache[CacheKey(p)]
  IN /\ look[r].pc = "cache" /\ Cached(p)
     /\ Answer(r, "ok", e.pair, e.version)
     /\ UNCHANGED <<config, now, version, replaced, cache>>

\* A hit; DeDi checks the memberships again, for this request's network.
CacheHit(r) ==
  LET p == look[r].pair
      e == cache[CacheKey(p)]
  IN /\ look[r].pc = "cache" /\ Cached(p)
     /\ IF Dedi /\ ~ValidateMemberships(Rec(e.pair, e.version).members,
                                        Rec(e.pair, e.version).subscriber, look[r].network)
        THEN Answer(r, "AUT_NETWORK_NOT_ALLOWED", e.pair, e.version)
        ELSE Answer(r, "ok", e.pair, e.version)
     /\ UNCHANGED <<config, now, version, replaced, cache>>

\* A miss, or the cache failed.
CacheMiss(r) ==
  /\ look[r].pc = "cache"
  /\ ~(Dedi /\ Blank \in {look[r].pair[1], look[r].pair[2]})
  /\ look' = [look EXCEPT ![r].pc = "http"]
  /\ UNCHANGED <<config, now, version, replaced, cache>>

\* transportErr and classifyStatus of what can go wrong with the call; registry
\* does not classify, which the handler answers as an internal error.
Faults == {"cancelled", "timeout", "unreachable", "4xx", "429", "5xx", "toolarge", "malformed"}
ClassifyFault(f) ==
  IF ~Dedi THEN ""
  ELSE CASE f = "cancelled" -> "NET_REQUEST_CANCELLED"
         [] f = "timeout" -> "NET_TIMEOUT"
         [] f = "4xx" -> "NET_INTERNAL_ERROR"
         [] f \in {"unreachable", "429", "5xx"} -> "NET_DOWNSTREAM_UNAVAILABLE"
         [] f \in {"toolarge", "malformed"} -> "NET_DOWNSTREAM_INVALID_RESPONSE"

HttpFails(r) ==
  /\ look[r].pc = "http"
  /\ \E f \in Faults : Answer(r, ClassifyFault(f), look[r].pair, 0)
  /\ UNCHANGED <<config, now, version, replaced, cache>>

\* The registry has no such record: DeDi says 404, registry an empty list.
HttpNotFound(r) ==
  LET p == look[r].pair
  IN /\ look[r].pc = "http"
     /\ p \in Pairs => ~Rec(p, version[p]).exists
     /\ Answer(r, IF Dedi THEN "AUT_SUBSCRIBER_NOT_FOUND" ELSE "ok", p, 0)
     /\ UNCHANGED <<config, now, version, replaced, cache>>

\* parseSubscriptionFromData(requireSigningKey) and the checks of the fetched record.
RecordCode(rec, subscriber, network) ==
  IF rec.key = "" THEN "AUT_KEY_NOT_FOUND"
  ELSE IF ~IsSubscriberRecord(rec, subscriber) THEN "AUT_SUBSCRIBER_NOT_FOUND"
  ELSE IF ~ValidateMemberships(rec.members, rec.subscriber, network)
       THEN "AUT_NETWORK_NOT_ALLOWED"
  ELSE "ok"

HttpOk(r) ==
  LET p == look[r].pair
      rec == Rec(p, version[p])
      code == IF Dedi THEN RecordCode(rec, p[1], look[r].network) ELSE "ok"
  IN /\ look[r].pc = "http" /\ p \in Pairs /\ rec.exists
     /\ IF code = "ok"
        THEN look' = [look EXCEPT ![r].pc = "store", ![r].version = version[p]]
        ELSE Answer(r, code, p, version[p])
     /\ UNCHANGED <<config, now, version, replaced, cache>>

\* Until when a record stored at time t is cached.  DeDi's records may have a time
\* to live of their own; registry's an end of validity, which no longer counts once
\* it has passed.
CachedUntil(rec, t) ==
  IF Dedi THEN t + (IF rec.ttl > 0 THEN rec.ttl ELSE config.ttl)
  ELSE IF t < rec.validUntil THEN rec.validUntil ELSE t + config.ttl

StoreRecord(r) ==
  LET p == look[r].pair
      v == look[r].version
  IN /\ look[r].pc = "store"
     /\ \/ cache' = [cache EXCEPT ![CacheKey(p)] =
             [pair |-> p, version |-> v, until |-> CachedUntil(Rec(p, v), now)]]
        \/ UNCHANGED cache               \* no cache, or Set failed
     /\ Answer(r, "ok", p, v)
     /\ UNCHANGED <<config, now, version, replaced>>

RegistryEnvironment == Tick \/ \E p \in Pairs : RecordChanges(p)

LookupStep(r) ==
  \/ RefuseIds(r) \/ CacheHit(r) \/ CacheMiss(r)
  \/ HttpFails(r) \/ HttpNotFound(r) \/ HttpOk(r) \/ StoreRecord(r)
=============================================================================
