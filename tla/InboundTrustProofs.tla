------------------------- MODULE InboundTrustProofs -------------------------
(***************************************************************************)
(* Proofs about RegistryClient and InboundTrust for every registry, every  *)
(* configuration of the lookups and every message and artifact.            *)
(***************************************************************************)
EXTENDS InboundTrust, TLAPS

-----------------------------------------------------------------------------
(* Types *)

CacheKeys == {CacheKey(p) : p \in Pairs}

Asked ==
  Pairs \cup Artifacts \cup {<<Blank, Blank>>}
    \cup UNION {{m.headers[i].pair : i \in 1 .. Len(m.headers)} : m \in Messages}

AskedNetworks == {Blank} \cup {m.network : m \in Messages}

Codes ==
  Unauthorized \cup
    {"", "ok", "NET_REQUEST_CANCELLED", "NET_TIMEOUT", "NET_INTERNAL_ERROR",
     "NET_DOWNSTREAM_UNAVAILABLE", "NET_DOWNSTREAM_INVALID_RESPONSE"}

CacheEntries == [pair : Asked, version : Nat, until : Nat]

Looks ==
  [pc : {"idle", "cache", "http", "store", "done", "answered"},
   pair : Asked, network : AskedNetworks, version : Nat, code : Codes]

Grounds == [pair : Asked, version : Nat, at : Nat]

Jobs ==
  [kind : {"none", "request", "artifact"}, message : Messages \cup {NoMessage}, i : Nat,
   used : Seq(Grounds), result : {"", "ok", "permanent", "transient"}]

TypeOK ==
  /\ config \in Configs
  /\ now \in Nat
  /\ version \in [Pairs -> Nat]
  /\ replaced = [p \in Pairs |-> replaced[p]]
  /\ \A p \in Pairs : /\ version[p] \in 1 .. Len(Records[p])
                      /\ replaced[p] \in [1 .. Len(Records[p]) -> Nat \cup {Never}]
  /\ cache \in [CacheKeys -> CacheEntries]
  /\ look \in [Lookers -> Looks]
  /\ job \in [Lookers -> Jobs]

-----------------------------------------------------------------------------
(* The invariant *)

\* What the registry has not replaced yet has no time of replacement.
CurrentUnreplaced ==
  \A p \in Pairs : \A v \in version[p] .. Len(Records[p]) : replaced[p][v] = Never

Published(p, v) == p \in Pairs /\ v \in 1 .. version[p]

\* At time t, version v of p's record was not replaced longer ago than it may be cached.
Fresh(p, v, t) ==
  replaced[p][v] = Never \/ t <= CachedUntil(Rec(p, v), replaced[p][v])

\* What the cache may answer with for p: the record of p, or of a pair with its key.
Alike(p, q) == p = q \/ (~Dedi /\ Collide(p, q))

\* What DeDi's lookup checks of a record before it answers with it.
Member(p, v, network) ==
  Dedi => ValidateMemberships(Rec(p, v).members, Rec(p, v).subscriber, network)

HasKey(p, v) == Dedi => Rec(p, v).key # ""

\* A cached record is stored under its own key, for no longer than its time to live
\* from when it was the current one.
GoodEntry(k, e) ==
  e.version # 0 =>
    /\ Published(e.pair, e.version) /\ CacheKey(e.pair) = k
    /\ Fresh(e.pair, e.version, e.until)
    /\ e.until <= CachedUntil(Rec(e.pair, e.version), now)
    /\ HasKey(e.pair, e.version)

\* A lookup that got a record got a fresh one; that got none, was told that there is
\* none, or failed without blaming the sender.
GoodLook(l) ==
  /\ l.pc = "store" =>
       /\ Published(l.pair, l.version) /\ l.version # 0
       /\ replaced[l.pair][l.version] \in {Never, now}
       /\ HasKey(l.pair, l.version) /\ Member(l.pair, l.version, l.network)
  /\ l.pc = "done" /\ l.version # 0 =>
       /\ Published(l.pair, l.version)
       /\ l.code = "ok" => /\ Fresh(l.pair, l.version, now)
                           /\ HasKey(l.pair, l.version)
                           /\ Member(l.pair, l.version, l.network)
  /\ l.pc = "done" /\ l.version = 0 =>
       /\ l.code = "ok" => ~Dedi /\ Missing(l.pair)
       /\ l.code \in Unauthorized =>
            Missing(l.pair) \/ Blank \in {l.pair[1], l.pair[2]}

\* What KeysAreFresh and MembersOnly say of header n of message m.
GoodUse(m, n, u) ==
  /\ Alike(m.headers[n].pair, u.pair) /\ Published(u.pair, u.version)
  /\ u.at <= now /\ m.headers[n].created <= u.at + Skew /\ u.at <= m.headers[n].expires
  /\ Fresh(u.pair, u.version, u.at)
  /\ Rec(u.pair, u.version).key = m.headers[n].by
  /\ Member(u.pair, u.version, m.network)

\* A request's lookup is for the header it is at, and every header before it has been
\* believed for good reasons.
GoodRequest(l, j) ==
  /\ j.message \in Messages /\ j.i \in 1 .. Len(j.message.headers)
  /\ l.pc # "answered" =>
       /\ Len(j.used) = j.i - 1
       /\ l.pc # "done" => l.pair = j.message.headers[j.i].pair
       /\ Alike(j.message.headers[j.i].pair, l.pair) /\ l.network = j.message.network
  /\ l.pc = "answered" => Len(j.used) = Len(j.message.headers)
  /\ \A n \in 1 .. Len(j.used) : GoodUse(j.message, n, j.used[n])

\* An artifact's key is bad for good with a reason.
GoodArtifact(l, j) ==
  l.pc = "answered" /\ j.result = "permanent" /\ j.used # <<>> =>
    LET u == j.used[1]
        rec == Rec(u.pair, u.version)
    IN IF u.version = 0 THEN ~Dedi /\ Missing(u.pair)
       ELSE \/ ~Dedi /\ (rec.status = "unusable" \/ rec.key = "")
            \/ rec.key # "" /\ ~rec.ed25519

GoodJob(l, j) ==
  /\ j.kind = "none" => l.pc = "idle"
  /\ j.kind = "request" => GoodRequest(l, j)
  /\ j.kind = "artifact" => GoodArtifact(l, j)

TrustInv ==
  /\ TypeOK
  /\ CurrentUnreplaced
  /\ \A k \in CacheKeys : GoodEntry(k, cache[k])
  /\ \A r \in Lookers : GoodLook(look[r]) /\ GoodJob(look[r], job[r])

-----------------------------------------------------------------------------
(* Cache keys *)

LEMMA WiderSeq ==
  ASSUME NEW S, NEW T, S \subseteq T, NEW s \in Seq(S)
  PROVE  s \in Seq(T)
  OBVIOUS

LEMMA SameElements ==
  ASSUME NEW S, NEW s \in Seq(S), NEW t \in Seq(S), Len(s) = Len(t),
         \A i \in 1 .. Len(s) : s[i] = t[i]
  PROVE  s = t
  OBVIOUS

\* a is s, x and u.
Joined(a, s, x, u) ==
  /\ Len(a) = Len(s) + 1 + Len(u)
  /\ \A i \in 1 .. Len(s) : a[i] = s[i]
  /\ a[Len(s) + 1] = x
  /\ \A i \in 1 .. Len(u) : a[Len(s) + 1 + i] = u[i]

LEMMA JoinFacts ==
  ASSUME NEW S, NEW s \in Seq(S), NEW x \in S, NEW u \in Seq(S)
  PROVE  Joined(s \o <<x>> \o u, s, x, u)
<1> DEFINE a == s \o <<x>>
<1>1. a \in Seq(S) /\ Len(a) = Len(s) + 1 /\ Len(s) \in Nat /\ Len(u) \in Nat
  OBVIOUS
<1>2. /\ \A i \in 1 .. Len(s) : a[i] = s[i]
      /\ a[Len(s) + 1] = x
  OBVIOUS
<1> HIDE DEF a
<1>3. Len(a \o u) = Len(s) + 1 + Len(u)
  BY <1>1
<1>4. /\ \A i \in 1 .. Len(a) : (a \o u)[i] = a[i]
      /\ \A i \in 1 .. Len(u) : (a \o u)[Len(a) + i] = u[i]
  BY <1>1
<1>5. /\ \A i \in 1 .. Len(s) : (a \o u)[i] = s[i]
      /\ (a \o u)[Len(s) + 1] = x
      /\ \A i \in 1 .. Len(u) : (a \o u)[Len(s) + 1 + i] = u[i]
  BY <1>1, <1>2, <1>4
<1> QED BY <1>3, <1>5 DEF Joined, a

\* Ids joined by x can be told apart when the first has no x.
LEMMA JoinInjective ==
  ASSUME NEW S, NEW a, NEW x, NEW s \in Seq(S), NEW t \in Seq(S),
         NEW u \in Seq(S), NEW v \in Seq(S),
         Joined(a, s, x, u), Joined(a, t, x, v),
         \A i \in 1 .. Len(s) : s[i] # x, \A i \in 1 .. Len(t) : t[i] # x
  PROVE  s = t /\ u = v
<1>1. Len(s) \in Nat /\ Len(t) \in Nat /\ Len(u) \in Nat /\ Len(v) \in Nat
  OBVIOUS
<1>2. ~(Len(s) < Len(t)) /\ ~(Len(t) < Len(s))
  <2>1. a[Len(s) + 1] = x /\ a[Len(t) + 1] = x
    BY DEF Joined
  <2>2. ASSUME Len(s) < Len(t) PROVE FALSE
    <3>1. Len(s) + 1 \in 1 .. Len(t)
      BY <1>1, <2>2
    <3>2. a[Len(s) + 1] = t[Len(s) + 1]
      BY <3>1 DEF Joined
    <3> QED BY <2>1, <3>1, <3>2
  <2>3. ASSUME Len(t) < Len(s) PROVE FALSE
    <3>1. Len(t) + 1 \in 1 .. Len(s)
      BY <1>1, <2>3
    <3>2. a[Len(t) + 1] = s[Len(t) + 1]
      BY <3>1 DEF Joined
    <3> QED BY <2>1, <3>1, <3>2
  <2> QED BY <2>2, <2>3
<1>3. Len(s) = Len(t) /\ Len(u) = Len(v)
  <2>1. Len(s) = Len(t)
    BY <1>1, <1>2
  <2>2. Len(s) + 1 + Len(u) = Len(t) + 1 + Len(v)
    BY DEF Joined
  <2> QED BY <1>1, <2>1, <2>2
<1>4. s = t
  <2>1. \A i \in 1 .. Len(s) : s[i] = t[i]
    BY <1>3 DEF Joined
  <2> QED BY <1>3, <2>1, SameElements
<1>5. \A i \in 1 .. Len(u) : u[i] = v[i]
  BY <1>3 DEF Joined
<1> QED BY <1>3, <1>4, <1>5, SameElements

LEMMA EmptySeq == ASSUME NEW S PROVE <<>> \in Seq(S)
  OBVIOUS

\* Whatever can be asked for is a pair of ids.
LEMMA AskedPairs ==
  ASSUME NEW p \in Asked PROVE p \in Seq(STRING) \X Seq(STRING)
<1>1. <<Blank, Blank>> \in Seq(STRING) \X Seq(STRING)
  BY EmptySeq DEF Blank
<1> QED BY <1>1, RegistryAssumption, TrustAssumption DEF Asked

\* Only pairs whose ids collide share a cache entry.
LEMMA CacheKeyAlike ==
  ASSUME NEW p \in Asked, NEW q \in Asked, CacheKey(p) = CacheKey(q)
  PROVE  Alike(p, q)
<1>1. CASE Dedi
  BY <1>1 DEF CacheKey, Alike
<1>3. CASE ~Dedi /\ \E s \in {p[1], q[1]} : \E i \in 1 .. Len(s) : s[i] = "_"
  BY <1>3 DEF CacheKey, Alike, Collide
<1>2. CASE ~Dedi /\ ~(\E s \in {p[1], q[1]} : \E i \in 1 .. Len(s) : s[i] = "_")
  <2> DEFINE T == STRING \cup {"_"}
             x == "_"
  <2>1. /\ p = <<p[1], p[2]>> /\ p[1] \in Seq(T) /\ p[2] \in Seq(T)
        /\ q = <<q[1], q[2]>> /\ q[1] \in Seq(T) /\ q[2] \in Seq(T)
    <3>1. p \in Seq(STRING) \X Seq(STRING) /\ q \in Seq(STRING) \X Seq(STRING)
      BY AskedPairs
    <3>2. /\ p = <<p[1], p[2]>> /\ p[1] \in Seq(STRING) /\ p[2] \in Seq(STRING)
          /\ q = <<q[1], q[2]>> /\ q[1] \in Seq(STRING) /\ q[2] \in Seq(STRING)
      BY <3>1
    <3>3. STRING \subseteq T
      OBVIOUS
    <3> HIDE DEF T
    <3> QED BY <3>2, <3>3, WiderSeq
  <2>2. /\ \A i \in 1 .. Len(p[1]) : p[1][i] # x
        /\ \A i \in 1 .. Len(q[1]) : q[1][i] # x
    BY <1>2
  <2>3. p[1] \o <<x>> \o p[2] = q[1] \o <<x>> \o q[2]
    BY <1>2 DEF CacheKey
  <2>4. x \in T
    OBVIOUS
  <2> HIDE DEF T, x
  <2>5. /\ Joined(p[1] \o <<x>> \o p[2], p[1], x, p[2])
        /\ Joined(q[1] \o <<x>> \o q[2], q[1], x, q[2])
    BY <2>1, <2>4, JoinFacts
  <2>6. p[1] = q[1] /\ p[2] = q[2]
    <3> DEFINE a == p[1] \o <<x>> \o p[2]
    <3>1. Joined(a, p[1], x, p[2]) /\ Joined(a, q[1], x, q[2])
      BY <2>3, <2>5
    <3> HIDE DEF a
    <3> QED BY <2>1, <2>2, <3>1, JoinInjective
  <2> QED BY <2>1, <2>6 DEF Alike
<1> QED BY <1>1, <1>2, <1>3

-----------------------------------------------------------------------------
(* Facts of the types *)

\* What is stored later is cached for longer.
Expires(rec) ==
  \A t \in Nat : /\ CachedUntil(rec, t) \in Nat /\ t <= CachedUntil(rec, t)
                 /\ \A s \in Nat : s <= t => CachedUntil(rec, s) <= CachedUntil(rec, t)

LEMMA ExpiresFacts ==
  ASSUME config \in Configs, NEW p \in Pairs, NEW v \in 1 .. Len(Records[p])
  PROVE  Expires(Rec(p, v))
<1>1. Rec(p, v).ttl \in Nat /\ Rec(p, v).validUntil \in Nat /\ config.ttl \in Nat
  BY RegistryAssumption DEF Rec
<1> QED BY <1>1 DEF Expires, CachedUntil

LEMMA PublishedFacts ==
  ASSUME TrustInv, NEW p, NEW v, Published(p, v)
  PROVE  /\ p \in Pairs /\ v \in 1 .. Len(Records[p]) /\ v # 0 /\ v \in Nat
         /\ Expires(Rec(p, v)) /\ replaced[p][v] \in Nat \cup {Never}
<1>1. p \in Pairs /\ v \in 1 .. version[p] /\ version[p] \in 1 .. Len(Records[p])
      /\ Len(Records[p]) \in Nat /\ config \in Configs
  BY RegistryAssumption DEF TrustInv, TypeOK, Published
<1>2. v \in 1 .. Len(Records[p]) /\ v # 0 /\ v \in Nat
  BY <1>1
<1>3. replaced[p][v] \in Nat \cup {Never}
  BY <1>1, <1>2 DEF TrustInv, TypeOK
<1> QED BY <1>1, <1>2, <1>3, ExpiresFacts

LEMMA BlankFacts ==
  /\ NoEntry \in CacheEntries /\ NoEntry.version = 0
  /\ NoLook \in Looks /\ GoodLook(NoLook) /\ NoLook.pc = "idle"
  /\ NoJob \in Jobs /\ NoJob.kind = "none"
<1>1. <<Blank, Blank>> \in Asked /\ Blank \in AskedNetworks
  BY DEF Asked, AskedNetworks
<1>2. NoEntry \in CacheEntries /\ NoEntry.version = 0
  BY <1>1 DEF NoEntry, CacheEntries
<1>3. NoLook \in Looks /\ NoLook.pc = "idle"
  BY <1>1 DEF NoLook, Looks, Codes
<1>4. GoodLook(NoLook)
  BY <1>3 DEF GoodLook
<1>5. <<>> \in Seq(Grounds)
  OBVIOUS
<1>6. NoJob \in Jobs /\ NoJob.kind = "none"
  BY <1>5 DEF NoJob, Jobs
<1> QED BY <1>2, <1>3, <1>4, <1>6

\* The registry is left alone: what was good stays good.
LEMMA SameRegistry ==
  ASSUME UNCHANGED <<config, now, version, replaced>>
  PROVE  /\ CacheKeys' = CacheKeys
         /\ \A k, e : GoodEntry(k, e) => GoodEntry(k, e)'
         /\ \A l : GoodLook(l) => GoodLook(l)'
         /\ \A l, j : GoodJob(l, j) => GoodJob(l, j)'
<1>1. /\ CacheKeys' = CacheKeys /\ Dedi' = Dedi
      /\ \A p : CacheKey(p)' = CacheKey(p)
  BY DEF CacheKeys, CacheKey, Dedi
<1>2. /\ \A p, v : Published(p, v)' = Published(p, v)
      /\ \A p, v, t : Fresh(p, v, t)' = Fresh(p, v, t)
      /\ \A p, v, n : Member(p, v, n)' = Member(p, v, n)
      /\ \A p, v : HasKey(p, v)' = HasKey(p, v)
      /\ \A p : Missing(p)' = Missing(p)
      /\ \A rec, t : CachedUntil(rec, t)' = CachedUntil(rec, t)
      /\ \A p, q : Alike(p, q)' = Alike(p, q)
  BY <1>1 DEF Published, Fresh, Member, HasKey, Missing, CachedUntil, ValidateMemberships,
     ValidateContextNetworkID, Alike
<1>3. ASSUME NEW k, NEW e, GoodEntry(k, e) PROVE GoodEntry(k, e)'
  BY <1>1, <1>2, <1>3 DEF GoodEntry
<1>4. ASSUME NEW l, GoodLook(l) PROVE GoodLook(l)'
  BY <1>1, <1>2, <1>4 DEF GoodLook
<1>5. ASSUME NEW l, NEW j, GoodJob(l, j) PROVE GoodJob(l, j)'
  <2>1. \A m, n, u : GoodUse(m, n, u)' = GoodUse(m, n, u)
    BY <1>1, <1>2 DEF GoodUse
  <2>2. j.kind = "request" => GoodRequest(l, j)'
    BY <1>2, <1>5, <2>1 DEF GoodJob, GoodRequest
  <2>3. j.kind = "artifact" => GoodArtifact(l, j)'
    BY <1>1, <1>2, <1>5 DEF GoodJob, GoodArtifact
  <2> QED BY <1>5, <2>2, <2>3 DEF GoodJob
<1> QED BY <1>1, <1>3, <1>4, <1>5

\* One looker goes on, from good to good.
LEMMA LookerStep ==
  ASSUME TrustInv, NEW r \in Lookers, NEW l \in Looks, NEW j \in Jobs,
         look' = [look EXCEPT ![r] = l], job' = [job EXCEPT ![r] = j],
         GoodLook(l), GoodJob(l, j),
         UNCHANGED <<config, now, version, replaced>>,
         cache' \in [CacheKeys -> CacheEntries],
         \A k \in CacheKeys : GoodEntry(k, cache'[k])
  PROVE  TrustInv'
<1>1. CacheKeys' = CacheKeys
  BY SameRegistry
<1>2. TypeOK'
  BY <1>1 DEF TrustInv, TypeOK
<1>3. CurrentUnreplaced'
  BY DEF TrustInv, CurrentUnreplaced
<1>4. \A k \in CacheKeys' : GoodEntry(k, cache[k])'
  BY <1>1, SameRegistry
<1>5. ASSUME NEW s \in Lookers
      PROVE  GoodLook(look[s])' /\ GoodJob(look[s], job[s])'
  <2>1. /\ look'[s] = IF s = r THEN l ELSE look[s]
        /\ job'[s] = IF s = r THEN j ELSE job[s]
    BY DEF TrustInv, TypeOK
  <2>2. GoodLook(look'[s]) /\ GoodJob(look'[s], job'[s])
    BY <2>1 DEF TrustInv
  <2> QED BY <2>2, SameRegistry
<1> QED BY <1>2, <1>3, <1>4, <1>5 DEF TrustInv

-----------------------------------------------------------------------------
(* The registry service and time *)

LEMMA RecordChangesInv ==
  ASSUME TrustInv, NEW p \in Pairs, RecordChanges(p), UNCHANGED job
  PROVE  TrustInv'
<1> DEFINE w == version[p]
<1>1. /\ w \in 1 .. Len(Records[p]) /\ w < Len(Records[p]) /\ Len(Records[p]) \in Nat
      /\ version' = [version EXCEPT ![p] = w + 1]
      /\ replaced' = [replaced EXCEPT ![p][w] = now]
      /\ UNCHANGED <<config, now, cache, look, job>> /\ now \in Nat /\ config \in Configs
  BY RegistryAssumption DEF TrustInv, TypeOK, RecordChanges
<1>2. /\ version' \in [Pairs -> Nat] /\ replaced' = [q \in Pairs |-> replaced'[q]]
      /\ version'[p] = w + 1 /\ \A q \in Pairs : q # p => version'[q] = version[q]
  <2>1. version \in [Pairs -> Nat] /\ replaced = [q \in Pairs |-> replaced[q]] /\ w + 1 \in Nat
    BY <1>1 DEF TrustInv, TypeOK
  <2>2. version' \in [Pairs -> Nat] /\ version'[p] = w + 1
        /\ \A q \in Pairs : q # p => version'[q] = version[q]
    <3> HIDE DEF w
    <3> QED BY <1>1, <2>1
  <2>3. replaced' = [q \in Pairs |-> replaced'[q]]
    <3>1. replaced' = [replaced EXCEPT ![p] = [replaced[p] EXCEPT ![w] = now]]
      BY <1>1, <2>1
    <3> HIDE DEF w
    <3> QED BY <2>1, <3>1
  <2> QED BY <2>2, <2>3
<1>3. /\ replaced'[p] = [replaced[p] EXCEPT ![w] = now]
      /\ \A q \in Pairs : q # p => replaced'[q] = replaced[q]
  BY <1>1 DEF TrustInv, TypeOK
<1>4. ASSUME NEW q \in Pairs
      PROVE  /\ version'[q] \in 1 .. Len(Records[q])
             /\ replaced'[q] \in [1 .. Len(Records[q]) -> Nat \cup {Never}]
  <2>1. /\ version[q] \in 1 .. Len(Records[q])
        /\ replaced[q] \in [1 .. Len(Records[q]) -> Nat \cup {Never}]
    BY DEF TrustInv, TypeOK
  <2>2. CASE q = p
    BY <1>1, <1>2, <1>3, <2>1, <2>2
  <2> QED BY <1>2, <1>3, <2>1, <2>2
<1>5. CacheKeys' = CacheKeys /\ Dedi' = Dedi /\ \A q : CacheKey(q)' = CacheKey(q)
  BY <1>1 DEF CacheKeys, CacheKey, Dedi
<1>6. TypeOK'
  BY <1>1, <1>2, <1>4, <1>5 DEF TrustInv, TypeOK
<1>7. ASSUME NEW q \in Pairs, NEW v \in 1 .. Len(Records[q])
      PROVE  /\ replaced'[q][v] = IF q = p /\ v = w THEN now ELSE replaced[q][v]
             /\ version[q] <= version'[q] /\ version[q] \in Nat /\ version'[q] \in Nat
  <2>1. version[q] \in Nat /\ replaced[q] \in [1 .. Len(Records[q]) -> Nat \cup {Never}]
    BY DEF TrustInv, TypeOK
  <2> QED BY <1>1, <1>2, <1>3, <2>1
<1>8. CurrentUnreplaced'
  <2> SUFFICES ASSUME NEW q \in Pairs, NEW v \in version'[q] .. Len(Records[q])
               PROVE  replaced'[q][v] = Never
    BY DEF CurrentUnreplaced
  <2>1. Len(Records[q]) \in Nat /\ version'[q] \in 1 .. Len(Records[q])
    BY <1>4, RegistryAssumption
  <2>2. v \in 1 .. Len(Records[q])
    BY <2>1
  <2>3. version[q] <= version'[q] /\ version[q] \in Nat
    BY <1>7, <2>2
  <2>4. v \in version[q] .. Len(Records[q])
    BY <2>1, <2>2, <2>3
  <2>5. replaced[q][v] = Never
    BY <2>4 DEF TrustInv, CurrentUnreplaced
  <2>6. ~(q = p /\ v = w)
    BY <1>1, <1>2, <2>1, <2>2
  <2> QED BY <1>7, <2>2, <2>5, <2>6
<1>9. /\ \A q, v : Published(q, v) => Published(q, v)'
      /\ \A q : Missing(q) => Missing(q)'
      /\ \A q, v, n : Member(q, v, n)' = Member(q, v, n)
      /\ \A q, v : HasKey(q, v)' = HasKey(q, v)
      /\ \A rec, t : CachedUntil(rec, t)' = CachedUntil(rec, t)
      /\ \A q, u : Alike(q, u)' = Alike(q, u)
  <2>1. \A q \in Pairs : version[q] \in Nat /\ version'[q] \in Nat /\ version[q] <= version'[q]
    <3> TAKE q \in Pairs
    <3>1. Len(Records[q]) \in Nat \ {0}
      BY RegistryAssumption
    <3>2. 1 \in 1 .. Len(Records[q])
      BY <3>1
    <3> QED BY <1>7, <3>2
  <2>2. /\ \A q, v : Published(q, v) => Published(q, v)'
        /\ \A q : Missing(q) => Missing(q)'
    BY <2>1 DEF Published, Missing
  <2> QED BY <1>1, <1>5, <2>2 DEF Member, HasKey, CachedUntil, ValidateMemberships,
          ValidateContextNetworkID, Alike
<1>10. ASSUME NEW q, NEW v, NEW t \in Nat, Published(q, v), Fresh(q, v, t),
              t <= CachedUntil(Rec(q, v), now)
       PROVE  Fresh(q, v, t)'
  <2>1. q \in Pairs /\ v \in 1 .. Len(Records[q])
    BY <1>10, PublishedFacts
  <2> QED BY <1>1, <1>7, <1>9, <1>10, <2>1 DEF Fresh
<1>11. ASSUME NEW k \in CacheKeys PROVE GoodEntry(k, cache[k])'
  <2>1. GoodEntry(k, cache[k]) /\ cache[k].until \in Nat
    BY DEF TrustInv, TypeOK, CacheEntries
  <2> QED BY <1>1, <1>5, <1>9, <1>10, <2>1 DEF GoodEntry
<1>12. ASSUME NEW r \in Lookers PROVE GoodLook(look[r])'
  <2> DEFINE l == look[r]
  <2>1. GoodLook(l)
    BY DEF TrustInv
  <2>2. l.pc = "store" => replaced'[l.pair][l.version] \in {Never, now}
    <3>1. l.pc = "store" => l.pair \in Pairs /\ l.version \in 1 .. Len(Records[l.pair])
      BY <2>1, PublishedFacts DEF GoodLook
    <3> QED BY <1>7, <2>1, <3>1 DEF GoodLook
  <2>3. l.pc = "done" /\ l.version # 0 /\ l.code = "ok" => Fresh(l.pair, l.version, now)'
    <3>1. l.pc = "done" /\ l.version # 0 => now <= CachedUntil(Rec(l.pair, l.version), now)
      BY <1>1, <2>1, PublishedFacts DEF GoodLook, Expires
    <3> QED BY <1>1, <1>10, <2>1, <3>1 DEF GoodLook
  <2>4. l' = l
    BY <1>1
  <2> HIDE DEF l
  <2>5. GoodLook(l)'
    BY <1>1, <1>5, <1>9, <2>1, <2>2, <2>3, <2>4 DEF GoodLook
  <2> QED BY <2>5 DEF l
<1>13. ASSUME NEW r \in Lookers PROVE GoodJob(look[r], job[r])'
  <2> DEFINE l == look[r]
             j == job[r]
  <2>1. GoodJob(l, j) /\ l' = l /\ j' = j
    BY <1>1 DEF TrustInv
  <2>2. ASSUME NEW m, NEW n, NEW u \in Grounds, GoodUse(m, n, u)
        PROVE  GoodUse(m, n, u)'
    <3>1. u.at \in Nat /\ u.at <= CachedUntil(Rec(u.pair, u.version), now)
      <4>1. u.at \in Nat /\ u.at <= now /\ Expires(Rec(u.pair, u.version))
        BY <2>2, PublishedFacts DEF GoodUse, Grounds
      <4> QED BY <1>1, <4>1 DEF Expires
    <3>2. Fresh(u.pair, u.version, u.at)'
      BY <1>1, <1>10, <2>2, <3>1 DEF GoodUse
    <3> QED BY <1>1, <1>9, <2>2, <3>2 DEF GoodUse
  <2>3. \A n \in 1 .. Len(j.used) : j.used[n] \in Grounds
    <3>1. j.used \in Seq(Grounds)
      BY DEF TrustInv, TypeOK, Jobs
    <3> QED BY <3>1
  <2> HIDE DEF l, j
  <2>4. j.kind = "request" => GoodRequest(l, j)'
    BY <1>9, <2>1, <2>2, <2>3 DEF GoodJob, GoodRequest
  <2>5. j.kind = "artifact" => GoodArtifact(l, j)'
    BY <1>5, <1>9, <2>1 DEF GoodJob, GoodArtifact
  <2>6. GoodJob(l, j)'
    BY <2>1, <2>4, <2>5 DEF GoodJob
  <2> QED BY <2>6 DEF l, j
<1> QED BY <1>5, <1>6, <1>8, <1>11, <1>12, <1>13 DEF TrustInv

LEMMA TickInv ==
  ASSUME TrustInv, Tick, UNCHANGED job
  PROVE  TrustInv'
<1>1. /\ UNCHANGED <<config, version, replaced, cache, look, job>> /\ now' = now + 1
      /\ now \in Nat /\ \A r \in Lookers : look[r].pc \notin {"store", "done"}
  BY DEF TrustInv, TypeOK, Tick
<1>2. CacheKeys' = CacheKeys /\ Dedi' = Dedi /\ \A q : CacheKey(q)' = CacheKey(q)
  BY <1>1 DEF CacheKeys, CacheKey, Dedi
<1>3. TypeOK' /\ CurrentUnreplaced'
  BY <1>1, <1>2 DEF TrustInv, TypeOK, CurrentUnreplaced
<1>4. /\ \A q, v : Published(q, v)' = Published(q, v)
      /\ \A q : Missing(q)' = Missing(q)
      /\ \A q, v, n : Member(q, v, n)' = Member(q, v, n)
      /\ \A q, v : HasKey(q, v)' = HasKey(q, v)
      /\ \A q, v, t : Fresh(q, v, t)' = Fresh(q, v, t)
      /\ \A rec, t : CachedUntil(rec, t)' = CachedUntil(rec, t)
      /\ \A q, u : Alike(q, u)' = Alike(q, u)
  BY <1>1, <1>2 DEF Published, Fresh, Member, HasKey, Missing, CachedUntil,
     ValidateMemberships, ValidateContextNetworkID, Alike
<1>5. ASSUME NEW k \in CacheKeys PROVE GoodEntry(k, cache[k])'
  <2> DEFINE e == cache[k]
  <2>1. GoodEntry(k, e) /\ e.until \in Nat /\ e' = e
    BY <1>1 DEF TrustInv, TypeOK, CacheEntries
  <2>2. e.version # 0 => e.until <= CachedUntil(Rec(e.pair, e.version), now')
    <3>1. e.version # 0 => Expires(Rec(e.pair, e.version))
      BY <2>1, PublishedFacts DEF GoodEntry
    <3>2. now + 1 \in Nat /\ now <= now + 1
      BY <1>1
    <3> QED BY <1>1, <2>1, <3>1, <3>2 DEF GoodEntry, Expires
  <2> HIDE DEF e
  <2>3. GoodEntry(k, e)'
    BY <1>2, <1>4, <2>1, <2>2 DEF GoodEntry
  <2> QED BY <2>3 DEF e
<1>6. \A r \in Lookers : GoodLook(look[r])'
  BY <1>1 DEF GoodLook
<1>7. ASSUME NEW r \in Lookers PROVE GoodJob(look[r], job[r])'
  <2> DEFINE l == look[r]
             j == job[r]
  <2>1. GoodJob(l, j) /\ l' = l /\ j' = j
    BY <1>1 DEF TrustInv
  <2>2. ASSUME NEW m, NEW n, NEW u \in Grounds, GoodUse(m, n, u)
        PROVE  GoodUse(m, n, u)'
    <3>1. u.at <= now'
      BY <1>1, <2>2 DEF GoodUse, Grounds
    <3> QED BY <1>4, <2>2, <3>1 DEF GoodUse
  <2>3. \A n \in 1 .. Len(j.used) : j.used[n] \in Grounds
    <3>1. j.used \in Seq(Grounds)
      BY DEF TrustInv, TypeOK, Jobs
    <3> QED BY <3>1
  <2> HIDE DEF l, j
  <2>4. j.kind = "request" => GoodRequest(l, j)'
    BY <1>4, <2>1, <2>2, <2>3 DEF GoodJob, GoodRequest
  <2>5. j.kind = "artifact" => GoodArtifact(l, j)'
    BY <1>2, <1>4, <2>1 DEF GoodJob, GoodArtifact
  <2>6. GoodJob(l, j)'
    BY <2>1, <2>4, <2>5 DEF GoodJob
  <2> QED BY <2>6 DEF l, j
<1> QED BY <1>2, <1>3, <1>5, <1>6, <1>7 DEF TrustInv

-----------------------------------------------------------------------------
(* Lookup *)

UnderWay == {"cache", "http", "store"}

LEMMA LookerFacts ==
  ASSUME TrustInv, NEW r \in Lookers
  PROVE  /\ look[r] \in Looks /\ job[r] \in Jobs
         /\ GoodLook(look[r]) /\ GoodJob(look[r], job[r])
         /\ cache \in [CacheKeys -> CacheEntries]
         /\ \A k \in CacheKeys : GoodEntry(k, cache[k])
  BY DEF TrustInv, TypeOK

\* A lookup goes on for the same pair and network, its caller waiting.
LEMMA LookStep ==
  ASSUME TrustInv, NEW r \in Lookers, NEW l \in Looks,
         look[r].pc \in UnderWay, l.pc \in {"http", "store", "done"},
         l.pair = look[r].pair \/ (l.pc = "done" /\ Alike(look[r].pair, l.pair)),
         l.network = look[r].network, GoodLook(l),
         look' = [look EXCEPT ![r] = l],
         UNCHANGED <<config, now, version, replaced, job>>,
         cache' \in [CacheKeys -> CacheEntries],
         \A k \in CacheKeys : GoodEntry(k, cache'[k])
  PROVE  TrustInv'
<1>1. GoodJob(l, job[r])
  BY LookerFacts DEF GoodJob, GoodRequest, GoodArtifact, UnderWay, Alike
<1>2. job' = [job EXCEPT ![r] = job[r]]
  BY DEF TrustInv, TypeOK
<1> QED BY <1>1, <1>2, LookerFacts, LookerStep

\* What an answer must satisfy.
GoodAnswer(p, network, code, v) ==
  /\ v # 0 => /\ Published(p, v)
              /\ code = "ok" => /\ Fresh(p, v, now)
                                /\ HasKey(p, v) /\ Member(p, v, network)
  /\ v = 0 => /\ code = "ok" => ~Dedi /\ Missing(p)
              /\ code \in Unauthorized => Missing(p) \/ Blank \in {p[1], p[2]}

LEMMA AnswerStep ==
  ASSUME TrustInv, NEW r \in Lookers, NEW code \in Codes, NEW v \in Nat,
         NEW p \in Asked, Alike(look[r].pair, p),
         look[r].pc \in UnderWay, Answer(r, code, p, v),
         GoodAnswer(p, look[r].network, code, v),
         UNCHANGED <<config, now, version, replaced, job>>,
         cache' \in [CacheKeys -> CacheEntries],
         \A k \in CacheKeys : GoodEntry(k, cache'[k])
  PROVE  TrustInv'
<1> DEFINE l == [look[r] EXCEPT !.pc = "done", !.code = code, !.pair = p, !.version = v]
<1>1. look[r] \in Looks
  BY LookerFacts
<1>2. look' = [look EXCEPT ![r] = l]
  BY DEF Answer, TrustInv, TypeOK
<1>3. /\ l \in Looks /\ l.pc = "done" /\ l.code = code /\ l.version = v
      /\ l.pair = p /\ l.network = look[r].network
  BY <1>1 DEF Looks
<1> HIDE DEF l
<1>4. GoodLook(l)
  BY <1>3 DEF GoodLook, GoodAnswer
<1> QED BY <1>2, <1>3, <1>4, LookStep

LEMMA OwnPair ==
  ASSUME TrustInv, NEW r \in Lookers
  PROVE  look[r].pair \in Asked /\ Alike(look[r].pair, look[r].pair)
  BY LookerFacts DEF Looks, Alike

LEMMA RefuseIdsInv ==
  ASSUME TrustInv, NEW r \in Lookers, RefuseIds(r), UNCHANGED job
  PROVE  TrustInv'
<1>1. /\ look[r].pc \in UnderWay /\ Blank \in {look[r].pair[1], look[r].pair[2]}
      /\ Answer(r, "AUT_SIGNATURE_INVALID", look[r].pair, 0)
      /\ UNCHANGED <<config, now, version, replaced, cache>>
  BY DEF RefuseIds, UnderWay
<1>2. "AUT_SIGNATURE_INVALID" \in Codes
  BY DEF Codes, Unauthorized
<1>3. GoodAnswer(look[r].pair, look[r].network, "AUT_SIGNATURE_INVALID", 0)
  BY <1>1 DEF GoodAnswer
<1> QED BY <1>1, <1>2, <1>3, LookerFacts, OwnPair, AnswerStep

LEMMA CacheHitInv ==
  ASSUME TrustInv, NEW r \in Lookers, CacheHit(r), UNCHANGED job
  PROVE  TrustInv'
<1> DEFINE p == look[r].pair
           e == cache[CacheKey(p)]
<1>1. /\ look[r].pc \in UnderWay /\ CacheKey(p) \in DOMAIN cache
      /\ e.version # 0 /\ now < e.until
      /\ UNCHANGED <<config, now, version, replaced, cache>>
  BY DEF CacheHit, Cached, UnderWay
<1>2. PICK code \in {"AUT_NETWORK_NOT_ALLOWED", "ok"} :
        /\ Answer(r, code, e.pair, e.version)
        /\ code = "ok" => Member(e.pair, e.version, look[r].network)
  BY DEF CacheHit, Member
<1>3. CacheKey(p) \in CacheKeys
  BY <1>1, LookerFacts
<1>4. e \in CacheEntries /\ GoodEntry(CacheKey(p), e)
  BY <1>3, LookerFacts
<1>5. e.version \in Nat /\ e.until \in Nat
  BY <1>4 DEF CacheEntries
<1> HIDE DEF e
<1>6. Published(e.pair, e.version) /\ CacheKey(e.pair) = CacheKey(p)
  BY <1>1, <1>4 DEF GoodEntry
<1>7. e.pair \in Asked /\ Alike(p, e.pair)
  <2>1. e.pair \in Asked /\ p \in Asked
    BY <1>6, OwnPair DEF Published, Asked
  <2> HIDE DEF p
  <2> QED BY <1>6, <2>1, CacheKeyAlike
<1>8. Fresh(e.pair, e.version, now)
  <2>1. /\ Expires(Rec(e.pair, e.version)) /\ now \in Nat
        /\ replaced[e.pair][e.version] \in Nat \cup {Never}
    BY <1>6, PublishedFacts DEF TrustInv, TypeOK
  <2>2. Fresh(e.pair, e.version, e.until)
    BY <1>1, <1>4 DEF GoodEntry
  <2>3. replaced[e.pair][e.version] # Never
          => CachedUntil(Rec(e.pair, e.version), replaced[e.pair][e.version]) \in Nat
    BY <2>1 DEF Expires
  <2> QED BY <1>1, <1>5, <2>1, <2>2, <2>3 DEF Fresh
<1>9. GoodAnswer(e.pair, look[r].network, code, e.version)
  BY <1>1, <1>2, <1>4, <1>6, <1>8 DEF GoodAnswer, GoodEntry
<1>10. code \in Codes
  BY DEF Codes, Unauthorized
<1> QED BY <1>1, <1>2, <1>5, <1>7, <1>9, <1>10, LookerFacts, OwnPair, AnswerStep

LEMMA CacheMissInv ==
  ASSUME TrustInv, NEW r \in Lookers, CacheMiss(r), UNCHANGED job
  PROVE  TrustInv'
<1> DEFINE l == [look[r] EXCEPT !.pc = "http"]
<1>1. /\ look' = [look EXCEPT ![r] = l] /\ look[r].pc \in UnderWay
      /\ UNCHANGED <<config, now, version, replaced, cache>>
  BY DEF CacheMiss, TrustInv, TypeOK, UnderWay
<1>2. /\ l \in Looks /\ l.pc = "http" /\ l.pair = look[r].pair
      /\ l.network = look[r].network
  BY LookerFacts DEF Looks
<1> HIDE DEF l
<1>3. GoodLook(l)
  BY <1>2 DEF GoodLook
<1> QED BY <1>1, <1>2, <1>3, LookerFacts, LookStep

\* No failure of the call is the sender's.
LEMMA FaultCodes ==
  ASSUME NEW f \in Faults
  PROVE  ClassifyFault(f) \in Codes \ (Unauthorized \cup {"ok"})
  BY DEF ClassifyFault, Codes, Unauthorized, Faults

LEMMA HttpFailsInv ==
  ASSUME TrustInv, NEW r \in Lookers, HttpFails(r), UNCHANGED job
  PROVE  TrustInv'
<1>1. PICK f \in Faults : Answer(r, ClassifyFault(f), look[r].pair, 0)
  BY DEF HttpFails
<1>2. /\ look[r].pc \in UnderWay
      /\ UNCHANGED <<config, now, version, replaced, cache>>
  BY DEF HttpFails, UnderWay
<1>3. ClassifyFault(f) \in Codes /\ GoodAnswer(look[r].pair, look[r].network, ClassifyFault(f), 0)
  BY FaultCodes DEF GoodAnswer
<1> QED BY <1>1, <1>2, <1>3, LookerFacts, OwnPair, AnswerStep

LEMMA HttpNotFoundInv ==
  ASSUME TrustInv, NEW r \in Lookers, HttpNotFound(r), UNCHANGED job
  PROVE  TrustInv'
<1> DEFINE p == look[r].pair
           code == IF Dedi THEN "AUT_SUBSCRIBER_NOT_FOUND" ELSE "ok"
<1>1. /\ look[r].pc \in UnderWay /\ Answer(r, code, p, 0)
      /\ p \in Pairs => ~Rec(p, version[p]).exists
      /\ UNCHANGED <<config, now, version, replaced, cache>>
  BY DEF HttpNotFound, UnderWay
<1>2. Missing(p)
  <2>1. p \in Pairs => version[p] \in 1 .. version[p]
    BY DEF TrustInv, TypeOK
  <2> QED BY <1>1, <2>1 DEF Missing
<1>3. code \in Codes /\ (code = "ok" => ~Dedi)
  BY DEF Codes, Unauthorized
<1> HIDE DEF code
<1>4. GoodAnswer(look[r].pair, look[r].network, code, 0)
  BY <1>2, <1>3 DEF GoodAnswer
<1> QED BY <1>1, <1>3, <1>4, LookerFacts, OwnPair, AnswerStep

LEMMA HttpOkInv ==
  ASSUME TrustInv, NEW r \in Lookers, HttpOk(r), UNCHANGED job
  PROVE  TrustInv'
<1> DEFINE p == look[r].pair
           v == version[p]
           rec == Rec(p, v)
           code == IF Dedi THEN RecordCode(rec, p[1], look[r].network) ELSE "ok"
<1>1. /\ look[r].pc \in UnderWay /\ p \in Pairs
      /\ UNCHANGED <<config, now, version, replaced, cache>>
      /\ IF code = "ok"
         THEN look' = [look EXCEPT ![r].pc = "store", ![r].version = v]
         ELSE Answer(r, code, p, v)
  BY DEF HttpOk, UnderWay
<1>2. v \in Nat /\ v # 0 /\ v \in 1 .. Len(Records[p]) /\ Published(p, v)
  <2>1. v \in 1 .. Len(Records[p]) /\ Len(Records[p]) \in Nat
    BY <1>1, RegistryAssumption DEF TrustInv, TypeOK
  <2>2. v \in Nat /\ v # 0 /\ v \in 1 .. v
    <3> HIDE DEF v
    <3> QED BY <2>1
  <2> QED BY <1>1, <2>1, <2>2 DEF Published
<1>3. replaced[p][v] = Never
  BY <1>1, <1>2 DEF TrustInv, CurrentUnreplaced
<1>4. code \in Codes /\ (code = "ok" => HasKey(p, v) /\ Member(p, v, look[r].network))
  BY DEF RecordCode, HasKey, Member, Codes, Unauthorized
<1> HIDE DEF code
<1>5. CASE code = "ok"
  <2> DEFINE l == [look[r] EXCEPT !.pc = "store", !.version = v]
  <2>1. look' = [look EXCEPT ![r] = l]
    BY <1>1, <1>5 DEF TrustInv, TypeOK
  <2>2. /\ l \in Looks /\ l.pc = "store" /\ l.pair = p /\ l.version = v
        /\ l.network = look[r].network
    BY <1>2, LookerFacts DEF Looks
  <2> HIDE DEF l
  <2>3. GoodLook(l)
    BY <1>2, <1>3, <1>4, <1>5, <2>2 DEF GoodLook
  <2> QED BY <1>1, <2>1, <2>2, <2>3, LookerFacts, LookStep
<1>6. CASE code # "ok"
  <2>1. GoodAnswer(look[r].pair, look[r].network, code, v)
    BY <1>2, <1>6 DEF GoodAnswer
  <2> QED BY <1>1, <1>2, <1>4, <1>6, <2>1, LookerFacts, OwnPair, AnswerStep
<1> QED BY <1>5, <1>6

LEMMA StoreRecordInv ==
  ASSUME TrustInv, NEW r \in Lookers, StoreRecord(r), UNCHANGED job
  PROVE  TrustInv'
<1> DEFINE p == look[r].pair
           v == look[r].version
           end == CachedUntil(Rec(p, v), now)
           e == [pair |-> p, version |-> v, until |-> end]
<1>1. /\ look[r].pc = "store" /\ look[r].pc \in UnderWay
      /\ cache' = [cache EXCEPT ![CacheKey(p)] = e] \/ cache' = cache
      /\ Answer(r, "ok", p, v)
      /\ UNCHANGED <<config, now, version, replaced>>
  BY DEF StoreRecord, UnderWay
<1>2. /\ Published(p, v) /\ v # 0 /\ replaced[p][v] \in {Never, now}
      /\ HasKey(p, v) /\ Member(p, v, look[r].network)
  BY <1>1, LookerFacts DEF GoodLook
<1>3. end \in Nat /\ now <= end /\ now \in Nat /\ v \in Nat /\ p \in Pairs
  BY <1>2, PublishedFacts DEF TrustInv, TypeOK, Expires
<1>4. e \in CacheEntries /\ CacheKey(p) \in CacheKeys
  <2>1. p \in Asked /\ CacheKey(p) \in CacheKeys
    BY <1>3 DEF Asked, CacheKeys
  <2> HIDE DEF p, v, end
  <2> QED BY <1>3, <2>1 DEF CacheEntries
<1>5. Fresh(p, v, now) /\ Fresh(p, v, end)
  BY <1>2, <1>3 DEF Fresh
<1>6. GoodEntry(CacheKey(p), e)
  BY <1>2, <1>3, <1>5 DEF GoodEntry
<1>7. cache' \in [CacheKeys -> CacheEntries]
  <2> HIDE DEF e
  <2> QED BY <1>1, <1>4, LookerFacts
<1>8. \A k \in CacheKeys : GoodEntry(k, cache'[k])
  <2> HIDE DEF e, p
  <2> QED BY <1>1, <1>4, <1>6, LookerFacts
<1>9. GoodAnswer(look[r].pair, look[r].network, "ok", v)
  BY <1>2, <1>5 DEF GoodAnswer
<1>10. "ok" \in Codes
  BY DEF Codes
<1> QED BY <1>1, <1>3, <1>7, <1>8, <1>9, <1>10, OwnPair, AnswerStep

-----------------------------------------------------------------------------
(* Requests and artifacts *)

\* The looker takes a new turn: lookup and job are replaced together.
LEMMA TurnStep ==
  ASSUME TrustInv, NEW r \in Lookers, NEW l \in Looks, NEW j \in Jobs,
         look' = [look EXCEPT ![r] = l], job' = [job EXCEPT ![r] = j],
         GoodLook(l), GoodJob(l, j),
         UNCHANGED <<config, now, version, replaced, cache>>
  PROVE  TrustInv'
  BY LookerFacts, LookerStep

LEMMA RefuseInv ==
  ASSUME TrustInv, NEW r \in Lookers, Refuse(r),
         UNCHANGED <<config, now, version, replaced, cache>>
  PROVE  TrustInv'
<1>1. GoodJob(NoLook, NoJob)
  BY BlankFacts DEF GoodJob
<1> QED BY <1>1, BlankFacts, TurnStep DEF Refuse

\* A lookup that begins.
Begun(p, n) == [NoLook EXCEPT !.pc = "cache", !.pair = p, !.network = n]

LEMMA BeginFacts ==
  ASSUME NEW p \in Asked, NEW n \in AskedNetworks
  PROVE  /\ Begun(p, n) \in Looks /\ GoodLook(Begun(p, n))
         /\ Begun(p, n).pc = "cache" /\ Begun(p, n).pair = p /\ Begun(p, n).network = n
<1>1. /\ Begun(p, n) \in Looks
      /\ Begun(p, n).pc = "cache" /\ Begun(p, n).pair = p /\ Begun(p, n).network = n
  BY BlankFacts DEF Begun, Looks
<1>2. GoodLook(Begun(p, n))
  BY <1>1 DEF GoodLook
<1> QED BY <1>1, <1>2

\* The next header is looked up, those before it having been believed.
LEMMA LookupNPKeysInv ==
  ASSUME TrustInv, NEW r \in Lookers, NEW j \in Jobs, LookupNPKeys(r, j),
         j.kind = "request", j.message \in Messages,
         j.i \in 1 .. Len(j.message.headers), Len(j.used) = j.i - 1,
         \A n \in 1 .. Len(j.used) : GoodUse(j.message, n, j.used[n]),
         UNCHANGED <<config, now, version, replaced, cache>>
  PROVE  TrustInv'
<1> DEFINE p == j.message.headers[j.i].pair
           l == Begun(p, j.message.network)
<1>1. CASE Refuse(r)
  BY <1>1, RefuseInv
<1>2. CASE job' = [job EXCEPT ![r] = j] /\ BeginLookup(r, p, j.message.network)
  <2>1. p \in Asked /\ j.message.network \in AskedNetworks
    BY DEF Asked, AskedNetworks
  <2>2. look' = [look EXCEPT ![r] = l]
    BY <1>2 DEF BeginLookup, Begun
  <2>3. /\ l \in Looks /\ GoodLook(l) /\ l.pc = "cache" /\ l.pair = p
        /\ l.network = j.message.network
    BY <2>1, BeginFacts
  <2> HIDE DEF l
  <2>4. GoodRequest(l, j)
    BY <2>3 DEF GoodRequest, Alike
  <2>5. GoodJob(l, j)
    BY <2>4 DEF GoodJob
  <2> QED BY <1>2, <2>2, <2>3, <2>5, TurnStep
<1> QED BY <1>1, <1>2 DEF LookupNPKeys

LEMMA ReceiveInv ==
  ASSUME TrustInv, NEW r \in Lookers, NEW m \in Messages, Receive(r, m)
  PROVE  TrustInv'
<1> DEFINE j == [NoJob EXCEPT !.kind = "request", !.message = m, !.i = 1]
<1>1. LookupNPKeys(r, j) /\ UNCHANGED <<config, now, version, replaced, cache>>
  BY DEF Receive
<1>2. /\ j \in Jobs /\ j.kind = "request" /\ j.message = m /\ j.i = 1 /\ j.used = <<>>
  <2>1. NoJob \in Jobs /\ NoJob.used = <<>>
    BY BlankFacts DEF NoJob
  <2> QED BY <2>1 DEF Jobs
<1>3. 1 \in 1 .. Len(m.headers)
  <2>1. Len(m.headers) \in Nat \ {0}
    BY TrustAssumption
  <2> QED BY <2>1
<1>4. Len(<<>>) = 0 /\ 1 .. 0 = {}
  OBVIOUS
<1> HIDE DEF j
<1> QED BY <1>1, <1>2, <1>3, <1>4, LookupNPKeysInv

LEMMA ValidateRefusesInv ==
  ASSUME TrustInv, NEW r \in Lookers, ValidateRefuses(r)
  PROVE  TrustInv'
  BY RefuseInv DEF ValidateRefuses

\* An answer that is not the end.
LEMMA AnsweredLook ==
  LET l == [NoLook EXCEPT !.pc = "answered"]
  IN l \in Looks /\ GoodLook(l) /\ l.pc = "answered"
<1> DEFINE l == [NoLook EXCEPT !.pc = "answered"]
<1>1. l \in Looks /\ l.pc = "answered"
  BY BlankFacts DEF Looks
<1> HIDE DEF l
<1>2. GoodLook(l)
  BY <1>1 DEF GoodLook
<1> QED BY <1>1, <1>2 DEF l

LEMMA AppendGround ==
  ASSUME NEW s \in Seq(Grounds), NEW g \in Grounds
  PROVE  /\ Append(s, g) \in Seq(Grounds) /\ Len(Append(s, g)) = Len(s) + 1
         /\ Len(s) \in Nat
         /\ \A n \in 1 .. Len(s) + 1 : Append(s, g)[n] = IF n = Len(s) + 1 THEN g ELSE s[n]
  OBVIOUS

LEMMA ValidateAcceptsInv ==
  ASSUME TrustInv, NEW r \in Lookers, ValidateAccepts(r)
  PROVE  TrustInv'
<1> DEFINE old == job[r]
           m == old.message
           h == m.headers[old.i]
           g == Ground(r)
           j == [old EXCEPT !.used = Append(old.used, g)]
<1>1. /\ look[r].pc = "done" /\ old.kind = "request" /\ KeyCode(r) = "ok" /\ Validates(r)
      /\ UNCHANGED <<config, now, version, replaced, cache>>
  BY DEF ValidateAccepts, Looked
<1>2. IF j.i < Len(j.message.headers)
      THEN LookupNPKeys(r, [j EXCEPT !.i = j.i + 1])
      ELSE /\ job' = [job EXCEPT ![r] = [j EXCEPT !.result = "ok"]]
           /\ look' = [look EXCEPT ![r] = [NoLook EXCEPT !.pc = "answered"]]
  <2>1. old \in Jobs
    BY LookerFacts
  <2> QED BY <2>1 DEF ValidateAccepts, Jobs
<1>3. /\ old \in Jobs /\ old.used \in Seq(Grounds) /\ look[r] \in Looks
      /\ m \in Messages /\ old.i \in 1 .. Len(m.headers) /\ Len(old.used) = old.i - 1
      /\ Alike(h.pair, look[r].pair) /\ look[r].network = m.network
      /\ \A n \in 1 .. Len(old.used) : GoodUse(m, n, old.used[n])
      /\ Len(m.headers) \in Nat
  BY <1>1, LookerFacts, TrustAssumption DEF GoodJob, GoodRequest, Jobs
<1>4. look[r].code = "ok" /\ look[r].version # 0
  BY <1>1 DEF KeyCode
<1>5. /\ Published(look[r].pair, look[r].version) /\ Fresh(look[r].pair, look[r].version, now)
      /\ Member(look[r].pair, look[r].version, look[r].network) /\ now \in Nat
  BY <1>1, <1>4, LookerFacts DEF GoodLook, TrustInv, TypeOK
<1>6. /\ g \in Grounds /\ g.pair = look[r].pair /\ g.version = look[r].version /\ g.at = now
  BY <1>3, <1>5 DEF Ground, Grounds, Looks
<1>7. h.created <= now + Skew /\ now <= h.expires /\ h.by = Rec(look[r].pair, look[r].version).key
  BY <1>1 DEF Validates, CheckTimestampWindow, Header
<1> HIDE DEF g
<1>8. GoodUse(m, old.i, g)
  <2>1. now <= now
    BY <1>5
  <2> QED BY <1>3, <1>5, <1>6, <1>7, <2>1 DEF GoodUse
<1>9. /\ Append(old.used, g) \in Seq(Grounds) /\ Len(Append(old.used, g)) = old.i
      /\ \A n \in 1 .. old.i : GoodUse(m, n, Append(old.used, g)[n])
  <2>1. /\ Append(old.used, g) \in Seq(Grounds)
        /\ Len(Append(old.used, g)) = Len(old.used) + 1 /\ Len(old.used) \in Nat
        /\ \A n \in 1 .. Len(old.used) + 1 :
             Append(old.used, g)[n] = IF n = Len(old.used) + 1 THEN g ELSE old.used[n]
    BY <1>3, <1>6, AppendGround
  <2>2. Len(old.used) + 1 = old.i /\ old.i \in Nat
    BY <1>3
  <2>3. ASSUME NEW n \in 1 .. old.i PROVE GoodUse(m, n, Append(old.used, g)[n])
    <3>1. CASE n = old.i
      BY <1>8, <2>1, <2>2, <3>1
    <3>2. CASE n # old.i
      <4>1. n \in 1 .. Len(old.used) /\ Append(old.used, g)[n] = old.used[n]
        BY <2>1, <2>2, <3>2
      <4> QED BY <1>3, <4>1
    <3> QED BY <3>1, <3>2
  <2> QED BY <2>1, <2>2, <2>3
<1>10. /\ j \in Jobs /\ j.kind = "request" /\ j.message = m /\ j.i = old.i
       /\ j.used = Append(old.used, g)
  BY <1>1, <1>3, <1>9 DEF Jobs
<1> HIDE DEF j, m, old
<1>11. CASE j.i < Len(m.headers)
  <2> DEFINE k == [j EXCEPT !.i = j.i + 1]
  <2>1. /\ k \in Jobs /\ k.kind = "request" /\ k.message = m /\ k.i = j.i + 1
        /\ k.used = j.used
    <3>1. j \in Jobs /\ j.i \in Nat
      BY <1>10 DEF Jobs
    <3>2. j.i + 1 \in Nat
      BY <3>1
    <3> QED BY <1>10, <3>1, <3>2 DEF Jobs
  <2>2. LookupNPKeys(r, k)
    BY <1>2, <1>10, <1>11
  <2>3. j.i \in Nat /\ j.i \in 1 .. Len(m.headers)
    BY <1>3, <1>10
  <2>4. k.i \in 1 .. Len(m.headers) /\ Len(k.used) = k.i - 1
    BY <1>3, <1>9, <1>10, <1>11, <2>1, <2>3
  <2>5. \A n \in 1 .. Len(k.used) : GoodUse(m, n, k.used[n])
    BY <1>9, <1>10, <2>1
  <2> HIDE DEF k
  <2> QED BY <1>1, <1>3, <2>1, <2>2, <2>4, <2>5, LookupNPKeysInv
<1>12. CASE ~(j.i < Len(m.headers))
  <2> DEFINE k == [j EXCEPT !.result = "ok"]
             l == [NoLook EXCEPT !.pc = "answered"]
  <2>1. /\ k \in Jobs /\ k.kind = "request" /\ k.message = m /\ k.i = j.i
        /\ k.used = j.used
    BY <1>10 DEF Jobs
  <2>2. job' = [job EXCEPT ![r] = k] /\ look' = [look EXCEPT ![r] = l]
    BY <1>2, <1>10, <1>12
  <2>3. l \in Looks /\ GoodLook(l) /\ l.pc = "answered"
    BY AnsweredLook
  <2> HIDE DEF k, l
  <2>4. j.i = Len(m.headers)
    BY <1>3, <1>10, <1>12
  <2>5. GoodRequest(l, k)
    BY <1>3, <1>9, <1>10, <2>1, <2>3, <2>4 DEF GoodRequest
  <2>6. GoodJob(l, k)
    BY <2>1, <2>5 DEF GoodJob
  <2> QED BY <1>1, <2>1, <2>2, <2>3, <2>6, TurnStep
<1> QED BY <1>11, <1>12

LEMMA ResolveKeyInv ==
  ASSUME TrustInv, NEW r \in Lookers, NEW p \in Artifacts, ResolveKey(r, p)
  PROVE  TrustInv'
<1>1. NoJob \in Jobs /\ NoJob.used = <<>>
  BY BlankFacts DEF NoJob
<1>2. UNCHANGED <<config, now, version, replaced, cache>>
  BY DEF ResolveKey
<1>3. CASE p[1] = Blank
  <2> DEFINE j == [NoJob EXCEPT !.kind = "artifact", !.result = "permanent"]
             l == [NoLook EXCEPT !.pc = "answered"]
  <2>1. job' = [job EXCEPT ![r] = j] /\ look' = [look EXCEPT ![r] = l]
    BY <1>3 DEF ResolveKey
  <2>2. j \in Jobs /\ j.kind = "artifact" /\ j.used = <<>>
    BY <1>1 DEF Jobs
  <2>3. l \in Looks /\ GoodLook(l)
    BY AnsweredLook
  <2> HIDE DEF j, l
  <2>4. GoodJob(l, j)
    BY <2>2 DEF GoodJob, GoodArtifact
  <2> QED BY <1>2, <2>1, <2>2, <2>3, <2>4, TurnStep
<1>4. CASE p[1] # Blank
  <2> DEFINE j == [NoJob EXCEPT !.kind = "artifact"]
             l == Begun(p, Blank)
  <2>1. job' = [job EXCEPT ![r] = j] /\ look' = [look EXCEPT ![r] = l]
    BY <1>4 DEF ResolveKey, BeginLookup, Begun
  <2>2. j \in Jobs /\ j.kind = "artifact"
    BY <1>1 DEF Jobs
  <2>3. p \in Asked /\ Blank \in AskedNetworks
    BY DEF Asked, AskedNetworks
  <2>4. l \in Looks /\ GoodLook(l) /\ l.pc = "cache"
    BY <2>3, BeginFacts
  <2> HIDE DEF j, l
  <2>5. GoodJob(l, j)
    BY <2>2, <2>4 DEF GoodJob, GoodArtifact
  <2> QED BY <1>2, <2>1, <2>2, <2>4, <2>5, TurnStep
<1> QED BY <1>3, <1>4

LEMMA KeyResolvedInv ==
  ASSUME TrustInv, NEW r \in Lookers, KeyResolved(r)
  PROVE  TrustInv'
<1> DEFINE g == Ground(r)
           res == Resolved(r)
           j == [job[r] EXCEPT !.result = res, !.used = <<g>>]
           l == [NoLook EXCEPT !.pc = "answered"]
<1>1. /\ look[r].pc = "done" /\ job[r].kind = "artifact"
      /\ job' = [job EXCEPT ![r] = j] /\ look' = [look EXCEPT ![r] = l]
      /\ UNCHANGED <<config, now, version, replaced, cache>>
  BY DEF KeyResolved, Looked, TrustInv, TypeOK
<1>2. g \in Grounds /\ g.pair = look[r].pair /\ g.version = look[r].version
  BY LookerFacts DEF Ground, Grounds, Looks, TrustInv, TypeOK
<1>3. res \in {"ok", "permanent", "transient"}
  BY DEF Resolved
<1>4. l \in Looks /\ GoodLook(l) /\ l.pc = "answered"
  BY AnsweredLook
<1>5. res = "permanent" =>
        LET rec == Rec(g.pair, g.version)
        IN IF g.version = 0 THEN ~Dedi /\ Missing(g.pair)
           ELSE \/ ~Dedi /\ (rec.status = "unusable" \/ rec.key = "")
                \/ rec.key # "" /\ ~rec.ed25519
  <2> DEFINE rec == Rec(g.pair, g.version)
  <2> SUFFICES ASSUME res = "permanent"
               PROVE  IF g.version = 0 THEN ~Dedi /\ Missing(g.pair)
                      ELSE \/ ~Dedi /\ (rec.status = "unusable" \/ rec.key = "")
                           \/ rec.key # "" /\ ~rec.ed25519
    OBVIOUS
  <2>1. look[r].code = "ok"
    BY DEF Resolved
  <2>2. look[r].version # 0 => \/ ~IsKeyStatusUsable(Rec(look[r].pair, look[r].version))
                               \/ Rec(look[r].pair, look[r].version).key = ""
                               \/ ~Rec(look[r].pair, look[r].version).ed25519
    BY DEF Resolved
  <2> HIDE DEF g, res
  <2> QED BY <1>1, <1>2, <2>1, <2>2, LookerFacts DEF GoodLook, HasKey, IsKeyStatusUsable
<1> HIDE DEF g, res, l
<1>6. <<g>> \in Seq(Grounds) /\ <<g>>[1] = g
  BY <1>2
<1>7. job[r] \in Jobs
  BY LookerFacts
<1>8. j \in Jobs /\ j.kind = "artifact" /\ j.used = <<g>> /\ j.result = res
  BY <1>1, <1>3, <1>6, <1>7 DEF Jobs
<1> HIDE DEF j
<1>9. GoodJob(l, j)
  BY <1>4, <1>5, <1>6, <1>8 DEF GoodJob, GoodArtifact
<1> QED BY <1>1, <1>4, <1>8, <1>9, TurnStep

LEMMA RetireInv ==
  ASSUME TrustInv, NEW r \in Lookers, Retire(r)
  PROVE  TrustInv'
  BY RefuseInv DEF Retire, Refuse

-----------------------------------------------------------------------------
(* Theorems *)

LEMMA TrustInit == Init => TrustInv
<1> SUFFICES ASSUME Init PROVE TrustInv
  OBVIOUS
<1> USE DEF Init, RegistryInit
<1>1. \A p \in Pairs : Len(Records[p]) \in Nat /\ 1 \in 1 .. Len(Records[p])
  <2> TAKE p \in Pairs
  <2>1. Len(Records[p]) \in Nat \ {0}
    BY RegistryAssumption
  <2> QED BY <2>1
<1>2. \A p \in Pairs : replaced[p] = [v \in 1 .. Len(Records[p]) |-> Never]
  OBVIOUS
<1>3. TypeOK
  <2>1. version \in [Pairs -> Nat] /\ replaced = [p \in Pairs |-> replaced[p]]
    OBVIOUS
  <2>2. \A p \in Pairs : /\ version[p] \in 1 .. Len(Records[p])
                         /\ replaced[p] \in [1 .. Len(Records[p]) -> Nat \cup {Never}]
    BY <1>1, <1>2
  <2>3. cache \in [CacheKeys -> CacheEntries]
    BY BlankFacts DEF CacheKeys
  <2> QED BY <2>1, <2>2, <2>3, BlankFacts DEF TypeOK
<1>4. CurrentUnreplaced
  BY <1>1, <1>2 DEF CurrentUnreplaced
<1>5. \A k \in CacheKeys : GoodEntry(k, cache[k])
  BY BlankFacts DEF GoodEntry, CacheKeys
<1>6. \A r \in Lookers : GoodLook(look[r]) /\ GoodJob(look[r], job[r])
  BY BlankFacts DEF GoodJob
<1> QED BY <1>3, <1>4, <1>5, <1>6 DEF TrustInv

LEMMA TrustNext == TrustInv /\ [Next]_vars => TrustInv'
<1> SUFFICES ASSUME TrustInv, [Next]_vars PROVE TrustInv'
  OBVIOUS
<1>1. CASE UNCHANGED vars
  <2>1. UNCHANGED <<config, now, version, replaced, cache, look, job>>
    BY <1>1 DEF vars, registryVars
  <2>2. TypeOK' /\ CurrentUnreplaced'
    BY <2>1, SameRegistry DEF TrustInv, TypeOK, CurrentUnreplaced
  <2>3. \A k \in CacheKeys' : GoodEntry(k, cache[k])'
    BY <2>1, SameRegistry DEF TrustInv
  <2>4. \A r \in Lookers : GoodLook(look[r])' /\ GoodJob(look[r], job[r])'
    BY <2>1, SameRegistry DEF TrustInv
  <2> QED BY <2>2, <2>3, <2>4 DEF TrustInv
<1>2. CASE RegistryEnvironment /\ UNCHANGED job
  BY <1>2, RecordChangesInv, TickInv DEF RegistryEnvironment
<1>3. ASSUME NEW r \in Lookers, LookupStep(r), UNCHANGED job PROVE TrustInv'
  BY <1>3, RefuseIdsInv, CacheHitInv, CacheMissInv, HttpFailsInv, HttpNotFoundInv, HttpOkInv,
     StoreRecordInv DEF LookupStep
<1> QED BY <1>1, <1>2, <1>3, ReceiveInv, ResolveKeyInv, ValidateRefusesInv, ValidateAcceptsInv,
        KeyResolvedInv, RetireInv DEF Next

\* The invariant of the lookups and of those who ask for them.
THEOREM TrustInvariant == Spec => []TrustInv
  BY TrustInit, TrustNext, PTL DEF Spec

\* What a believed header rested on.
LEMMA AcceptedFacts ==
  ASSUME TrustInv, NEW r \in Lookers, Accepted(r)
  PROVE  /\ Len(job[r].used) = Len(job[r].message.headers)
         /\ DOMAIN job[r].used = 1 .. Len(job[r].used)
         /\ \A n \in 1 .. Len(job[r].used) : GoodUse(job[r].message, n, job[r].used[n])
<1>1. GoodRequest(look[r], job[r]) /\ look[r].pc = "answered"
  BY LookerFacts DEF Accepted, Answered, GoodJob
<1>2. job[r].used \in Seq(Grounds)
  BY LookerFacts DEF Jobs
<1> QED BY <1>1, <1>2 DEF GoodRequest

\* Every header of an accepted request was made with a key the registry published for
\* the ids it names, or without DeDi for ids that collide with them, no staler than
\* its record may be cached, within its time window.
THEOREM OnlyFreshKeys == Spec => []KeysAreFresh
<1>1. TrustInv => KeysAreFresh
  BY AcceptedFacts DEF KeysAreFresh, GoodUse, Fresh, Alike
<1> QED BY TrustInvariant, <1>1, PTL

\* With DeDi, the sender of an accepted request belongs to the networks it must, also
\* when its record came from the cache.
THEOREM OnlyMembers == Spec => []MembersOnly
<1>1. TrustInv => MembersOnly
  <2> SUFFICES ASSUME TrustInv, NEW r \in Lookers, Accepted(r), Dedi,
                      NEW n \in DOMAIN job[r].used
               PROVE  LET rec == Rec(job[r].used[n].pair, job[r].used[n].version)
                          w == job[r].message.network
                      IN rec.subscriber \notin Agnostic =>
                           /\ config.allowed # {} => rec.members \cap config.allowed # {}
                           /\ w # Blank => w \in rec.members
                           /\ w # Blank /\ config.allowed # {} => w \in config.allowed
    BY DEF MembersOnly
  <2>1. Member(job[r].used[n].pair, job[r].used[n].version, job[r].message.network)
    BY AcceptedFacts DEF GoodUse
  <2> QED BY <2>1 DEF Member, ValidateMemberships, ValidateContextNetworkID
<1> QED BY TrustInvariant, <1>1, PTL

\* Nobody is blamed for a failure of the registry.
THEOREM NobodyElseBlamed == Spec => []BlameIsRight
<1>1. TrustInv => BlameIsRight
  <2> SUFFICES ASSUME TrustInv, NEW r \in Lookers
               PROVE  /\ Looked(r, "request") /\ KeyCode(r) \in Unauthorized
                           => \/ look[r].version # 0 \/ Missing(look[r].pair)
                              \/ Blank \in {look[r].pair[1], look[r].pair[2]}
                      /\ Answered(r, "artifact") /\ job[r].result = "permanent"
                           /\ job[r].used # <<>>
                           => LET u == job[r].used[1]
                                  rec == Rec(u.pair, u.version)
                              IN IF u.version = 0 THEN ~Dedi /\ Missing(u.pair)
                                 ELSE \/ ~Dedi /\ (rec.status = "unusable" \/ rec.key = "")
                                      \/ rec.key # "" /\ ~rec.ed25519
    BY DEF BlameIsRight
  <2>1. ASSUME Looked(r, "request"), KeyCode(r) \in Unauthorized, look[r].version = 0
        PROVE  Missing(look[r].pair) \/ Blank \in {look[r].pair[1], look[r].pair[2]}
    <3>1. look[r].pc = "done" /\ GoodLook(look[r])
      BY <2>1, LookerFacts DEF Looked
    <3>2. look[r].code = "ok" \/ look[r].code \in Unauthorized
      BY <2>1 DEF KeyCode
    <3> QED BY <2>1, <3>1, <3>2 DEF GoodLook
  <2>2. Answered(r, "artifact") => GoodArtifact(look[r], job[r]) /\ look[r].pc = "answered"
    BY LookerFacts DEF Answered, GoodJob
  <2> QED BY <2>1, <2>2 DEF GoodArtifact
<1> QED BY TrustInvariant, <1>1, PTL
=============================================================================
