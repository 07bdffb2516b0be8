------------------------ MODULE PolicyCheckerProofs ------------------------
(***************************************************************************)
(* Proofs about ManifestLoader and PolicyChecker for every number of       *)
(* instances, callers, ids and URLs, every cacheTTL and every content of   *)
(* policy files and manifests.                                             *)
(***************************************************************************)
EXTENDS PolicyChecker, TLAPS

-----------------------------------------------------------------------------
(* The loader's invariant *)

CachedDocs == [doc : Docs, left : 0 .. TTL]

Calls ==
  [pc : {"idle", "key", "registry", "fetch", "verify", "keep", "store", "done", "failed"},
   key : Ids \cup {NoUrl}, url : Urls \cup {NoUrl}, bypass : BOOLEAN, doc : Docs]

LoaderTypeOK ==
  /\ config \in [Instances -> Configs]
  /\ refreshed \in [Instances -> SUBSET Ids]
  /\ uptime \in [Instances -> 0 .. MaxAge]
  /\ served \in 1 .. MaxRelease /\ signed \in 1 .. MaxRelease
  /\ cache \in [Keys -> CachedDocs]
  /\ call \in [Callers -> Calls]

\* What was verified was signed.
GoodDoc(d) == d.verified => d.release <= signed

\* How old a document can get under a key: a metadata key is filled from a fetch,
\* an id's key also from a metadata key.
Horizon(k) == IF k \in Urls THEN TTL ELSE 2 * TTL

GoodEntry(k, e) ==
  /\ GoodDoc(e.doc)
  /\ e.doc.release # 0 => e.left >= 1
  /\ e.doc.age + e.left <= Horizon(k)

\* Where a lookup is, its document is as old as its way there allows.
GoodCall(c, x) ==
  /\ GoodDoc(x.doc)
  /\ x.pc # "idle" => x.key \in Ids
  /\ x.pc \in {"fetch", "verify", "keep", "store"} => x.url \in Urls
  /\ x.pc = "key" => ~x.bypass
  /\ x.pc = "keep" => x.doc.age = 0
  /\ x.pc = "store" => x.doc.age < TTL
  /\ x.pc = "done" => x.doc.age < 2 * TTL
  /\ x.pc \in {"keep", "store", "done"} =>
       /\ config[Home[c]].skip \/ x.doc.verified
       /\ x.bypass => x.doc.age = 0

LoaderInv ==
  /\ LoaderTypeOK
  /\ \A k \in Keys : GoodEntry(k, cache[k])
  /\ \A c \in Callers : GoodCall(c, call[c])

-----------------------------------------------------------------------------
(* The enforcers' invariant *)

PolicySets ==
  UNION {[D -> [enabled : BOOLEAN, release : 0 .. MaxRelease]] : D \in SUBSET Entries}

EnforcerStates ==
  [pc : {"down", "off", "load", "manifest", "idle", "stopped", "exited"},
   serving : BOOLEAN, file : Files \cup {Unreadable}, todo : SUBSET Entries,
   got : PolicySets, policies : PolicySets]

EnforcerTypeOK ==
  /\ day \in Nat
  /\ content \in Contents
  /\ enf \in [Enforcers -> EnforcerStates]

\* What PoliciesSound says of policies, said of those being loaded as well.
SoundPolicies(i, ps) ==
  \A n \in DOMAIN ps :
    ps[n].release # 0 =>
      /\ content[ps[n].release].network = n
      /\ content[ps[n].release].from <= day
      /\ ~config[i].skip => ps[n].release <= signed

\* A load has taken from the file exactly what is not still to be done, and what the
\* file enables is enabled.
InStep(e) ==
  e.pc \in {"load", "manifest"} =>
    /\ e.file \in Files
    /\ e.todo \subseteq DOMAIN e.file
    /\ DOMAIN e.got = DOMAIN e.file \ e.todo
    /\ \A n \in DOMAIN e.got : e.file[n].enabled => e.got[n].enabled

\* The lookup x answers for a policy that its load is waiting for.
Awaited(e, x) ==
  e.pc = "manifest" => x.pc # "idle" /\ x.key \in e.todo

GoodEnforcer(i, e) ==
  SoundPolicies(i, e.got) /\ SoundPolicies(i, e.policies) /\ InStep(e)

EnforcerInv ==
  /\ EnforcerTypeOK
  /\ \A i \in Enforcers : GoodEnforcer(i, enf[i]) /\ Awaited(enf[i], call[i])

PolicyInv == LoaderInv /\ EnforcerInv

-----------------------------------------------------------------------------
(* The loader's steps *)

LEMMA TwoTTL == TTL \in Nat /\ TTL >= 1 /\ 2 * TTL \in Nat /\ TTL < 2 * TTL /\ MaxAge = 2 * TTL
  BY LoaderAssumption DEF MaxAge

LEMMA BlankRecords ==
  /\ NoDoc \in Docs /\ NoCall \in Calls /\ GoodDoc(NoDoc)
  /\ \A c \in Callers : GoodCall(c, NoCall)
<1>1. NoDoc \in Docs
  BY LoaderAssumption, TwoTTL DEF NoDoc, Docs
<1>2. NoCall \in Calls
  BY <1>1 DEF NoCall, Calls
<1>3. GoodDoc(NoDoc)
  BY DEF GoodDoc, NoDoc
<1>4. \A c \in Callers : GoodCall(c, NoCall)
  BY <1>3 DEF GoodCall, NoCall
<1> QED BY <1>1, <1>2, <1>3, <1>4

\* One call changes, for a good one.
LEMMA CallStep ==
  ASSUME LoaderInv, NEW c \in Callers, NEW x \in Calls, GoodCall(c, x),
         call' = [call EXCEPT ![c] = x],
         UNCHANGED <<config, uptime, served, signed, cache>>,
         refreshed' \in [Instances -> SUBSET Ids]
  PROVE  LoaderInv'
<1>1. LoaderTypeOK'
  BY DEF LoaderInv, LoaderTypeOK
<1>2. \A k \in Keys : GoodEntry(k, cache[k])'
  BY DEF LoaderInv, GoodEntry, GoodDoc
<1>3. ASSUME NEW d \in Callers PROVE GoodCall(d, call[d])'
  <2>1. call'[d] = IF d = c THEN x ELSE call[d]
    BY DEF LoaderInv, LoaderTypeOK
  <2>2. GoodCall(d, call'[d])
    BY <2>1 DEF LoaderInv
  <2> QED BY <2>2 DEF GoodCall, GoodDoc
<1> QED BY <1>1, <1>2, <1>3 DEF LoaderInv

LEMMA GetStep ==
  ASSUME LoaderInv, NEW c \in Callers, NEW k \in Ids, Get(c, k)
  PROVE  LoaderInv' /\ call' = [call EXCEPT ![c] = call'[c]]
         /\ call'[c].key = k /\ call'[c].pc # "idle" /\ UNCHANGED <<config, signed>>
<1> DEFINE x == [NoCall EXCEPT !.pc = IF Bypasses(Home[c], k) THEN "registry" ELSE "key",
                               !.key = k, !.bypass = Bypasses(Home[c], k)]
<1>1. call' = [call EXCEPT ![c] = x]
  BY DEF Get
<1>2. Bypasses(Home[c], k) \in BOOLEAN
  BY LoaderAssumption DEF Bypasses, LoaderInv, LoaderTypeOK, Configs
<1>3. x \in Calls /\ x.key = k /\ x.pc \in {"registry", "key"} /\ x.doc = NoDoc
      /\ (x.pc = "key" => ~x.bypass)
  BY <1>2, BlankRecords DEF Calls, NoCall
<1>4. GoodCall(c, x)
  BY <1>3, BlankRecords DEF GoodCall
<1>5. refreshed' \in [Instances -> SUBSET Ids]
  BY LoaderAssumption DEF Get, LoaderInv, LoaderTypeOK
<1>6. UNCHANGED <<config, uptime, served, signed, cache>>
  BY DEF Get
<1>7. LoaderInv'
  BY <1>1, <1>3, <1>4, <1>5, <1>6, CallStep
<1>8. call'[c] = x
  BY <1>1 DEF LoaderInv, LoaderTypeOK
<1> QED BY <1>1, <1>3, <1>6, <1>7, <1>8

\* What LoadFromCache returns is verified where the instance verifies.
LEMMA HitFacts ==
  ASSUME LoaderInv, NEW c \in Callers, NEW k \in Keys, LoadFromCache(Home[c], k)
  PROVE  /\ cache[k].doc \in Docs /\ GoodDoc(cache[k].doc)
         /\ config[Home[c]].skip \/ cache[k].doc.verified
         /\ cache[k].doc.age < Horizon(k)
<1>1. cache[k] \in CachedDocs /\ GoodEntry(k, cache[k])
  BY DEF LoaderInv, LoaderTypeOK
<1>2. cache[k].doc.age \in Nat /\ cache[k].left \in Nat
  BY <1>1, TwoTTL DEF CachedDocs, Docs
<1>3. cache[k].doc.age < Horizon(k)
  BY <1>1, <1>2, TwoTTL DEF GoodEntry, LoadFromCache, Horizon
<1> QED BY <1>1, <1>3 DEF GoodEntry, LoadFromCache, CachedDocs

LEMMA ReadKeyStep ==
  ASSUME LoaderInv, NEW c \in Callers, ReadKey(c)
  PROVE  LoaderInv'
<1> DEFINE k == call[c].key
<1>1. /\ call[c] \in Calls /\ GoodCall(c, call[c]) /\ call[c].pc = "key"
      /\ refreshed' \in [Instances -> SUBSET Ids]
      /\ UNCHANGED <<config, uptime, served, signed, cache>>
  BY DEF LoaderInv, LoaderTypeOK, ReadKey
<1>2. k \in Ids /\ k \in Keys /\ k \notin Urls /\ ~call[c].bypass
  BY <1>1, LoaderAssumption DEF GoodCall, Keys
<1>3. CASE /\ LoadFromCache(Home[c], k)
           /\ call' = [call EXCEPT ![c].pc = "done", ![c].doc = cache[k].doc]
  <2> DEFINE x == [call[c] EXCEPT !.pc = "done", !.doc = cache[k].doc]
  <2>1. call' = [call EXCEPT ![c] = x]
    BY <1>3 DEF LoaderInv, LoaderTypeOK
  <2>2. /\ cache[k].doc \in Docs /\ GoodDoc(cache[k].doc)
        /\ config[Home[c]].skip \/ cache[k].doc.verified
        /\ cache[k].doc.age < 2 * TTL
    BY <1>2, <1>3, HitFacts DEF Horizon
  <2>3. x \in Calls /\ x.pc = "done" /\ x.doc = cache[k].doc /\ x.key = k /\ ~x.bypass
    BY <1>1, <1>2, <2>2 DEF Calls
  <2>4. GoodCall(c, x)
    BY <1>2, <2>2, <2>3 DEF GoodCall
  <2> QED BY <1>1, <2>1, <2>3, <2>4, CallStep
<1>4. CASE call' = [call EXCEPT ![c].pc = "registry"]
  <2> DEFINE x == [call[c] EXCEPT !.pc = "registry"]
  <2>1. call' = [call EXCEPT ![c] = x]
    BY <1>4 DEF LoaderInv, LoaderTypeOK
  <2>2. x \in Calls /\ x.pc = "registry" /\ x.doc = call[c].doc /\ x.key = k
    BY <1>1 DEF Calls
  <2>3. GoodCall(c, x)
    BY <1>1, <1>2, <2>2 DEF GoodCall
  <2> QED BY <1>1, <2>1, <2>2, <2>3, CallStep
<1> QED BY <1>3, <1>4 DEF ReadKey

LEMMA LookupMetadataStep ==
  ASSUME LoaderInv, NEW c \in Callers, LookupMetadata(c)
  PROVE  LoaderInv'
<1>1. /\ call[c] \in Calls /\ GoodCall(c, call[c]) /\ call[c].pc = "registry"
      /\ call[c].key \in Ids
      /\ refreshed' \in [Instances -> SUBSET Ids]
      /\ UNCHANGED <<config, uptime, served, signed, cache>>
  BY DEF LoaderInv, LoaderTypeOK, LookupMetadata, GoodCall
<1>2. PICK u \in Urls : \/ ReadMetadataKey(c, u)
                        \/ call' = [call EXCEPT ![c].pc = "fetch", ![c].url = u]
  BY DEF LookupMetadata
<1>3. CASE ReadMetadataKey(c, u)
  <2> DEFINE x == [call[c] EXCEPT !.doc = cache[u].doc, !.url = u, !.pc = "store"]
  <2>1. call' = [call EXCEPT ![c] = x] /\ ~call[c].bypass
    BY <1>3 DEF LoaderInv, LoaderTypeOK, ReadMetadataKey
  <2>2. /\ cache[u].doc \in Docs /\ GoodDoc(cache[u].doc)
        /\ config[Home[c]].skip \/ cache[u].doc.verified
        /\ cache[u].doc.age < TTL
    BY <1>3, HitFacts DEF Horizon, ReadMetadataKey, Keys
  <2>3. /\ x \in Calls /\ x.pc = "store" /\ x.doc = cache[u].doc /\ x.key = call[c].key
        /\ x.url = u /\ ~x.bypass
    BY <1>1, <2>1, <2>2 DEF Calls
  <2>4. GoodCall(c, x)
    BY <1>1, <2>2, <2>3 DEF GoodCall
  <2> QED BY <1>1, <2>1, <2>3, <2>4, CallStep
<1>4. CASE call' = [call EXCEPT ![c].pc = "fetch", ![c].url = u]
  <2> DEFINE x == [call[c] EXCEPT !.pc = "fetch", !.url = u]
  <2>1. call' = [call EXCEPT ![c] = x]
    BY <1>4 DEF LoaderInv, LoaderTypeOK
  <2>2. x \in Calls /\ x.pc = "fetch" /\ x.doc = call[c].doc /\ x.key = call[c].key /\ x.url = u
    BY <1>1 DEF Calls
  <2>3. GoodCall(c, x)
    BY <1>1, <2>2 DEF GoodCall
  <2> QED BY <1>1, <2>1, <2>2, <2>3, CallStep
<1> QED BY <1>2, <1>3, <1>4

LEMMA FetchManifestStep ==
  ASSUME LoaderInv, NEW c \in Callers, FetchManifest(c)
  PROVE  LoaderInv'
<1>1. /\ call[c] \in Calls /\ GoodCall(c, call[c]) /\ call[c].pc = "fetch"
      /\ call[c].key \in Ids /\ call[c].url \in Urls
      /\ refreshed' \in [Instances -> SUBSET Ids]
      /\ UNCHANGED <<config, uptime, served, signed, cache>>
  BY DEF LoaderInv, LoaderTypeOK, FetchManifest, GoodCall
<1> DEFINE doc == [release |-> served, verified |-> FALSE, age |-> 0]
           x == [call[c] EXCEPT !.doc = doc,
                                !.pc = IF config[Home[c]].skip THEN "keep" ELSE "verify"]
<1>2. doc \in Docs
  BY TwoTTL, LoaderAssumption DEF LoaderInv, LoaderTypeOK, Docs
<1>3. call' = [call EXCEPT ![c] = x]
  BY DEF LoaderInv, LoaderTypeOK, FetchManifest
<1>4. /\ x \in Calls /\ x.doc = doc /\ x.key = call[c].key /\ x.url = call[c].url
      /\ x.pc \in {"keep", "verify"} /\ (x.pc = "keep" => config[Home[c]].skip)
  BY <1>1, <1>2 DEF Calls
<1>5. GoodCall(c, x)
  BY <1>1, <1>4 DEF GoodCall, GoodDoc
<1> QED BY <1>1, <1>3, <1>4, <1>5, CallStep

LEMMA VerifyManifestStep ==
  ASSUME LoaderInv, NEW c \in Callers, VerifyManifest(c)
  PROVE  LoaderInv'
<1>1. /\ call[c] \in Calls /\ GoodCall(c, call[c]) /\ call[c].pc = "verify"
      /\ call[c].key \in Ids /\ call[c].url \in Urls /\ call[c].doc.release = signed
      /\ refreshed' \in [Instances -> SUBSET Ids]
      /\ UNCHANGED <<config, uptime, served, signed, cache>>
  BY DEF LoaderInv, LoaderTypeOK, VerifyManifest, GoodCall
<1> DEFINE doc == [release |-> signed, verified |-> TRUE, age |-> 0]
           x == [call[c] EXCEPT !.doc = doc, !.pc = "keep"]
<1>2. doc \in Docs
  BY TwoTTL, LoaderAssumption DEF LoaderInv, LoaderTypeOK, Docs
<1>3. call' = [call EXCEPT ![c] = x]
  BY DEF LoaderInv, LoaderTypeOK, VerifyManifest
<1>4. /\ x \in Calls /\ x.doc = doc /\ x.key = call[c].key /\ x.url = call[c].url
      /\ x.pc = "keep"
  BY <1>1, <1>2 DEF Calls
<1>5. GoodCall(c, x)
  <2>1. doc.release <= signed
    BY LoaderAssumption DEF LoaderInv, LoaderTypeOK
  <2> QED BY <1>1, <1>4, <2>1 DEF GoodCall, GoodDoc
<1> QED BY <1>1, <1>3, <1>4, <1>5, CallStep

LEMMA LookupFailsStep ==
  ASSUME LoaderInv, NEW c \in Callers, LookupFails(c)
  PROVE  LoaderInv'
<1>1. /\ call[c] \in Calls /\ GoodCall(c, call[c]) /\ call[c].key \in Ids
      /\ refreshed' \in [Instances -> SUBSET Ids]
      /\ UNCHANGED <<config, uptime, served, signed, cache>>
  BY DEF LoaderInv, LoaderTypeOK, LookupFails, GoodCall
<1> DEFINE x == [call[c] EXCEPT !.pc = "failed", !.doc = NoDoc]
<1>2. call' = [call EXCEPT ![c] = x]
  BY DEF LoaderInv, LoaderTypeOK, LookupFails
<1>3. x \in Calls /\ x.doc = NoDoc /\ x.key = call[c].key /\ x.pc = "failed"
  BY <1>1, BlankRecords DEF Calls
<1>4. GoodCall(c, x)
  BY <1>1, <1>3, BlankRecords DEF GoodCall
<1> QED BY <1>1, <1>2, <1>3, <1>4, CallStep

\* store leaves a good entry under the key, or nothing happens.
LEMMA StoreStep ==
  ASSUME LoaderInv, NEW c \in Callers, NEW k \in Keys, StoreDoc(c, k),
         call[c].doc.age + TTL <= Horizon(k), UNCHANGED signed
  PROVE  cache' \in [Keys -> CachedDocs] /\ \A n \in Keys : GoodEntry(n, cache[n])'
<1> DEFINE e == [doc |-> call[c].doc, left |-> TTL]
<1>1. cache' = [cache EXCEPT ![k] = e] \/ cache' = cache
  BY DEF StoreDoc
<1>2. e \in CachedDocs
  BY TwoTTL DEF LoaderInv, LoaderTypeOK, CachedDocs, Calls
<1>3. GoodEntry(k, e)
  BY TwoTTL DEF LoaderInv, GoodCall, GoodEntry
<1>4. cache' \in [Keys -> CachedDocs]
  BY <1>1, <1>2 DEF LoaderInv, LoaderTypeOK
<1>5. ASSUME NEW n \in Keys PROVE GoodEntry(n, cache[n])'
  <2>1. cache'[n] = cache[n] \/ (n = k /\ cache'[n] = e)
    BY <1>1 DEF LoaderInv, LoaderTypeOK
  <2>2. GoodEntry(n, cache'[n])
    BY <1>3, <2>1 DEF LoaderInv
  <2> QED BY <2>2 DEF GoodEntry, GoodDoc, Horizon
<1> QED BY <1>4, <1>5

\* The call that stored goes on, with the same document.
LEMMA StoredStep ==
  ASSUME LoaderInv, NEW c \in Callers, NEW to \in {"store", "done"},
         call[c].pc \in {"keep", "store"}, call' = [call EXCEPT ![c].pc = to],
         UNCHANGED <<config, refreshed, uptime, served, signed>>,
         cache' \in [Keys -> CachedDocs], \A n \in Keys : GoodEntry(n, cache[n])'
  PROVE  LoaderInv'
<1> DEFINE x == [call[c] EXCEPT !.pc = to]
<1>1. call[c] \in Calls /\ GoodCall(c, call[c])
  BY DEF LoaderInv, LoaderTypeOK
<1>2. call' = [call EXCEPT ![c] = x]
  BY DEF LoaderInv, LoaderTypeOK
<1>3. /\ x \in Calls /\ x.pc = to /\ x.doc = call[c].doc /\ x.key = call[c].key
      /\ x.url = call[c].url /\ x.bypass = call[c].bypass
  BY <1>1 DEF Calls
<1>4. call[c].doc.age < TTL /\ call[c].doc.age < 2 * TTL
  <2>1. call[c].doc.age \in Nat
    BY <1>1, TwoTTL DEF Calls, Docs
  <2> QED BY <1>1, <2>1, TwoTTL DEF GoodCall
<1>5. GoodCall(c, x)
  BY <1>1, <1>3, <1>4 DEF GoodCall
<1>6. LoaderTypeOK'
  BY <1>2, <1>3 DEF LoaderInv, LoaderTypeOK
<1>7. ASSUME NEW d \in Callers PROVE GoodCall(d, call[d])'
  <2>1. call'[d] = IF d = c THEN x ELSE call[d]
    BY <1>2 DEF LoaderInv, LoaderTypeOK
  <2>2. GoodCall(d, call'[d])
    BY <1>5, <2>1 DEF LoaderInv
  <2> QED BY <2>2 DEF GoodCall, GoodDoc
<1> QED BY <1>6, <1>7 DEF LoaderInv

LEMMA KeepUnderMetadataStep ==
  ASSUME LoaderInv, NEW c \in Callers, KeepUnderMetadata(c)
  PROVE  LoaderInv'
<1>1. /\ call[c].pc = "keep" /\ StoreDoc(c, call[c].url)
      /\ call' = [call EXCEPT ![c].pc = "store"]
      /\ UNCHANGED <<config, refreshed, uptime, served, signed>>
  BY DEF KeepUnderMetadata
<1>2. call[c].url \in Urls /\ call[c].doc.age = 0
  BY <1>1 DEF LoaderInv, GoodCall
<1>3. call[c].url \in Keys /\ call[c].doc.age + TTL <= Horizon(call[c].url)
  BY <1>2, TwoTTL DEF Keys, Horizon
<1>4. cache' \in [Keys -> CachedDocs] /\ \A n \in Keys : GoodEntry(n, cache[n])'
  BY <1>1, <1>3, StoreStep
<1> QED BY <1>1, <1>4, StoredStep

LEMMA StoreUnderKeyStep ==
  ASSUME LoaderInv, NEW c \in Callers, StoreUnderKey(c)
  PROVE  LoaderInv'
<1>1. /\ call[c].pc = "store" /\ StoreDoc(c, call[c].key)
      /\ call' = [call EXCEPT ![c].pc = "done"]
      /\ UNCHANGED <<config, refreshed, uptime, served, signed>>
  BY DEF StoreUnderKey
<1>2. call[c].key \in Ids /\ call[c].doc.age < TTL /\ call[c].doc.age \in Nat
  BY <1>1, TwoTTL DEF LoaderInv, LoaderTypeOK, GoodCall, Calls, Docs
<1>3. call[c].key \in Keys /\ call[c].doc.age + TTL <= Horizon(call[c].key)
  BY <1>2, TwoTTL, LoaderAssumption DEF Keys, Horizon
<1>4. cache' \in [Keys -> CachedDocs] /\ \A n \in Keys : GoodEntry(n, cache[n])'
  BY <1>1, <1>3, StoreStep
<1> QED BY <1>1, <1>4, StoredStep

LEMMA RestartStep ==
  ASSUME LoaderInv, NEW i \in Instances, LoaderRestarts(i)
  PROVE  LoaderInv'
<1>1. \A c \in Callers : call'[c] = NoCall \/ call'[c] = call[c]
  BY DEF LoaderRestarts
<1>2. LoaderTypeOK'
  <2>1. call' \in [Callers -> Calls]
    BY BlankRecords DEF LoaderRestarts, LoaderInv, LoaderTypeOK
  <2> QED BY <2>1, TwoTTL DEF LoaderRestarts, LoaderInv, LoaderTypeOK
<1>3. UNCHANGED <<config, served, signed, cache>>
  BY DEF LoaderRestarts
<1>4. \A k \in Keys : GoodEntry(k, cache[k])'
  BY <1>3 DEF LoaderInv, GoodEntry, GoodDoc
<1>5. ASSUME NEW c \in Callers PROVE GoodCall(c, call[c])'
  <2>1. GoodCall(c, call'[c])
    BY <1>1, BlankRecords DEF LoaderInv
  <2> QED BY <1>3, <2>1 DEF GoodCall, GoodDoc
<1> QED BY <1>2, <1>4, <1>5 DEF LoaderInv

LEMMA UploadStep ==
  ASSUME LoaderInv, UploadManifest \/ UploadSignature
  PROVE  LoaderInv' /\ signed <= signed' /\ UNCHANGED <<config, call>>
<1>1. /\ served' \in 1 .. MaxRelease /\ signed' \in 1 .. MaxRelease
      /\ signed <= signed' /\ UNCHANGED <<config, refreshed, uptime, cache, call>>
  BY LoaderAssumption DEF LoaderInv, LoaderTypeOK, UploadManifest, UploadSignature
<1>2. LoaderTypeOK'
  BY <1>1 DEF LoaderInv, LoaderTypeOK
<1>3. \A d \in Docs : GoodDoc(d) => GoodDoc(d)'
  BY <1>1, LoaderAssumption DEF GoodDoc, Docs, LoaderInv, LoaderTypeOK
<1>4. ASSUME NEW k \in Keys PROVE GoodEntry(k, cache[k])'
  <2>1. cache[k].doc \in Docs /\ GoodEntry(k, cache[k])
    BY DEF LoaderInv, LoaderTypeOK, CachedDocs
  <2>2. GoodDoc(cache[k].doc)'
    <3>1. \A d \in Docs : GoodDoc(d) => (d.verified => d.release <= signed')
      BY <1>3 DEF GoodDoc
    <3> QED BY <1>1, <2>1, <3>1 DEF GoodEntry, GoodDoc
  <2> QED BY <1>1, <2>1, <2>2 DEF GoodEntry, Horizon
<1>5. ASSUME NEW c \in Callers PROVE GoodCall(c, call[c])'
  <2>1. call[c].doc \in Docs /\ GoodCall(c, call[c])
    BY DEF LoaderInv, LoaderTypeOK, Calls
  <2>2. GoodDoc(call[c].doc)'
    <3>1. \A d \in Docs : GoodDoc(d) => (d.verified => d.release <= signed')
      BY <1>3 DEF GoodDoc
    <3> QED BY <1>1, <2>1, <3>1 DEF GoodCall, GoodDoc
  <2> QED BY <1>1, <2>1, <2>2 DEF GoodCall
<1> QED BY <1>1, <1>2, <1>4, <1>5 DEF LoaderInv

LEMMA TickStep ==
  ASSUME LoaderInv, Tick
  PROVE  LoaderInv' /\ UNCHANGED <<config, signed, call>>
<1>1. UNCHANGED <<config, refreshed, served, signed, call>>
  BY DEF Tick
<1>2. uptime' \in [Instances -> 0 .. MaxAge]
  BY TwoTTL DEF Tick, LoaderInv, LoaderTypeOK, Older
<1>3. ASSUME NEW k \in Keys
      PROVE  cache'[k] \in CachedDocs /\ GoodEntry(k, cache'[k])
  <2> DEFINE e == cache[k]
             d == e.doc
  <2>1. e \in CachedDocs /\ d \in Docs /\ GoodEntry(k, e) /\ e.left \in 0 .. TTL
    BY DEF LoaderInv, LoaderTypeOK, CachedDocs
  <2>2. CASE e.left > 1
    <3>1. cache'[k] = [doc |-> OlderDoc(d), left |-> e.left - 1]
      BY <2>2 DEF Tick
    <3>2. /\ OlderDoc(d) \in Docs /\ OlderDoc(d).release = d.release
          /\ OlderDoc(d).verified = d.verified
          /\ d.age \in Nat /\ OlderDoc(d).age \in Nat /\ OlderDoc(d).age <= d.age + 1
      <4>1. d.age \in 0 .. MaxAge /\ MaxAge \in Nat
        BY <2>1, TwoTTL DEF Docs
      <4>2. Older(d.age) \in 0 .. MaxAge /\ Older(d.age) <= d.age + 1
        BY <4>1 DEF Older
      <4>3. CASE d.release = 0
        BY <2>1, <4>1, <4>3 DEF OlderDoc
      <4>4. CASE d.release # 0
        <5>1. OlderDoc(d) = [d EXCEPT !.age = Older(d.age)]
          BY <2>1, <4>4 DEF OlderDoc, Docs
        <5> QED BY <2>1, <4>1, <4>2, <5>1 DEF Docs
      <4> QED BY <4>3, <4>4
    <3>3. cache'[k] \in CachedDocs
      BY <2>1, <2>2, <3>1, <3>2, TwoTTL DEF CachedDocs
    <3>4. cache'[k].doc.age + cache'[k].left <= Horizon(k)
      BY <2>1, <2>2, <3>1, <3>2, TwoTTL DEF GoodEntry, Horizon
    <3> QED BY <2>1, <2>2, <3>1, <3>2, <3>3, <3>4, TwoTTL DEF GoodEntry, GoodDoc
  <2>3. CASE ~(e.left > 1)
    <3>1. cache'[k] = [doc |-> NoDoc, left |-> 0]
      BY <2>3 DEF Tick
    <3>2. cache'[k] \in CachedDocs
      BY <3>1, BlankRecords, TwoTTL DEF CachedDocs
    <3> QED BY <3>1, <3>2, TwoTTL DEF GoodEntry, GoodDoc, NoDoc, Horizon
  <2> QED BY <2>2, <2>3
<1>4. cache' \in [Keys -> CachedDocs]
  <2>1. cache' = [k \in Keys |-> cache'[k]]
    BY DEF Tick
  <2> QED BY <1>3, <2>1
<1>5. \A k \in Keys : GoodEntry(k, cache[k])'
  BY <1>1, <1>3 DEF GoodEntry, GoodDoc, Horizon
<1>6. \A c \in Callers : GoodCall(c, call[c])'
  BY <1>1 DEF LoaderInv, GoodCall, GoodDoc
<1> QED BY <1>1, <1>2, <1>4, <1>5, <1>6 DEF LoaderInv, LoaderTypeOK

\* No step of a lookup changes another call, nor the id that is looked up.
LEMMA LookupStepFacts ==
  ASSUME LoaderInv, NEW c \in Callers, LookupStep(c)
  PROVE  /\ LoaderInv' /\ UNCHANGED <<config, signed>>
         /\ \A d \in Callers : /\ call'[d].key = call[d].key
                               /\ call[d].pc # "idle" => call'[d].pc # "idle"
<1>1. LoaderInv'
  BY ReadKeyStep, LookupMetadataStep, FetchManifestStep, VerifyManifestStep, LookupFailsStep,
     KeepUnderMetadataStep, StoreUnderKeyStep DEF LookupStep
<1>2. UNCHANGED <<config, signed>>
  BY DEF LookupStep, ReadKey, LookupMetadata, FetchManifest, VerifyManifest, LookupFails,
     KeepUnderMetadata, StoreUnderKey
<1>3. ASSUME NEW d \in Callers
      PROVE  call'[d].key = call[d].key /\ (call[d].pc # "idle" => call'[d].pc # "idle")
  <2>1. call \in [Callers -> Calls] /\ call[d] \in Calls /\ call[c] \in Calls
    BY DEF LoaderInv, LoaderTypeOK
  <2>2. CASE ReadKey(c)
    BY <2>1, <2>2 DEF ReadKey, Calls
  <2>3. CASE LookupMetadata(c)
    BY <2>1, <2>3 DEF LookupMetadata, ReadMetadataKey, Calls
  <2>4. CASE FetchManifest(c) \/ VerifyManifest(c) \/ LookupFails(c)
    BY <2>1, <2>4 DEF FetchManifest, VerifyManifest, LookupFails, Calls
  <2>5. CASE KeepUnderMetadata(c) \/ StoreUnderKey(c)
    BY <2>1, <2>5 DEF KeepUnderMetadata, StoreUnderKey, Calls
  <2> QED BY <2>2, <2>3, <2>4, <2>5 DEF LookupStep
<1> QED BY <1>1, <1>2, <1>3

LEMMA LoaderInitInv == LoaderInit => LoaderInv
<1> SUFFICES ASSUME LoaderInit PROVE LoaderInv
  OBVIOUS
<1>1. [doc |-> NoDoc, left |-> 0] \in CachedDocs
  BY BlankRecords, TwoTTL DEF CachedDocs
<1>2. LoaderTypeOK
  BY <1>1, BlankRecords, TwoTTL, LoaderAssumption DEF LoaderInit, LoaderTypeOK
<1>3. \A k \in Keys : GoodEntry(k, cache[k])
  BY TwoTTL DEF LoaderInit, GoodEntry, GoodDoc, NoDoc, Horizon
<1>4. \A c \in Callers : GoodCall(c, call[c])
  BY BlankRecords DEF LoaderInit
<1> QED BY <1>2, <1>3, <1>4 DEF LoaderInv

-----------------------------------------------------------------------------
(* The enforcers' steps *)

LEMMA NoPoliciesFacts ==
  NoPolicies \in PolicySets /\ DOMAIN NoPolicies = {}
<1>1. DOMAIN NoPolicies = {}
  BY DEF NoPolicies
<1>2. NoPolicies \in [{} -> [enabled : BOOLEAN, release : 0 .. MaxRelease]]
  BY DEF NoPolicies
<1> QED BY <1>1, <1>2 DEF PolicySets

LEMMA DownFacts ==
  /\ DownEnforcer \in EnforcerStates
  /\ \A i \in Enforcers : GoodEnforcer(i, DownEnforcer)
  /\ DownEnforcer.pc = "down"
  BY NoPoliciesFacts DEF DownEnforcer, EnforcerStates, GoodEnforcer, SoundPolicies, InStep,
     Unreadable

\* The loader or time goes on: no enforcer changes, and no lookup changes its id.
LEMMA ElsewhereStep ==
  ASSUME PolicyInv, LoaderInv', UNCHANGED <<config, content, enf>>,
         day' \in Nat, day <= day', signed <= signed',
         \A i \in Enforcers : /\ call'[i].key = call[i].key
                              /\ call[i].pc # "idle" => call'[i].pc # "idle"
  PROVE  PolicyInv'
<1>1. EnforcerTypeOK'
  BY DEF PolicyInv, EnforcerInv, EnforcerTypeOK
<1>2. ASSUME NEW i \in Enforcers, NEW ps \in PolicySets, SoundPolicies(i, ps)
      PROVE  SoundPolicies(i, ps)'
  <2> SUFFICES ASSUME NEW n \in DOMAIN ps, ps[n].release # 0
               PROVE  /\ content[ps[n].release].network = n
                      /\ content[ps[n].release].from <= day'
                      /\ ~config[i].skip => ps[n].release <= signed'
    BY DEF SoundPolicies
  <2>1. ps[n].release \in 1 .. MaxRelease
    BY LoaderAssumption DEF PolicySets
  <2>2. content[ps[n].release].from \in Nat
    BY <2>1, PolicyAssumption DEF PolicyInv, EnforcerInv, EnforcerTypeOK
  <2>3. signed \in Nat /\ signed' \in Nat /\ day \in Nat
    BY LoaderAssumption DEF PolicyInv, EnforcerInv, EnforcerTypeOK, LoaderInv, LoaderTypeOK
  <2>4. /\ content[ps[n].release].network = n
        /\ content[ps[n].release].from <= day
        /\ ~config[i].skip => ps[n].release <= signed
    BY <1>2 DEF SoundPolicies
  <2> QED BY <2>1, <2>2, <2>3, <2>4, LoaderAssumption
<1>3. ASSUME NEW i \in Enforcers
      PROVE  GoodEnforcer(i, enf[i])' /\ Awaited(enf[i], call[i])'
  <2>1. enf[i].got \in PolicySets /\ enf[i].policies \in PolicySets
    BY DEF PolicyInv, EnforcerInv, EnforcerTypeOK, EnforcerStates
  <2>2. GoodEnforcer(i, enf[i]) /\ Awaited(enf[i], call[i])
    BY DEF PolicyInv, EnforcerInv
  <2>3. SoundPolicies(i, enf[i].got)' /\ SoundPolicies(i, enf[i].policies)'
    BY <1>2, <2>1, <2>2 DEF GoodEnforcer, SoundPolicies
  <2> QED BY <2>2, <2>3 DEF GoodEnforcer, InStep, Awaited
<1> QED BY <1>1, <1>3 DEF PolicyInv, EnforcerInv

\* One enforcer changes, for a good one.
LEMMA EnforcerStep ==
  ASSUME PolicyInv, LoaderInv', UNCHANGED <<config, signed, content, day>>,
         NEW i \in Enforcers, NEW e \in EnforcerStates, enf' = [enf EXCEPT ![i] = e],
         GoodEnforcer(i, e), Awaited(e, call'[i]),
         \A j \in Enforcers : j # i => call'[j] = call[j]
  PROVE  PolicyInv'
<1>1. EnforcerTypeOK'
  BY DEF PolicyInv, EnforcerInv, EnforcerTypeOK
<1>2. ASSUME NEW j \in Enforcers
      PROVE  GoodEnforcer(j, enf[j])' /\ Awaited(enf[j], call[j])'
  <2>1. enf'[j] = IF j = i THEN e ELSE enf[j]
    BY DEF PolicyInv, EnforcerInv, EnforcerTypeOK
  <2>2. GoodEnforcer(j, enf'[j]) /\ Awaited(enf'[j], call'[j])
    BY <2>1 DEF PolicyInv, EnforcerInv
  <2> QED BY <2>2 DEF GoodEnforcer, SoundPolicies, InStep, Awaited
<1> QED BY <1>1, <1>2 DEF PolicyInv, EnforcerInv

\* A policy of the file joins those loaded so far.
LEMMA LoadedFacts ==
  ASSUME PolicyInv, NEW i \in Enforcers, enf[i].pc \in {"load", "manifest"},
         NEW n \in enf[i].todo, NEW enabled \in BOOLEAN, NEW release \in 0 .. MaxRelease,
         enf[i].file[n].enabled => enabled,
         release # 0 => /\ content[release].network = n
                        /\ content[release].from <= day
                        /\ ~config[i].skip => release <= signed
  PROVE  LET e == Loaded(i, n, Policy(enabled, release))
         IN e \in EnforcerStates /\ GoodEnforcer(i, e) /\ e.pc = "load"
            /\ e.policies = enf[i].policies /\ e.serving = enf[i].serving
<1> DEFINE p == Policy(enabled, release)
           g == enf[i].got
           h == [m \in DOMAIN g \cup {n} |-> IF m = n THEN p ELSE g[m]]
           e == Loaded(i, n, p)
<1>1. enf[i] \in EnforcerStates /\ GoodEnforcer(i, enf[i]) /\ n \in Entries
  BY DEF PolicyInv, EnforcerInv, EnforcerTypeOK, EnforcerStates
<1>2. p \in [enabled : BOOLEAN, release : 0 .. MaxRelease]
      /\ p.enabled = enabled /\ p.release = release
  BY DEF Policy
<1>3. g \in PolicySets
  BY <1>1 DEF EnforcerStates
<1>4. h \in PolicySets
  <2>1. PICK D \in SUBSET Entries : g \in [D -> [enabled : BOOLEAN, release : 0 .. MaxRelease]]
    BY <1>3 DEF PolicySets
  <2>2. h \in [D \cup {n} -> [enabled : BOOLEAN, release : 0 .. MaxRelease]]
    <3> HIDE DEF p
    <3> QED BY <1>2, <2>1
  <2>3. D \cup {n} \in SUBSET Entries
    BY <1>1
  <2> HIDE DEF h
  <2> QED BY <2>2, <2>3 DEF PolicySets
<1>5. DOMAIN h = DOMAIN g \cup {n} /\ h[n] = p /\ \A m \in DOMAIN g : m # n => h[m] = g[m]
  OBVIOUS
<1>6. e = [enf[i] EXCEPT !.todo = enf[i].todo \ {n}, !.pc = "load", !.got = h]
  BY <1>1 DEF Loaded, EnforcerStates
<1> HIDE DEF h, p, e
<1>7. /\ e \in EnforcerStates /\ e.pc = "load" /\ e.got = h /\ e.file = enf[i].file
      /\ e.todo = enf[i].todo \ {n} /\ e.policies = enf[i].policies
      /\ e.serving = enf[i].serving
  BY <1>1, <1>4, <1>6 DEF EnforcerStates
<1>8. SoundPolicies(i, h)
  BY <1>1, <1>2, <1>5 DEF GoodEnforcer, SoundPolicies
<1>9. InStep(e)
  <2>1. InStep(enf[i])
    BY <1>1 DEF GoodEnforcer
  <2>2. DOMAIN h = DOMAIN e.file \ e.todo
    BY <1>5, <1>7, <2>1 DEF InStep
  <2>3. \A m \in DOMAIN h : e.file[m].enabled => h[m].enabled
    BY <1>2, <1>5, <1>7, <2>1 DEF InStep
  <2> QED BY <1>7, <2>1, <2>2, <2>3 DEF InStep
<1>10. GoodEnforcer(i, e)
  BY <1>1, <1>7, <1>8, <1>9 DEF GoodEnforcer
<1> QED BY <1>7, <1>10 DEF e, p

LEMMA EnforcerFacts ==
  ASSUME PolicyInv, NEW i \in Enforcers
  PROVE  /\ LoaderInv /\ enf \in [Enforcers -> EnforcerStates]
         /\ enf[i] \in EnforcerStates /\ GoodEnforcer(i, enf[i]) /\ Awaited(enf[i], call[i])
         /\ i \in Callers /\ Home[i] = i /\ i \in Instances
  BY PolicyAssumption, LoaderAssumption DEF PolicyInv, EnforcerInv, EnforcerTypeOK

\* The loader is left alone.
LEMMA LoaderUnchanged ==
  ASSUME LoaderInv, UNCHANGED loaderVars
  PROVE  LoaderInv'
  BY DEF LoaderInv, LoaderTypeOK, loaderVars, GoodEntry, GoodCall, GoodDoc, Horizon

LEMMA BeginLoadInv ==
  ASSUME PolicyInv, NEW i \in Enforcers, BeginLoad(i)
  PROVE  PolicyInv'
<1>1. PICK f \in Files :
        enf' = [enf EXCEPT ![i].pc = "load", ![i].file = f,
                           ![i].todo = DOMAIN f, ![i].got = NoPolicies]
  BY DEF BeginLoad
<1> DEFINE e == [enf[i] EXCEPT !.pc = "load", !.file = f, !.todo = DOMAIN f,
                               !.got = NoPolicies]
<1>2. enf' = [enf EXCEPT ![i] = e]
  BY <1>1, EnforcerFacts
<1>3. DOMAIN f \in SUBSET Entries
  BY PolicyAssumption DEF Entries
<1>4. /\ e \in EnforcerStates /\ e.pc = "load" /\ e.file = f /\ e.todo = DOMAIN f
      /\ e.got = NoPolicies /\ e.policies = enf[i].policies
  <2>1. enf[i] \in EnforcerStates /\ NoPolicies \in PolicySets
    BY EnforcerFacts, NoPoliciesFacts
  <2> QED BY <1>3, <2>1 DEF EnforcerStates
<1> HIDE DEF e
<1>5. GoodEnforcer(i, e)
  BY <1>4, EnforcerFacts, NoPoliciesFacts DEF GoodEnforcer, SoundPolicies, InStep
<1>6. UNCHANGED <<loaderVars, content, day>>
  BY DEF BeginLoad
<1>7. LoaderInv' /\ UNCHANGED <<config, signed, content, day, call>>
  BY <1>6, EnforcerFacts, LoaderUnchanged DEF loaderVars
<1> QED BY <1>2, <1>4, <1>5, <1>7, EnforcerStep DEF Awaited

LEMMA PcStepInv ==
  ASSUME PolicyInv, NEW i \in Enforcers, StartDisabled(i) \/ LoopStops(i)
  PROVE  PolicyInv'
<1>1. PICK to \in {"off", "stopped"} : enf' = [enf EXCEPT ![i].pc = to]
  BY DEF StartDisabled, LoopStops
<1> DEFINE e == [enf[i] EXCEPT !.pc = to]
<1>2. enf' = [enf EXCEPT ![i] = e]
  BY <1>1, EnforcerFacts
<1>3. e \in EnforcerStates /\ e.pc = to /\ e.got = enf[i].got /\ e.policies = enf[i].policies
  BY EnforcerFacts DEF EnforcerStates
<1>4. GoodEnforcer(i, e)
  BY <1>3, EnforcerFacts DEF GoodEnforcer, InStep
<1>5. UNCHANGED <<loaderVars, content, day>>
  BY DEF StartDisabled, LoopStops
<1>6. LoaderInv' /\ UNCHANGED <<config, signed, content, day, call>>
  BY <1>5, EnforcerFacts, LoaderUnchanged DEF loaderVars
<1> QED BY <1>2, <1>3, <1>4, <1>6, EnforcerStep DEF Awaited

LEMMA LoadPolicyInv ==
  ASSUME PolicyInv, NEW i \in Enforcers, NEW n \in Entries, LoadPolicy(i, n)
  PROVE  PolicyInv'
<1>1. enf[i].pc = "load" /\ n \in enf[i].todo
  BY DEF LoadPolicy, Loading
<1>2. PICK on \in BOOLEAN : /\ enf[i].file[n].enabled => on
                            /\ enf' = [enf EXCEPT ![i] = Loaded(i, n, Policy(on, 0))]
  BY DEF LoadPolicy
<1> DEFINE e == Loaded(i, n, Policy(on, 0))
<1>3. e \in EnforcerStates /\ GoodEnforcer(i, e) /\ e.pc = "load"
  BY <1>1, <1>2, LoadedFacts, LoaderAssumption
<1>4. UNCHANGED <<loaderVars, content, day>>
  BY DEF LoadPolicy
<1>5. LoaderInv' /\ UNCHANGED <<config, signed, content, day, call>>
  BY <1>4, EnforcerFacts, LoaderUnchanged DEF loaderVars
<1> QED BY <1>2, <1>3, <1>5, EnforcerStep DEF Awaited

LEMMA AskManifestInv ==
  ASSUME PolicyInv, NEW i \in Enforcers, NEW n \in Entries, AskManifest(i, n)
  PROVE  PolicyInv'
<1>1. /\ enf[i].pc = "load" /\ n \in enf[i].todo /\ n \in Ids /\ Get(i, n)
      /\ enf' = [enf EXCEPT ![i].pc = "manifest"] /\ UNCHANGED <<content, day>>
  BY DEF AskManifest, Loading, Entries
<1>2. /\ LoaderInv' /\ call' = [call EXCEPT ![i] = call'[i]]
      /\ call'[i].key = n /\ call'[i].pc # "idle" /\ UNCHANGED <<config, signed>>
  BY <1>1, EnforcerFacts, GetStep
<1> DEFINE e == [enf[i] EXCEPT !.pc = "manifest"]
<1>3. enf' = [enf EXCEPT ![i] = e]
  BY <1>1, EnforcerFacts
<1>4. /\ e \in EnforcerStates /\ e.pc = "manifest" /\ e.got = enf[i].got
      /\ e.policies = enf[i].policies /\ e.todo = enf[i].todo /\ e.file = enf[i].file
  BY EnforcerFacts DEF EnforcerStates
<1> HIDE DEF e
<1>5. GoodEnforcer(i, e)
  BY <1>1, <1>4, EnforcerFacts DEF GoodEnforcer, InStep
<1>6. Awaited(e, call'[i])
  BY <1>1, <1>2, <1>4 DEF Awaited
<1>7. \A j \in Enforcers : j # i => call'[j] = call[j]
  BY <1>2, PolicyAssumption DEF PolicyInv, LoaderInv, LoaderTypeOK
<1> QED BY <1>1, <1>2, <1>3, <1>4, <1>5, <1>6, <1>7, EnforcerStep

\* The lookup is over: its call is free again.
LEMMA AnsweredStep ==
  ASSUME PolicyInv, NEW i \in Enforcers, Answered(i),
         UNCHANGED <<config, refreshed, uptime, served, signed, cache>>
  PROVE  LoaderInv' /\ \A j \in Enforcers : j # i => call'[j] = call[j]
<1>1. refreshed' \in [Instances -> SUBSET Ids]
  BY DEF PolicyInv, LoaderInv, LoaderTypeOK
<1>2. LoaderInv'
  BY <1>1, EnforcerFacts, BlankRecords, CallStep DEF Answered
<1> QED BY <1>2, PolicyAssumption DEF Answered, PolicyInv, LoaderInv, LoaderTypeOK

LEMMA ManifestLoadedInv ==
  ASSUME PolicyInv, NEW i \in Enforcers, ManifestLoaded(i)
  PROVE  PolicyInv'
<1> DEFINE n == call[i].key
           release == call[i].doc.release
           e == Loaded(i, n, Policy(TRUE, release))
<1>1. /\ enf[i].pc = "manifest" /\ call[i].pc = "done" /\ ValidManifest(content[release], n)
      /\ enf' = [enf EXCEPT ![i] = e] /\ Answered(i)
      /\ UNCHANGED <<config, refreshed, uptime, served, signed, cache, content, day>>
  BY DEF ManifestLoaded
<1>2. n \in enf[i].todo
  BY <1>1, EnforcerFacts DEF Awaited
<1>3. /\ call[i] \in Calls /\ GoodCall(i, call[i]) /\ release \in 0 .. MaxRelease
  BY EnforcerFacts DEF LoaderInv, LoaderTypeOK, Calls, Docs
<1>4. /\ content[release].network = n /\ content[release].from <= day
      /\ ~config[i].skip => release <= signed
  BY <1>1, <1>3, EnforcerFacts DEF ValidManifest, InEffect, GoodCall, GoodDoc
<1>5. e \in EnforcerStates /\ GoodEnforcer(i, e) /\ e.pc = "load"
  BY <1>1, <1>2, <1>3, <1>4, LoadedFacts
<1>6. LoaderInv' /\ \A j \in Enforcers : j # i => call'[j] = call[j]
  BY <1>1, AnsweredStep
<1> HIDE DEF e
<1> QED BY <1>1, <1>5, <1>6, EnforcerStep DEF Awaited

LEMMA LoadFailsInv ==
  ASSUME PolicyInv, NEW i \in Enforcers, LoadFails(i)
  PROVE  PolicyInv'
<1> DEFINE to == IF enf[i].serving THEN "idle" ELSE "exited"
           e == [enf[i] EXCEPT !.pc = to, !.got = NoPolicies, !.todo = {}, !.file = Unreadable]
<1>1. enf' = [enf EXCEPT ![i] = e]
  BY EnforcerFacts DEF LoadFails
<1>2. /\ e \in EnforcerStates /\ e.pc \in {"idle", "exited"} /\ e.got = NoPolicies
      /\ e.policies = enf[i].policies
  <2>1. enf[i] \in EnforcerStates /\ NoPolicies \in PolicySets
    BY EnforcerFacts, NoPoliciesFacts
  <2> QED BY <2>1 DEF EnforcerStates
<1> HIDE DEF e
<1>3. GoodEnforcer(i, e)
  BY <1>2, EnforcerFacts, NoPoliciesFacts DEF GoodEnforcer, SoundPolicies, InStep
<1>4. UNCHANGED <<config, refreshed, uptime, served, signed, cache, content, day>>
  BY DEF LoadFails
<1>5. UNCHANGED call \/ Answered(i)
  BY DEF LoadFails, CannotLoad
<1>6. LoaderInv' /\ \A j \in Enforcers : j # i => call'[j] = call[j]
  <2>1. CASE UNCHANGED call
    BY <1>4, <2>1, EnforcerFacts, LoaderUnchanged DEF loaderVars
  <2> QED BY <1>4, <1>5, <2>1, AnsweredStep
<1> QED BY <1>1, <1>2, <1>3, <1>4, <1>6, EnforcerStep DEF Awaited

\* What Swap puts in force.
LEMMA SwapFacts ==
  ASSUME PolicyInv, NEW i \in Enforcers, Swap(i)
  PROVE  /\ PolicyInv' /\ enf[i].file \in Files /\ enf[i].todo = {}
         /\ DOMAIN enf[i].file = DOMAIN enf'[i].policies
         /\ \A n \in DOMAIN enf'[i].policies :
              enf[i].file[n].enabled => enf'[i].policies[n].enabled
         /\ \A j \in Enforcers : j # i => enf'[j] = enf[j]
<1> DEFINE e == [enf[i] EXCEPT !.pc = "idle", !.serving = TRUE, !.policies = enf[i].got,
                               !.got = NoPolicies, !.file = Unreadable]
<1>1. enf' = [enf EXCEPT ![i] = e] /\ enf[i].pc = "load" /\ enf[i].todo = {}
  BY EnforcerFacts DEF Swap, Loading
<1>2. e \in EnforcerStates /\ e.pc = "idle" /\ e.got = NoPolicies /\ e.policies = enf[i].got
  <2>1. enf[i] \in EnforcerStates /\ NoPolicies \in PolicySets
    BY EnforcerFacts, NoPoliciesFacts
  <2> QED BY <2>1 DEF EnforcerStates
<1> HIDE DEF e
<1>3. GoodEnforcer(i, e)
  BY <1>2, EnforcerFacts, NoPoliciesFacts DEF GoodEnforcer, SoundPolicies, InStep
<1>4. UNCHANGED <<loaderVars, content, day>>
  BY DEF Swap
<1>5. LoaderInv' /\ UNCHANGED <<config, signed, content, day, call>>
  BY <1>4, EnforcerFacts, LoaderUnchanged DEF loaderVars
<1>6. PolicyInv'
  BY <1>1, <1>2, <1>3, <1>5, EnforcerStep DEF Awaited
<1>7. enf'[i] = e /\ \A j \in Enforcers : j # i => enf'[j] = enf[j]
  BY <1>1, EnforcerFacts
<1> QED BY <1>1, <1>2, <1>6, <1>7, EnforcerFacts DEF GoodEnforcer, InStep

LEMMA RestartInv ==
  ASSUME PolicyInv, NEW i \in Enforcers, RestartEnforcer(i)
  PROVE  PolicyInv'
<1>1. /\ LoaderRestarts(i) /\ enf' = [enf EXCEPT ![i] = DownEnforcer]
      /\ UNCHANGED <<config, signed, content, day>>
  BY DEF RestartEnforcer, LoaderRestarts
<1>2. LoaderInv'
  BY <1>1, EnforcerFacts, RestartStep
<1>3. \A j \in Enforcers : j # i => call'[j] = call[j]
  BY <1>1, PolicyAssumption DEF LoaderRestarts
<1> QED BY <1>1, <1>2, <1>3, DownFacts, EnforcerStep DEF Awaited

LEMMA OtherLookupInv ==
  ASSUME PolicyInv, NEW c \in Callers, OtherLookup(c), UNCHANGED policyVars
  PROVE  PolicyInv'
<1>1. LoaderInv' /\ UNCHANGED <<config, signed>> /\ call' = [call EXCEPT ![c] = call'[c]]
  <2>1. CASE \E k \in Ids : Get(c, k)
    BY <2>1, GetStep DEF PolicyInv
  <2>2. CASE /\ call' = [call EXCEPT ![c] = NoCall]
             /\ UNCHANGED <<config, refreshed, uptime, served, signed, cache>>
    <3>1. refreshed' \in [Instances -> SUBSET Ids]
      BY <2>2 DEF PolicyInv, LoaderInv, LoaderTypeOK
    <3>2. LoaderInv'
      BY <2>2, <3>1, BlankRecords, CallStep DEF PolicyInv
    <3>3. call' = [call EXCEPT ![c] = call'[c]]
      BY <2>2 DEF PolicyInv, LoaderInv, LoaderTypeOK
    <3> QED BY <2>2, <3>2, <3>3
  <2> QED BY <2>1, <2>2 DEF OtherLookup
<1>2. \A i \in Enforcers : call'[i] = call[i]
  <2>1. \A d \in Callers : d # c => call'[d] = call[d]
    BY <1>1 DEF PolicyInv, LoaderInv, LoaderTypeOK
  <2> QED BY <2>1, PolicyAssumption DEF OtherLookup
<1>3. signed \in Nat /\ day \in Nat
  BY LoaderAssumption DEF PolicyInv, LoaderInv, LoaderTypeOK, EnforcerInv, EnforcerTypeOK
<1> QED BY <1>1, <1>2, <1>3, ElsewhereStep DEF policyVars

LEMMA LoaderStepInv ==
  ASSUME PolicyInv, LoaderEnvironment \/ \E c \in Callers : LookupStep(c),
         UNCHANGED policyVars
  PROVE  PolicyInv'
<1>1. signed \in Nat /\ day \in Nat /\ LoaderInv
  BY LoaderAssumption DEF PolicyInv, LoaderInv, LoaderTypeOK, EnforcerInv, EnforcerTypeOK
<1>2. /\ LoaderInv' /\ signed <= signed' /\ UNCHANGED config
      /\ \A d \in Callers : /\ call'[d].key = call[d].key
                            /\ call[d].pc # "idle" => call'[d].pc # "idle"
  <2>1. CASE UploadManifest \/ UploadSignature
    BY <1>1, <2>1, UploadStep
  <2>2. CASE Tick
    BY <1>1, <2>2, TickStep
  <2>3. CASE \E c \in Callers : LookupStep(c)
    BY <1>1, <2>3, LookupStepFacts
  <2> QED BY <2>1, <2>2, <2>3 DEF LoaderEnvironment
<1> QED BY <1>1, <1>2, ElsewhereStep, PolicyAssumption DEF policyVars

LEMMA DayPassesInv ==
  ASSUME PolicyInv, DayPasses
  PROVE  PolicyInv'
<1>1. signed \in Nat /\ day \in Nat /\ LoaderInv
  BY LoaderAssumption DEF PolicyInv, LoaderInv, LoaderTypeOK, EnforcerInv, EnforcerTypeOK
<1>2. LoaderInv' /\ UNCHANGED <<config, signed, call, content, enf>>
  BY <1>1, LoaderUnchanged DEF DayPasses, loaderVars
<1> QED BY <1>1, <1>2, ElsewhereStep DEF DayPasses

-----------------------------------------------------------------------------
(* Theorems *)

LEMMA PolicyInit == Init => PolicyInv
<1> SUFFICES ASSUME Init PROVE PolicyInv
  OBVIOUS
<1>1. LoaderInv
  BY LoaderInitInv DEF Init
<1>2. EnforcerTypeOK
  BY DownFacts DEF Init, EnforcerTypeOK
<1>3. \A i \in Enforcers : GoodEnforcer(i, enf[i]) /\ Awaited(enf[i], call[i])
  BY DownFacts DEF Init, Awaited
<1> QED BY <1>1, <1>2, <1>3 DEF PolicyInv, EnforcerInv

LEMMA PolicyNext == PolicyInv /\ [Next]_vars => PolicyInv'
<1> SUFFICES ASSUME PolicyInv, [Next]_vars PROVE PolicyInv'
  OBVIOUS
<1>1. CASE UNCHANGED vars
  <2>1. signed \in Nat /\ day \in Nat /\ LoaderInv
    BY LoaderAssumption DEF PolicyInv, LoaderInv, LoaderTypeOK, EnforcerInv, EnforcerTypeOK
  <2>2. UNCHANGED loaderVars /\ UNCHANGED <<config, signed, call, content, enf, day>>
    BY <1>1 DEF vars, loaderVars, policyVars
  <2> QED BY <2>1, <2>2, LoaderUnchanged, ElsewhereStep
<1>2. ASSUME NEW i \in Enforcers,
             \/ StartDisabled(i) \/ BeginLoad(i) \/ ManifestLoaded(i) \/ LoadFails(i) \/ Swap(i)
             \/ LoopStops(i) \/ RestartEnforcer(i)
             \/ \E n \in Entries : LoadPolicy(i, n) \/ AskManifest(i, n)
      PROVE  PolicyInv'
  BY <1>2, PcStepInv, BeginLoadInv, ManifestLoadedInv, LoadFailsInv, SwapFacts, RestartInv,
     LoadPolicyInv, AskManifestInv
<1> QED BY <1>1, <1>2, DayPassesInv, LoaderStepInv, OtherLookupInv DEF Next

\* The invariant of loader and enforcers.
THEOREM PolicyInvariant == Spec => []PolicyInv
  BY PolicyInit, PolicyNext, PTL DEF Spec

\* No lookup hands out a document that is older than two cacheTTLs.
THEOREM StalenessIsBounded == Spec => []StalenessBounded
<1>1. PolicyInv => StalenessBounded
  BY DEF PolicyInv, LoaderInv, GoodCall, StalenessBounded
<1> QED BY PolicyInvariant, <1>1, PTL

\* A lookup that the forced refresh sends past the cache comes back with a document
\* from after the instance's start.
THEOREM RefreshIsForced == Spec => []RefreshedOnStart
<1>1. PolicyInv => RefreshedOnStart
  <2> SUFFICES ASSUME PolicyInv, NEW c \in Callers, call[c].pc = "done", call[c].bypass
               PROVE  call[c].doc.age <= uptime[Home[c]]
    BY DEF RefreshedOnStart
  <2>1. call[c].doc.age = 0
    BY DEF PolicyInv, LoaderInv, GoodCall
  <2>2. uptime[Home[c]] \in Nat
    BY LoaderAssumption, TwoTTL DEF PolicyInv, LoaderInv, LoaderTypeOK
  <2> QED BY <2>1, <2>2
<1> QED BY PolicyInvariant, <1>1, PTL

\* A policy in force from a manifest is its network's, in effect, and signed where
\* the instance verifies, whoever filled the shared cache.
THEOREM PoliciesAreSound == Spec => []PoliciesSound
<1>1. PolicyInv => PoliciesSound
  BY DEF PolicyInv, EnforcerInv, GoodEnforcer, SoundPolicies, PoliciesSound
<1> QED BY PolicyInvariant, <1>1, PTL

\* Only a completely loaded file that no longer lists a network, or disables its
\* policy, ends the enforcement of that network while the process runs.
THEOREM EnforcementHolds == Spec => EnforcementNeverLapses
<1> DEFINE Lapse ==
      \A i \in Enforcers, n \in Entries :
        Enforces(i, n) /\ enf'[i].serving /\ ~Enforces(i, n)'
          => /\ enf[i].file # Unreadable /\ enf[i].todo = {}
             /\ n \in DOMAIN enf[i].file => ~enf[i].file[n].enabled
<1>1. PolicyInv /\ [Next]_vars => [Lapse]_vars
  <2> SUFFICES ASSUME PolicyInv, Next, NEW i \in Enforcers, NEW n \in Entries,
                      Enforces(i, n), enf'[i].serving, ~Enforces(i, n)'
               PROVE  /\ enf[i].file # Unreadable /\ enf[i].todo = {}
                      /\ n \in DOMAIN enf[i].file => ~enf[i].file[n].enabled
    OBVIOUS
  <2>1. enf'[i].policies # enf[i].policies
    BY DEF Enforces
  <2>2. enf \in [Enforcers -> EnforcerStates]
    BY EnforcerFacts
  <2>3. \E j \in Enforcers :
          \/ StartDisabled(j) \/ BeginLoad(j) \/ ManifestLoaded(j) \/ LoadFails(j) \/ Swap(j)
          \/ LoopStops(j) \/ RestartEnforcer(j)
          \/ \E m \in Entries : LoadPolicy(j, m) \/ AskManifest(j, m)
    BY <2>1 DEF Next, DayPasses, policyVars
  <2>4. PICK j \in Enforcers : Swap(j) \/ RestartEnforcer(j)
    <3>1. ASSUME NEW j \in Enforcers,
                 \/ StartDisabled(j) \/ BeginLoad(j) \/ LoadFails(j) \/ LoopStops(j)
                 \/ \E m \in Entries : AskManifest(j, m)
          PROVE  FALSE
      <4>1. enf[j] \in EnforcerStates /\ enf[i] \in EnforcerStates
        BY <2>2
      <4>2. CASE StartDisabled(j) \/ LoopStops(j) \/ \E m \in Entries : AskManifest(j, m)
        BY <2>1, <2>2, <4>1, <4>2 DEF StartDisabled, LoopStops, AskManifest, EnforcerStates
      <4>3. CASE BeginLoad(j)
        BY <2>1, <2>2, <4>1, <4>3 DEF BeginLoad, EnforcerStates
      <4>4. CASE LoadFails(j)
        BY <2>1, <2>2, <4>1, <4>4 DEF LoadFails, EnforcerStates
      <4> QED BY <3>1, <4>2, <4>3, <4>4
    <3>2. ASSUME NEW j \in Enforcers, NEW m, NEW p, enf' = [enf EXCEPT ![j] = Loaded(j, m, p)]
          PROVE  FALSE
      <4>1. Loaded(j, m, p).policies = enf[j].policies
        BY <2>2 DEF Loaded, EnforcerStates
      <4> QED BY <2>1, <2>2, <3>2, <4>1
    <3>3. ASSUME NEW j \in Enforcers,
                 ManifestLoaded(j) \/ \E m \in Entries : LoadPolicy(j, m)
          PROVE  FALSE
      BY <3>2, <3>3 DEF ManifestLoaded, LoadPolicy
    <3> QED BY <2>3, <3>1, <3>3
  <2>5. j = i /\ Swap(i)
    BY <2>1, <2>2, <2>4, SwapFacts DEF RestartEnforcer, DownEnforcer
  <2>6. enf[i].file # Unreadable
    <3>1. enf[i].file \in Files
      BY <2>5, SwapFacts
    <3> QED BY <3>1, PolicyAssumption DEF Unreadable
  <2> QED BY <2>5, <2>6, SwapFacts DEF Enforces
<1>2. [][Lapse]_vars => EnforcementNeverLapses
  BY PTL DEF EnforcementNeverLapses
<1> HIDE DEF Lapse
<1> QED BY PolicyInvariant, <1>1, <1>2, PTL DEF Spec
=============================================================================
