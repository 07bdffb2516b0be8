----------------------- MODULE CatalogPublisherProofs -----------------------
(***************************************************************************)
(* Proofs about CatalogPublisher, for every number of publishes, catalogs, *)
(* contents and requests, overlapping or one at a time.                    *)
(*                                                                         *)
(* The verdicts of a call rest on what the call itself read back, and what *)
(* readers could fetch at some time is never taken back: this holds        *)
(* however publishes overlap.  That it is also the content the call wrote, *)
(* and that no version is overwritten, needs that publishes do not         *)
(* overlap: the versions a call is about to write are then later than      *)
(* everything the index refers to, and its files stay until it has         *)
(* verified them.                                                          *)
(***************************************************************************)
EXTENDS CatalogPublisher, FiniteSetTheorems, TLAPS

-----------------------------------------------------------------------------
(* catalog-core: versions and entries *)

(* The record of a call.                                                   *)
IsCall(r) ==
  /\ DOMAIN r = {"pc", "req", "out", "errs", "fatal", "todo", "view", "verify", "attempt",
                 "status", "results"}
  /\ r = [x \in DOMAIN r |-> r[x]]

(* A reference of a versioned file.                                        *)
RefOK(f) == f = Ref(f.kind, f.version, f.digest) /\ f.version \in Nat \ {0}

(* No version of an entry is later than the entry's.                       *)
EntryOK(e) ==
  /\ e.version \in Nat /\ e.entryVersion \in Nat /\ (e.entryVersion = 0 => e = NoEntry)
  /\ \A f \in Versioned(e) : RefOK(f) /\ f.version <= e.version

IndexOK(i) == \A id \in Catalogs : EntryOK(i[id])

(* What a publish writes is one file, of the kind of its mode, and an      *)
(* entry refers to one baseline.                                           *)
NewOK(o) ==
  /\ \A f \in o.new : f.kind # "latest" => /\ RefOK(f) /\ f.version = o.entry.version
                                           /\ f.kind = o.mode /\ o.mode \in {"baseline", "change"}
  /\ \A f, g \in o.new : f.kind # "latest" /\ g.kind # "latest" => f = g
  /\ o.mode = "baseline" => \A f \in Versioned(o.entry) : f.kind = "baseline" => f \in o.new

(* What a publish adds is one file at the version after the prior one, and *)
(* every change of an entry counts.                                        *)
OutcomeOK(o, e) ==
  /\ EntryOK(o.entry) /\ NewOK(o) /\ o.entry # NoEntry
  /\ o.mode # "unchanged" => o.entry.entryVersion = e.entryVersion + 1
  /\ Versioned(o.entry) \subseteq Versioned(e) \cup o.new
  /\ \A f \in o.new : f.kind # "latest" => f.version = e.version + 1

(* A file reference is its kind, its version and its digest.               *)
LEMMA RefFields ==
  ASSUME NEW kind, NEW v, NEW d
  PROVE  Ref(kind, v, d).kind = kind /\ Ref(kind, v, d).version = v /\ Ref(kind, v, d).digest = d
BY DEF Ref

(* An outcome is its mode, its entry and the files that are new.           *)
LEMMA OutcomeFields ==
  ASSUME NEW mode, NEW e, NEW new
  PROVE  /\ Outcome(mode, e, new).mode = mode /\ Outcome(mode, e, new).entry = e
         /\ Outcome(mode, e, new).new = new
BY DEF Outcome

(* An entry that takes the place of another.                               *)
LEMMA EntryFields ==
  ASSUME NEW e, e.entryVersion \in Nat, NEW v, NEW retired, NEW content, NEW meta, NEW refs
  PROVE  LET n == Entry(e, v, retired, content, meta, refs) IN
         /\ n.version = v /\ n.entryVersion = e.entryVersion + 1 /\ n.entryVersion # 0
         /\ n.entryVersion \in Nat
         /\ Versioned(n) = {f \in refs : f.kind # "latest"} /\ n # NoEntry
<1> DEFINE n == Entry(e, v, retired, content, meta, refs)
<1>1. n.version = v /\ n.entryVersion = e.entryVersion + 1 /\ n.files = refs
  BY DEF Entry
<1>2. NoEntry.entryVersion = 0
  BY DEF NoEntry
<1> HIDE DEF n
<1>3. n.entryVersion \in Nat /\ n.entryVersion # 0
  BY <1>1
<1>4. n # NoEntry
  BY <1>2, <1>3
<1>5. Versioned(n) = {f \in refs : f.kind # "latest"}
  BY <1>1 DEF Versioned
<1> QED BY <1>1, <1>3, <1>4, <1>5 DEF n

(* An entry at the next version that keeps some of the old references and  *)
(* adds one of its own is in order.                                        *)
LEMMA NewEntryOK ==
  ASSUME NEW e, EntryOK(e), NEW kept, kept \subseteq Versioned(e),
         NEW retired, NEW content, NEW meta, NEW mode \in {"baseline", "change"},
         mode = "baseline" => \A f \in kept : f.kind # "baseline", NEW d, NEW c
  PROVE  LET new == {Ref(mode, e.version + 1, d), Ref("latest", 0, c)} IN
         OutcomeOK(Outcome(mode, Entry(e, e.version + 1, retired, content, meta, kept \cup new),
                           new), e)
<1> DEFINE v == e.version + 1
           f == Ref(mode, v, d)
           l == Ref("latest", 0, c)
           n == Entry(e, v, retired, content, meta, kept \cup {f, l})
           o == Outcome(mode, n, {f, l})
<1>1. /\ e.version \in Nat /\ e.entryVersion \in Nat /\ v = e.version + 1 /\ v \in Nat \ {0}
      /\ \A g \in kept : RefOK(g) /\ g.version <= e.version /\ g.kind # "latest"
  BY DEF EntryOK, Versioned
<1>2. f.kind = mode /\ f.version = v /\ f.digest = d /\ l.kind = "latest" /\ mode # "latest"
  BY RefFields
<1>3. RefOK(f)
  BY <1>1, <1>2 DEF RefOK
<1> HIDE DEF f, l, v
<1>4. /\ n.version = v /\ n.entryVersion = e.entryVersion + 1 /\ n.entryVersion # 0
      /\ n.entryVersion \in Nat
      /\ Versioned(n) = {g \in kept \cup {f, l} : g.kind # "latest"} /\ n # NoEntry
  BY <1>1, EntryFields
<1> HIDE DEF n
<1>5. Versioned(n) = kept \cup {f}
  BY <1>1, <1>2, <1>4
<1>6. EntryOK(n)
  <2>1. ASSUME NEW g \in Versioned(n) PROVE RefOK(g) /\ g.version <= v
    <3>1. CASE g \in kept
      <4>1. RefOK(g) /\ g.version <= e.version /\ g.version \in Nat
        BY <1>1, <3>1 DEF RefOK
      <4> QED BY <1>1, <4>1
    <3>2. CASE g = f
      BY <1>1, <1>2, <1>3, <3>2
    <3> QED BY <1>5, <3>1, <3>2
  <2> QED BY <1>1, <1>4, <2>1 DEF EntryOK
<1>7. o.mode = mode /\ o.entry = n /\ o.new = {f, l}
  BY OutcomeFields
<1> HIDE DEF o
<1>8. NewOK(o)
  BY <1>2, <1>3, <1>4, <1>5, <1>7 DEF NewOK
<1>9. OutcomeOK(o, e)
  BY <1>1, <1>2, <1>4, <1>5, <1>6, <1>7, <1>8 DEF OutcomeOK
<1> QED BY <1>9 DEF o, n, f, l, v

(* An outcome with no new version: the metadata changed, or nothing did.   *)
LEMMA NoFileOK ==
  ASSUME NEW e, EntryOK(e), NEW n, EntryOK(n), n # NoEntry, Versioned(n) \subseteq Versioned(e),
         NEW mode \in {"metadata", "unchanged", "retire"},
         mode # "unchanged" => n.entryVersion = e.entryVersion + 1, NEW c
  PROVE  OutcomeOK(Outcome(mode, n, {Ref("latest", 0, c)}), e)
<1> DEFINE l == Ref("latest", 0, c)
           o == Outcome(mode, n, {l})
<1>1. l.kind = "latest" /\ o.mode = mode /\ o.entry = n /\ o.new = {l}
  BY RefFields, OutcomeFields
<1> HIDE DEF l, o
<1>2. NewOK(o)
  BY <1>1 DEF NewOK
<1>3. OutcomeOK(o, e)
  BY <1>1, <1>2 DEF OutcomeOK
<1> QED BY <1>3 DEF o, l

(* A submission gives the next version, or no new version at all.          *)
LEMMA PublishOneOK ==
  ASSUME NEW e, EntryOK(e), NEW content, NEW meta, NEW force
  PROVE  OutcomeOK(PublishOne(content, meta, force, e), e)
<1> DEFINE changes == {f \in Versioned(e) : f.kind = "change"}
<1>1. OutcomeOK(Baseline(content, meta, e), e)
  <2>1. changes \subseteq Versioned(e) /\ \A f \in changes : f.kind # "baseline"
    OBVIOUS
  <2> QED BY <2>1, NewEntryOK DEF Baseline
<1>2. OutcomeOK(Change(content, meta, e), e)
  BY NewEntryOK DEF Change
<1>3. OutcomeOK(Metadata(content, meta, e), e)
  <2> DEFINE l == Ref("latest", 0, content)
             no == FALSE
             n == Entry(e, e.version, no, content, meta, Versioned(e) \cup {l})
  <2>1. l.kind = "latest" /\ e.entryVersion \in Nat /\ e.version \in Nat
    BY RefFields DEF EntryOK
  <2>2. Metadata(content, meta, e) = Outcome("metadata", n, {l})
    BY DEF Metadata
  <2> HIDE DEF l, no
  <2>3. /\ n.version = e.version /\ n.entryVersion = e.entryVersion + 1 /\ n.entryVersion # 0
        /\ n.entryVersion \in Nat /\ n # NoEntry
        /\ Versioned(n) = {f \in Versioned(e) \cup {l} : f.kind # "latest"}
    BY <2>1, EntryFields
  <2> HIDE DEF n
  <2>4. Versioned(n) \subseteq Versioned(e)
    BY <2>1, <2>3
  <2>5. EntryOK(n)
    BY <2>1, <2>3, <2>4 DEF EntryOK
  <2> QED BY <2>2, <2>3, <2>4, <2>5, NoFileOK DEF l
<1>4. e # NoEntry => OutcomeOK(Outcome("unchanged", e, {Ref("latest", 0, content)}), e)
  BY NoFileOK
<1>5. \/ PublishOne(content, meta, force, e) \in
           {Baseline(content, meta, e), Change(content, meta, e), Metadata(content, meta, e)}
      \/ e # NoEntry /\ PublishOne(content, meta, force, e) =
                         Outcome("unchanged", e, {Ref("latest", 0, content)})
  BY Zenon DEF PublishOne
<1> QED BY <1>1, <1>2, <1>3, <1>4, <1>5

(* A tombstone refers to no version.                                       *)
LEMMA RetireOneOK ==
  ASSUME NEW e, EntryOK(e)
  PROVE  OutcomeOK(RetireOne(e), e)
<1> DEFINE l == Ref("latest", 0, None)
           yes == TRUE
           n == Entry(e, 0, yes, None, e.meta, {l})
<1>1. l.kind = "latest" /\ e.entryVersion \in Nat
  BY RefFields DEF EntryOK
<1>2. RetireOne(e) = Outcome("retire", n, {l})
  BY DEF RetireOne
<1> HIDE DEF l, yes
<1>3. /\ n.version = 0 /\ n.entryVersion = e.entryVersion + 1 /\ n.entryVersion # 0
      /\ n.entryVersion \in Nat /\ n # NoEntry
      /\ Versioned(n) = {f \in {l} : f.kind # "latest"}
  BY <1>1, EntryFields
<1> HIDE DEF n
<1>4. Versioned(n) = {}
  BY <1>1, <1>3
<1>5. EntryOK(n)
  BY <1>3, <1>4 DEF EntryOK
<1> QED BY <1>2, <1>3, <1>4, <1>5, NoFileOK DEF l

(* The items of a request: what names them, and where.                     *)
LEMMA ItemFacts ==
  ASSUME NEW r
  PROVE  /\ \A it \in CatalogItems(r) : it[1] = "catalog" /\ (IdOf(r, it) # NoId => IdOf(r, it) \in CatalogIds(r))
         /\ \A it \in RetireItems(r) : it[1] = "retire" /\ IdOf(r, it) \in ToSet(r.retire)
         /\ \A id \in CatalogIds(r) : id # NoId /\ \E it \in CatalogItems(r) : IdOf(r, it) = id
         /\ \A id \in ToSet(r.retire) : \E it \in RetireItems(r) : IdOf(r, it) = id
<1>0. \A list, i : Item(list, i)[1] = list /\ Item(list, i)[2] = i
  BY DEF Item
<1>1. ASSUME NEW i \in DOMAIN r.catalogs
      PROVE  /\ Item("catalog", i) \in CatalogItems(r)
             /\ IdOf(r, Item("catalog", i)) = r.catalogs[i].id
  BY <1>0 DEF CatalogItems, IdOf
<1>2. ASSUME NEW i \in DOMAIN r.retire
      PROVE  /\ Item("retire", i) \in RetireItems(r)
             /\ IdOf(r, Item("retire", i)) = r.retire[i]
  BY <1>0 DEF RetireItems, IdOf
<1>3. ASSUME NEW it \in CatalogItems(r)
      PROVE  it[1] = "catalog" /\ (IdOf(r, it) # NoId => IdOf(r, it) \in CatalogIds(r))
  <2>1. PICK i \in DOMAIN r.catalogs : it = Item("catalog", i)
    BY DEF CatalogItems
  <2> QED BY <1>0, <1>1, <2>1 DEF CatalogIds
<1>4. ASSUME NEW it \in RetireItems(r)
      PROVE  it[1] = "retire" /\ IdOf(r, it) \in ToSet(r.retire)
  <2>1. PICK i \in DOMAIN r.retire : it = Item("retire", i)
    BY DEF RetireItems
  <2> QED BY <1>0, <1>2, <2>1 DEF ToSet
<1>5. ASSUME NEW id \in CatalogIds(r)
      PROVE  id # NoId /\ \E it \in CatalogItems(r) : IdOf(r, it) = id
  <2>1. PICK i \in DOMAIN r.catalogs : id = r.catalogs[i].id
    BY DEF CatalogIds
  <2>2. id # NoId
    BY DEF CatalogIds
  <2> QED BY <1>1, <2>1, <2>2
<1>6. ASSUME NEW id \in ToSet(r.retire) PROVE \E it \in RetireItems(r) : IdOf(r, it) = id
  <2>1. PICK i \in DOMAIN r.retire : id = r.retire[i]
    BY DEF ToSet
  <2> QED BY <1>2, <2>1
<1> QED BY <1>3, <1>4, <1>5, <1>6

(* What Load makes of a request.                                           *)
LEMMA LoadsOutcomes ==
  ASSUME IndexOK(index), NEW r \in Requests, NEW unsigned
  PROVE  LET out == Outcomes(r, Prior(r), unsigned) IN
         /\ DOMAIN out \subseteq Catalogs
         /\ \A id \in DOMAIN out : OutcomeOK(out[id], index[id])
         /\ \A it \in Submissions(r) :
              it \in PublishErrors(r, Prior(r), unsigned) \/ IdOf(r, it) \in DOMAIN out
<1> DEFINE prior == Prior(r)
           errs == PublishErrors(r, prior, unsigned)
           out == Outcomes(r, prior, unsigned)
<1>1. /\ LoadIds(r) \subseteq Catalogs \cup {NoId} /\ NoId \notin CatalogIds(r)
      /\ CatalogIds(r) \subseteq LoadIds(r) /\ RetireOnly(r) \subseteq LoadIds(r)
  BY PublisherAssumption DEF LoadIds, CatalogIds, RetireOnly
<1>2. \A id \in LoadIds(r) : prior[id] = IF id = NoId THEN NoEntry ELSE index[id]
  BY <1>1 DEF Prior
<1> HIDE DEF prior
<1>3. DOMAIN out = {IdOf(r, it) : it \in Submissions(r) \ errs}
  BY DEF Outcomes
<1>4. \A id \in DOMAIN out :
        \/ \E content, meta, force : out[id] = PublishOne(content, meta, force, prior[id])
        \/ out[id] = RetireOne(prior[id])
  BY DEF Outcomes
<1> HIDE DEF out
<1>5. ASSUME NEW it \in Submissions(r) \ errs
      PROVE  IdOf(r, it) \in LoadIds(r) /\ IdOf(r, it) # NoId
  <2>1. ~Refused(r, it, prior, unsigned)
    BY DEF PublishErrors
  <2>2. CASE it \in CatalogItems(r)
    <3>1. it[1] = "catalog" /\ (IdOf(r, it) # NoId => IdOf(r, it) \in CatalogIds(r))
      BY <2>2, ItemFacts
    <3>2. IdOf(r, it) # NoId
      BY <2>1, <3>1 DEF Refused
    <3> QED BY <1>1, <3>1, <3>2
  <2>3. CASE it \in RetireItems(r) /\ IdOf(r, it) \in RetireOnly(r)
    <3>1. it[1] = "retire" /\ IdOf(r, it) \in LoadIds(r)
      BY <1>1, <2>3, ItemFacts
    <3>2. prior[IdOf(r, it)] # NoEntry
      BY <2>1, <3>1 DEF Refused
    <3> QED BY <1>2, <3>1, <3>2
  <2> QED BY <2>2, <2>3 DEF Submissions
<1>6. DOMAIN out \subseteq Catalogs /\ \A id \in DOMAIN out : prior[id] = index[id]
  BY <1>1, <1>2, <1>3, <1>5
<1>7. ASSUME NEW id \in DOMAIN out PROVE OutcomeOK(out[id], index[id])
  <2>1. EntryOK(index[id]) /\ prior[id] = index[id]
    BY <1>6 DEF IndexOK
  <2> QED BY <1>4, <2>1, PublishOneOK, RetireOneOK
<1>8. \A it \in Submissions(r) : it \in errs \/ IdOf(r, it) \in DOMAIN out
  BY <1>3
<1> QED BY <1>6, <1>7, <1>8 DEF out, errs, prior

-----------------------------------------------------------------------------
(* What holds of a call *)

(* What was checked of an outcome in deployment en: a reader could fetch   *)
(* its file, or at least one like it.                                      *)
Crawled(id, o, en, li) ==
  o.mode # "unchanged" =>
    /\ en.registered
    /\ en.serial /\ OwnIndex(o, en.lag) => \A f \in o.new : f.kind # "latest" => <<id, f>> \in li
    /\ \A f \in o.new : f.kind # "latest" =>
         \E x \in li : /\ x[1] = id /\ x[2].kind = f.kind
                       /\ f.kind = "change" => x[2].version = f.version

GivenIn(results, id) == {x.status : x \in {x \in results : x.id = id}}

Given(r, id) == GivenIn(r.results, id)

(* Every catalog of the request has one verdict.                           *)
DecidedOnce(r) ==
  \A id \in LoadIds(r.req) :
    /\ \E v : Given(r, id) = {v}
    /\ id \in CatalogIds(r.req) => "RETIRED" \notin Given(r, id)

(* Calls under way, and those whose outcomes are fixed.                    *)
Working == {"execute", "write", "merge", "verify", "files", "encode"}
Loaded == {"write", "merge", "verify", "files", "encode"}

(* A round of the verification is behind the call.                         *)
Verified(r) == r.pc = "encode" \/ (r.pc \in {"verify", "files"} /\ r.attempt # 0)

(* Every submission has an outcome or an error.                            *)
OutOK(r) ==
  /\ DOMAIN r.out \subseteq Catalogs
  /\ \A id \in DOMAIN r.out : EntryOK(r.out[id].entry) /\ NewOK(r.out[id])
  /\ \A it \in Submissions(r.req) : it \in r.errs \/ IdOf(r.req, it) \in DOMAIN r.out

(* A call, given the deployment, what was shown and what was listed: what  *)
(* passed verification could be fetched, and the answer says no more than  *)
(* that.                                                                   *)
CallOK(r, en, sh, li) ==
  /\ IsCall(r) /\ r.attempt \in Nat
  /\ r.pc \in Working \cup {"idle", "done", "lost"}
  /\ r.pc \in Working => r.req \in Requests
  /\ r.pc \in Loaded => OutOK(r)
  /\ r.pc \in {"idle", "execute", "write", "merge"} => r.attempt = 0
  /\ r.pc = "merge" => IndexOK(r.view)
  /\ r.pc = "files" => r.view = NoEntries \/ (en.registered /\ RefsOf(r.view) \subseteq sh)
  /\ Verified(r) => \A it \in ToVerify(r) \ r.verify :
                      Crawled(IdOf(r.req, it), r.out[IdOf(r.req, it)], en, li)
  /\ r.pc = "done" /\ r.req # None =>
       /\ DecidedOnce(r)
       /\ \A id \in Touched(r.out) : Given(r, id) \cap {"ACCEPTED", "RETIRED"} # {} =>
            Crawled(id, r.out[id], en, li)

(* What is known of a call stays true as readers are shown more.           *)
LEMMA CallGrows ==
  ASSUME NEW r, NEW en, NEW sh, NEW li, CallOK(r, en, sh, li),
         NEW sh2, sh \subseteq sh2, NEW li2, li \subseteq li2
  PROVE  CallOK(r, en, sh2, li2)
<1>1. \A id, o : Crawled(id, o, en, li) => Crawled(id, o, en, li2)
  BY DEF Crawled
<1> QED BY <1>1 DEF CallOK

(* A call that has not begun.                                              *)
LEMMA IdleFields ==
  /\ IsCall(Idle) /\ Idle.pc = "idle" /\ Idle.attempt = 0 /\ Idle.req = None
BY DEF Idle, IsCall

(* A call that is over, and was not completed.                             *)
LEMMA OverOK ==
  ASSUME NEW pc \in {"done", "lost"}, NEW status, NEW en, NEW sh, NEW li
  PROVE  /\ CallOK([Idle EXCEPT !.pc = pc, !.status = status], en, sh, li)
         /\ [Idle EXCEPT !.pc = pc, !.status = status].pc = pc
<1> DEFINE s == [Idle EXCEPT !.pc = pc, !.status = status]
<1>1. IsCall(s) /\ s.pc = pc /\ s.attempt = 0 /\ s.req = None
  BY IdleFields DEF IsCall
<1> HIDE DEF s
<1>2. CallOK(s, en, sh, li)
  BY <1>1 DEF CallOK, Verified, Working, Loaded
<1> QED BY <1>1, <1>2 DEF s

(* A call that died with the adapter.                                      *)
LEMMA LostOK ==
  ASSUME NEW en, NEW sh, NEW li
  PROVE  /\ CallOK([Idle EXCEPT !.pc = "lost"], en, sh, li)
         /\ [Idle EXCEPT !.pc = "lost"].pc = "lost"
<1> DEFINE s == [Idle EXCEPT !.pc = "lost"]
<1>1. IsCall(s) /\ s.pc = "lost" /\ s.attempt = 0 /\ s.req = None
  BY IdleFields DEF IsCall
<1> HIDE DEF s
<1>2. CallOK(s, en, sh, li)
  BY <1>1 DEF CallOK, Verified, Working, Loaded
<1> QED BY <1>1, <1>2 DEF s

(* Errors first, and they are authoritative: encode.                       *)
LEMMA ResultsGive ==
  ASSUME NEW r, NEW out, NoId \notin DOMAIN out, NEW failed, NEW id
  PROVE  LET given == GivenIn(Results(r, out, failed), id)
             rejected == RejectedIds(r, failed)
         IN /\ id \in rejected => given = {"REJECTED"}
            /\ id \in (CatalogIds(r) \cap DOMAIN out) \ rejected => given = {"ACCEPTED"}
            /\ id \in RetireOnly(r) \ rejected => given = {"RETIRED"}
            /\ "ACCEPTED" \in given =>
                 id \notin rejected /\ \E it \in CatalogItems(r) : IdOf(r, it) = id
            /\ "RETIRED" \in given =>
                 id \notin rejected /\ \E it \in RetireItems(r) : IdOf(r, it) = id /\ id \in RetireOnly(r)
<1> DEFINE rejected == RejectedIds(r, failed)
           A == AcceptedItems(r, out, failed)
           T == RetiredItems(r, failed)
           R == Results(r, out, failed)
           given == {x.status : x \in {x \in R : x.id = id}}
           Of(items) == \E it \in items : IdOf(r, it) = id
<1>0. GivenIn(R, id) = given
  BY DEF GivenIn
<1>1. \A it, st : Result(r, it, st).id = IdOf(r, it) /\ Result(r, it, st).status = st
  BY DEF Result
<1>2. \A st : st \in given <=> \/ st = "REJECTED" /\ Of(failed)
                               \/ st = "ACCEPTED" /\ Of(A)
                               \/ st = "RETIRED" /\ Of(T)
  <2>1. R = {Result(r, it, "REJECTED") : it \in failed} \cup {Result(r, it, "ACCEPTED") : it \in A}
              \cup {Result(r, it, "RETIRED") : it \in T}
    BY DEF Results
  <2> HIDE DEF A, T, R
  <2>2. ASSUME NEW st \in given
        PROVE  \/ st = "REJECTED" /\ Of(failed)
               \/ st = "ACCEPTED" /\ Of(A)
               \/ st = "RETIRED" /\ Of(T)
    <3>1. PICK x \in R : x.id = id /\ x.status = st
      OBVIOUS
    <3> QED BY <1>1, <2>1, <3>1
  <2>3. ASSUME NEW st, NEW it, Result(r, it, st) \in R, IdOf(r, it) = id PROVE st \in given
    BY <1>1, <2>3
  <2>4. Of(failed) => "REJECTED" \in given
    BY <2>1, <2>3
  <2>5. Of(A) => "ACCEPTED" \in given
    BY <2>1, <2>3
  <2>6. Of(T) => "RETIRED" \in given
    BY <2>1, <2>3
  <2> HIDE DEF given, Of
  <2> QED BY <2>2, <2>4, <2>5, <2>6
<1> HIDE DEF given, R
<1>3. Of(failed) <=> id \in rejected
  BY DEF RejectedIds
<1>4. Of(A) => id \in DOMAIN out \ rejected /\ Of(CatalogItems(r))
  BY DEF AcceptedItems
<1>5. Of(T) => id \notin CatalogIds(r) \cup rejected /\ Of(RetireItems(r))
  BY DEF RetiredItems
<1>6. id \in (CatalogIds(r) \cap DOMAIN out) \ rejected => Of(A)
  BY ItemFacts DEF AcceptedItems
<1>7. id \in RetireOnly(r) \ rejected => Of(T)
  BY ItemFacts DEF RetiredItems, RetireOnly
<1>8. Of(A) => ~Of(T)
  <2>1. Of(A) => id \in CatalogIds(r) \/ id = NoId
    BY <1>4, ItemFacts
  <2>2. Of(A) /\ Of(T) => FALSE
    BY <1>4, <1>5, <2>1
  <2> QED BY <2>2
<1>9. Of(RetireItems(r)) /\ id \notin CatalogIds(r) => id \in RetireOnly(r)
  BY ItemFacts DEF RetireOnly
<1> HIDE DEF rejected, A, T, Of
<1>10. /\ id \in rejected => given = {"REJECTED"}
       /\ Of(A) => given = {"ACCEPTED"}
       /\ Of(T) => given = {"RETIRED"}
       /\ "ACCEPTED" \in given => Of(A)
       /\ "RETIRED" \in given => Of(T)
  BY <1>2, <1>3, <1>4, <1>5, <1>8
<1>11. /\ id \in rejected => given = {"REJECTED"}
       /\ id \in (CatalogIds(r) \cap DOMAIN out) \ rejected => given = {"ACCEPTED"}
       /\ id \in RetireOnly(r) \ rejected => given = {"RETIRED"}
       /\ "ACCEPTED" \in given => id \notin rejected /\ Of(CatalogItems(r))
       /\ "RETIRED" \in given => id \notin rejected /\ Of(RetireItems(r)) /\ id \in RetireOnly(r)
  BY <1>4, <1>5, <1>6, <1>7, <1>9, <1>10
<1> QED BY <1>0, <1>11 DEF rejected, R, Of

Stored(id, f, fs) == Path(id, f) \in DOMAIN fs /\ fs[Path(id, f)] = f.digest

(* A call that verifies, when no other is under way: the index is what it  *)
(* wrote, its files are there, and what readers were shown of a new        *)
(* catalog is its own.                                                     *)
WrittenOK(r, lag, i, fs, sh) ==
  r.pc \in {"verify", "files"} =>
    /\ \A id \in DOMAIN r.out :
         /\ i[id] = r.out[id].entry
         /\ \A f \in r.out[id].new : f.kind # "latest" => Stored(id, f, fs)
    /\ \A id \in Touched(r.out) : r.out[id].entry.entryVersion = 1 =>
         \A x \in sh : x[1] = id => x[2] \in r.out[id].entry.files
    /\ r.pc = "files" /\ ~lag => r.view = NoEntries \/ r.view = i

(* What readers were shown.                                                *)
ShownOK(sh) == \A x \in sh : x[1] \in Catalogs /\ RefOK(x[2])

(* A catalog that verifyOutcome finds in order could be fetched.           *)
LEMMA VerifiedIsCrawled ==
  ASSUME ShownOK(shown), Fetchable(shown, files) \subseteq listed,
         NEW r, r.pc = "files", NEW id \in Touched(r.out), id \in Catalogs, NewOK(r.out[id]),
         r.view = NoEntries \/ (env.registered /\ RefsOf(r.view) \subseteq shown),
         env.serial => WrittenOK(r, env.lag, index, files, shown),
         VerifyOutcome(id, r.out[id], r.view[id]) = "ok"
  PROVE  Crawled(id, r.out[id], env, listed)
<1> DEFINE o == r.out[id]
           v == r.view
<1>1. v[id] # NoEntry
  BY DEF VerifyOutcome
<1>2. env.registered /\ RefsOf(v) \subseteq shown
  BY <1>1 DEF NoEntries
<1>3. ASSUME NEW f \in o.new, f.kind # "latest"
      PROVE  \E g : /\ g \in Versioned(v[id]) /\ g.kind = f.kind /\ f.kind = o.mode
                    /\ f.kind = "change" => g.version = f.version
                    /\ <<id, g>> \in listed /\ <<id, g>> \in shown /\ Stored(id, g, files)
  <2>1. f.kind = o.mode /\ o.mode \in {"baseline", "change"} /\ f.version = o.entry.version
    BY <1>3 DEF NewOK
  <2>2. PICK g \in Wanted(o, v[id]) : g.kind = o.mode
    BY <1>1, <2>1 DEF VerifyOutcome
  <2>3. FetchFile(id, g) = "ok"
    <3> DEFINE got == {FetchFile(id, h) : h \in Wanted(o, v[id])}
    <3>1. "permanent" \notin got /\ "transient" \notin got
      BY <1>1, <2>1, <2>2 DEF VerifyOutcome
    <3>2. FetchFile(id, g) \in got
      OBVIOUS
    <3>3. FetchFile(id, g) \in {"transient", "ok", "permanent"}
      BY DEF FetchFile
    <3> QED BY <3>1, <3>2, <3>3
  <2>4. Stored(id, g, files)
    BY <2>3 DEF FetchFile, Stored
  <2>5. g \in Versioned(v[id]) /\ (o.mode = "change" => g.version = o.entry.version)
    BY <2>1, <2>2 DEF Wanted, Versioned
  <2>6. <<id, g>> \in shown
    BY <1>2, <2>5 DEF RefsOf
  <2>7. <<id, g>> \in listed
    <3> DEFINE x == <<id, g>>
    <3>1. x[1] = id /\ x[2] = g /\ x \in shown
      BY <2>6
    <3> HIDE DEF x
    <3>2. x \in Fetchable(shown, files)
      BY <2>4, <3>1 DEF Fetchable, Stored
    <3>3. x \in listed
      BY <3>2
    <3> QED BY <3>3 DEF x
  <2> QED BY <2>1, <2>2, <2>4, <2>5, <2>6, <2>7
<1>4. ASSUME env.serial, OwnIndex(o, env.lag), NEW f \in o.new, f.kind # "latest"
      PROVE  <<id, f>> \in listed
  <2>1. PICK g : /\ g \in Versioned(v[id]) /\ g.kind = f.kind /\ f.kind = o.mode
                 /\ f.kind = "change" => g.version = f.version
                 /\ <<id, g>> \in listed /\ <<id, g>> \in shown /\ Stored(id, g, files)
    BY <1>3, <1>4
  <2>2. id \in DOMAIN r.out /\ WrittenOK(r, env.lag, index, files, shown)
    BY <1>4 DEF Touched
  <2>3. Stored(id, f, files) /\ index[id] = o.entry
    BY <1>4, <2>2 DEF WrittenOK
  <2>4. RefOK(f) /\ RefOK(g) /\ o.mode \in {"baseline", "change"}
    <3> DEFINE x == <<id, g>>
    <3>1. x[2] = g /\ x \in shown
      BY <2>1
    <3> HIDE DEF x
    <3>2. RefOK(g)
      BY <3>1 DEF ShownOK
    <3> QED BY <1>4, <3>2 DEF NewOK
  <2>5. CASE o.mode = "change"
    <3>1. g.kind = f.kind /\ g.version = f.version
      BY <2>1, <2>5
    <3>2. Path(id, g) = Path(id, f)
      BY <3>1 DEF Path
    <3>3. g.digest = f.digest
      BY <2>1, <2>3, <3>2 DEF Stored
    <3>4. g = f
      BY <2>4, <3>1, <3>3 DEF RefOK
    <3> QED BY <2>1, <3>4
  <2>6. CASE o.mode = "baseline"
    <3>1. g \in Versioned(o.entry)
      <4>1. g.kind # "latest"
        BY <2>1, <1>4
      <4>2. CASE o.entry.entryVersion = 1
        <5> DEFINE x == <<id, g>>
        <5>1. x[1] = id /\ x[2] = g /\ x \in shown
          BY <2>1
        <5> HIDE DEF x
        <5>2. g \in o.entry.files
          BY <2>2, <4>2, <5>1 DEF WrittenOK
        <5> QED BY <4>1, <5>2 DEF Versioned
      <4>3. CASE ~env.lag
        <5>1. v = NoEntries \/ v = index
          BY <2>2, <4>3 DEF WrittenOK
        <5>2. v[id] = index[id]
          BY <1>1, <5>1 DEF NoEntries
        <5> QED BY <2>1, <2>3, <5>2
      <4> QED BY <1>4, <2>6, <4>2, <4>3 DEF OwnIndex
    <3>2. g \in o.new /\ g.kind # "latest"
      BY <2>1, <2>6, <3>1 DEF NewOK
    <3>3. g = f
      BY <1>4, <3>2 DEF NewOK
    <3> QED BY <2>1, <3>3
  <2> QED BY <2>4, <2>5, <2>6
<1>5. ASSUME NEW f \in o.new, f.kind # "latest"
      PROVE  \E x \in listed : /\ x[1] = id /\ x[2].kind = f.kind
                               /\ f.kind = "change" => x[2].version = f.version
  <2>1. PICK g : /\ g.kind = f.kind /\ (f.kind = "change" => g.version = f.version)
                 /\ <<id, g>> \in listed
    BY <1>3, <1>5
  <2> DEFINE x == <<id, g>>
  <2>2. x[1] = id /\ x[2] = g /\ x \in listed
    BY <2>1
  <2> HIDE DEF x
  <2> QED BY <2>1, <2>2
<1> QED BY <1>2, <1>4, <1>5 DEF Crawled

-----------------------------------------------------------------------------
(* The steps of a call *)

(* What a call may do to the call's own record: s takes its place.         *)
Becomes(c, s) == call' = [call EXCEPT ![c] = s]

Fine(r) == CallOK(r, env, shown, listed)

(* Whatever readers were shown and can fetch now is listed.                *)
ReadersOK ==
  /\ IndexOK(index)
  /\ ShownOK(shown)
  /\ RefsOf(served) \subseteq shown
  /\ Fetchable(shown, files) \subseteq listed

(* A request is accepted for execution, or refused.                        *)
LEMMA DecodeOK ==
  ASSUME NEW c \in Calls, Fine(call[c]), NEW r \in Requests, Decode(c, r)
  PROVE  \E s : Becomes(c, s) /\ Fine(s) /\ s.pc \in {"execute", "done"}
<1> DEFINE q == call[c]
           s == [q EXCEPT !.pc = "execute", !.req = r]
           d == [Idle EXCEPT !.pc = "done", !.status = "refused"]
<1>1. Fine(d) /\ d.pc = "done"
  BY OverOK DEF Fine
<1>2. IsCall(q) /\ q.pc = "idle" /\ q.attempt = 0
  BY DEF Decode, Fine, CallOK
<1>3. Becomes(c, s) \/ Becomes(c, d)
  BY DEF Decode, Done, Becomes
<1> HIDE DEF d, q
<1>4. IsCall(s) /\ s.pc = "execute" /\ s.req = r /\ s.attempt = 0
  BY <1>2 DEF IsCall
<1> HIDE DEF s
<1>5. Fine(s)
  BY <1>4 DEF Fine, CallOK, Working, Loaded, Verified
<1> QED BY <1>1, <1>3, <1>4, <1>5

(* A call that fails as a whole gives no verdicts.                         *)
LEMMA FailsOK ==
  ASSUME NEW c \in Calls, KeysetFails(c) \/ StoreFails(c)
  PROVE  \E s : Becomes(c, s) /\ Fine(s) /\ s.pc = "done"
<1> DEFINE d == [Idle EXCEPT !.pc = "done", !.status = "failed"]
<1>1. Fine(d) /\ d.pc = "done"
  BY OverOK DEF Fine
<1>2. Becomes(c, d)
  BY DEF KeysetFails, StoreFails, Done, Becomes
<1> HIDE DEF d
<1> QED BY <1>1, <1>2

(* The outcomes are computed from the index there is.                      *)
LEMMA LoadOK ==
  ASSUME ReadersOK, NEW c \in Calls, Fine(call[c]), NEW unsigned, Load(c, unsigned)
  PROVE  \E s : /\ Becomes(c, s) /\ Fine(s) /\ s.pc = "write"
                /\ DOMAIN s.out \subseteq Catalogs /\ s.todo = Writes(s.out)
                /\ \A id \in DOMAIN s.out : OutcomeOK(s.out[id], index[id])
<1> DEFINE q == call[c]
           out == Outcomes(q.req, Prior(q.req), unsigned)
           errs == PublishErrors(q.req, Prior(q.req), unsigned)
           s == [q EXCEPT !.pc = "write", !.out = out, !.errs = errs,
                         !.fatal = unsigned # {}, !.todo = Writes(out)]
<1>1. /\ IsCall(q) /\ q.pc = "execute" /\ q.attempt = 0
      /\ q.req \in Requests
  BY DEF Load, Fine, CallOK, Working
<1>2. Becomes(c, s)
  BY DEF Load, Becomes
<1> HIDE DEF q
<1>3. /\ DOMAIN out \subseteq Catalogs
      /\ \A id \in DOMAIN out : OutcomeOK(out[id], index[id])
      /\ \A it \in Submissions(q.req) : it \in errs \/ IdOf(q.req, it) \in DOMAIN out
  BY <1>1, LoadsOutcomes DEF ReadersOK
<1> HIDE DEF out, errs
<1>4. /\ IsCall(s) /\ s.pc = "write" /\ s.req = q.req /\ s.attempt = 0
      /\ s.out = out /\ s.errs = errs /\ s.todo = Writes(out)
  BY <1>1 DEF IsCall
<1> HIDE DEF s
<1>5. OutOK(s)
  BY <1>3, <1>4 DEF OutOK, OutcomeOK
<1>6. Fine(s)
  BY <1>1, <1>4, <1>5 DEF Fine, CallOK, Working, Loaded, Verified
<1> QED BY <1>2, <1>3, <1>4, <1>6

(* The index is read back before it is merged.                             *)
LEMMA GetIndexOK ==
  ASSUME ReadersOK, NEW c \in Calls, Fine(call[c]), GetIndex(c)
  PROVE  \E s : /\ Becomes(c, s) /\ Fine(s) /\ s.pc = "merge"
                /\ s.out = call[c].out /\ s.todo = call[c].todo /\ s.view = index
<1> DEFINE q == call[c]
           s == [q EXCEPT !.pc = "merge", !.view = index]
<1>1. /\ IsCall(q) /\ q.pc = "write" /\ q.attempt = 0
      /\ q.req \in Requests /\ OutOK(q)
  BY DEF GetIndex, Fine, CallOK, Working, Loaded
<1>2. Becomes(c, s)
  BY DEF GetIndex, Becomes
<1> HIDE DEF q
<1>3. /\ IsCall(s) /\ s.pc = "merge" /\ s.req = q.req /\ s.attempt = 0
      /\ s.out = q.out /\ s.errs = q.errs /\ s.todo = q.todo /\ s.view = index
  BY <1>1 DEF IsCall
<1> HIDE DEF s
<1>4. Fine(s)
  BY <1>1, <1>3 DEF Fine, CallOK, Working, Loaded, Verified, OutOK, ReadersOK
<1> QED BY <1>2, <1>3, <1>4 DEF q

(* Put, as far as the call is concerned.                                   *)
LEMMA PutOK ==
  ASSUME NEW c \in Calls, Fine(call[c]), Put(c)
  PROVE  \E w \in call[c].todo : \E s :
           /\ Becomes(c, s) /\ Fine(s) /\ s.pc = "write"
           /\ s.out = call[c].out /\ s.todo = call[c].todo \ {w}
           /\ files' = [p \in DOMAIN files \cup {Path(w.id, w.ref)} |->
                          IF p = Path(w.id, w.ref) THEN w.ref.digest ELSE files[p]]
<1> DEFINE q == call[c]
<1>1. PICK w \in q.todo :
        /\ files' = [p \in DOMAIN files \cup {Path(w.id, w.ref)} |->
                       IF p = Path(w.id, w.ref) THEN w.ref.digest ELSE files[p]]
        /\ Becomes(c, [q EXCEPT !.todo = q.todo \ {w}])
  BY DEF Put, Becomes
<1> DEFINE s == [q EXCEPT !.todo = q.todo \ {w}]
<1>2. /\ IsCall(q) /\ q.pc = "write" /\ q.attempt = 0
      /\ q.req \in Requests /\ OutOK(q)
  BY DEF Put, Fine, CallOK, Working, Loaded
<1> HIDE DEF q
<1>3. /\ IsCall(s) /\ s.pc = "write" /\ s.req = q.req /\ s.attempt = 0
      /\ s.out = q.out /\ s.errs = q.errs /\ s.todo = q.todo \ {w}
  BY <1>2 DEF IsCall
<1>4. Becomes(c, s)
  BY <1>1
<1> HIDE DEF s
<1>5. Fine(s)
  BY <1>2, <1>3 DEF Fine, CallOK, Working, Loaded, Verified, OutOK
<1> QED BY <1>1, <1>3, <1>4, <1>5 DEF q

(* PutIndex, as far as the call is concerned.                              *)
LEMMA PutIndexOK ==
  ASSUME NEW c \in Calls, Fine(call[c]), PutIndex(c)
  PROVE  \E s : Becomes(c, s) /\ Fine(s) /\ s.pc \in {"verify", "encode"} /\ s.out = call[c].out
<1> DEFINE q == call[c]
           pc == IF Touched(q.out) = {} THEN "encode" ELSE "verify"
           s == [q EXCEPT !.pc = pc, !.view = None]
<1>1. /\ IsCall(q) /\ q.pc = "merge" /\ q.attempt = 0
      /\ q.req \in Requests /\ OutOK(q)
  BY DEF PutIndex, Fine, CallOK, Working, Loaded
<1>2. Becomes(c, s)
  BY DEF PutIndex, Becomes
<1> HIDE DEF q
<1>3. pc \in {"verify", "encode"} /\ (pc = "encode" => Touched(q.out) = {})
  OBVIOUS
<1> HIDE DEF pc
<1>4. /\ IsCall(s) /\ s.pc = pc /\ s.req = q.req /\ s.attempt = 0
      /\ s.out = q.out /\ s.errs = q.errs
  BY <1>1 DEF IsCall
<1> HIDE DEF s
<1>5. Fine(s)
  <2>1. OutOK(s)
    BY <1>1, <1>4 DEF OutOK
  <2>2. pc = "encode" => ToVerify(s) = {}
    BY <1>3, <1>4 DEF ToVerify
  <2> QED BY <1>1, <1>3, <1>4, <2>1, <2>2 DEF Fine, CallOK, Working, Loaded, Verified
<1> QED BY <1>2, <1>3, <1>4, <1>5 DEF q

(* The index is fetched as a reader gets it.                               *)
LEMMA FetchIndexOK ==
  ASSUME ReadersOK, NEW c \in Calls, Fine(call[c]), FetchIndex(c)
  PROVE  \E s : /\ Becomes(c, s) /\ Fine(s) /\ s.pc = "files"
                /\ s.out = call[c].out /\ s.view \in {NoEntries, served}
<1> DEFINE q == call[c]
           v == IF env.registered THEN served ELSE NoEntries
           s == [q EXCEPT !.pc = "files", !.view = v]
<1>1. /\ IsCall(q) /\ q.pc = "verify" /\ q.attempt \in Nat
      /\ q.req \in Requests /\ OutOK(q)
      /\ q.attempt # 0 =>
           \A it \in ToVerify(q) \ q.verify :
             Crawled(IdOf(q.req, it), q.out[IdOf(q.req, it)], env, listed)
  BY DEF FetchIndex, Fine, CallOK, Working, Loaded, Verified
<1>2. Becomes(c, s)
  BY DEF FetchIndex, Becomes
<1>3. v = NoEntries \/ (env.registered /\ v = served /\ RefsOf(v) \subseteq shown)
  BY DEF ReadersOK
<1> HIDE DEF q, v
<1>4. /\ IsCall(s) /\ s.pc = "files" /\ s.req = q.req /\ s.attempt = q.attempt
      /\ s.verify = q.verify /\ s.out = q.out /\ s.errs = q.errs /\ s.view = v
  BY <1>1 DEF IsCall
<1> HIDE DEF s
<1>5. ToVerify(s) = ToVerify(q)
  BY <1>4 DEF ToVerify
<1>6. OutOK(s)
  BY <1>1, <1>4 DEF OutOK
<1>7. Fine(s)
  BY <1>1, <1>3, <1>4, <1>5, <1>6 DEF Fine, CallOK, Working, Loaded, Verified
<1> QED BY <1>2, <1>3, <1>4, <1>7 DEF q

(* No catalog passes a round without an index.                             *)
LEMMA FetchIndexFailsOK ==
  ASSUME NEW c \in Calls, Fine(call[c]), FetchIndexFails(c)
  PROVE  \E s : Becomes(c, s) /\ Fine(s) /\ s.pc \in {"verify", "encode"} /\ s.out = call[c].out
<1> DEFINE q == call[c]
           pc == IF LastAttempt(q) THEN "encode" ELSE "verify"
           s == [q EXCEPT !.pc = pc, !.verify = ToVerify(q), !.attempt = q.attempt + 1]
<1>1. /\ IsCall(q) /\ q.pc = "verify" /\ q.attempt \in Nat
      /\ q.req \in Requests /\ OutOK(q)
  BY DEF FetchIndexFails, Fine, CallOK, Working, Loaded
<1>2. Becomes(c, s)
  BY DEF FetchIndexFails, Becomes
<1>3. pc \in {"verify", "encode"}
  OBVIOUS
<1> HIDE DEF q, pc
<1>4. /\ IsCall(s) /\ s.pc = pc /\ s.req = q.req /\ s.attempt = q.attempt + 1
      /\ s.verify = ToVerify(q) /\ s.out = q.out /\ s.errs = q.errs
  BY <1>1 DEF IsCall
<1> HIDE DEF s
<1>5. s.attempt \in Nat /\ ToVerify(s) = ToVerify(q)
  BY <1>1, <1>4 DEF ToVerify
<1>6. OutOK(s)
  BY <1>1, <1>4 DEF OutOK
<1>7. Fine(s)
  BY <1>1, <1>3, <1>4, <1>5, <1>6 DEF Fine, CallOK, Working, Loaded
<1> QED BY <1>2, <1>3, <1>4, <1>7 DEF q

(* The verdicts of the last round stand when the client is gone.           *)
LEMMA SleepDoneOK ==
  ASSUME NEW c \in Calls, Fine(call[c]), SleepDone(c)
  PROVE  \E s : Becomes(c, s) /\ Fine(s) /\ s.pc = "encode"
<1> DEFINE q == call[c]
           s == [q EXCEPT !.pc = "encode"]
<1>1. /\ IsCall(q) /\ q.pc = "verify" /\ q.attempt \in Nat /\ q.attempt # 0
      /\ q.req \in Requests /\ OutOK(q)
      /\ \A it \in ToVerify(q) \ q.verify :
           Crawled(IdOf(q.req, it), q.out[IdOf(q.req, it)], env, listed)
  BY DEF SleepDone, Fine, CallOK, Working, Loaded, Verified
<1>2. Becomes(c, s)
  BY DEF SleepDone, Becomes
<1> HIDE DEF q
<1>3. /\ IsCall(s) /\ s.pc = "encode" /\ s.req = q.req /\ s.attempt = q.attempt
      /\ s.verify = q.verify /\ s.out = q.out /\ s.errs = q.errs
  BY <1>1 DEF IsCall
<1> HIDE DEF s
<1>4. ToVerify(s) = ToVerify(q) /\ OutOK(s)
  BY <1>1, <1>3 DEF ToVerify, OutOK
<1>5. Fine(s)
  BY <1>1, <1>3, <1>4 DEF Fine, CallOK, Working, Loaded, Verified
<1> QED BY <1>2, <1>3, <1>5

(* What passes a round was there for a reader to fetch.                    *)
LEMMA VerifyOK ==
  ASSUME ReadersOK, NEW c \in Calls, Fine(call[c]), Verify(c),
         env.serial => WrittenOK(call[c], env.lag, index, files, shown)
  PROVE  \E s : Becomes(c, s) /\ Fine(s) /\ s.pc \in {"verify", "encode"} /\ s.out = call[c].out
<1> DEFINE q == call[c]
           failed(flaky) == {it \in ToVerify(q) : Verdict(q, flaky, it) # "ok"}
           retry(flaky) == \E it \in failed(flaky) : Verdict(q, flaky, it) = "transient"
           pc(flaky) == IF retry(flaky) /\ ~LastAttempt(q) THEN "verify" ELSE "encode"
           s(flaky) == [q EXCEPT !.pc = pc(flaky), !.view = None, !.verify = failed(flaky),
                          !.attempt = q.attempt + 1]
<1>1. /\ IsCall(q) /\ q.pc = "files" /\ q.attempt \in Nat
      /\ q.req \in Requests /\ OutOK(q)
      /\ q.view = NoEntries \/ (env.registered /\ RefsOf(q.view) \subseteq shown)
  BY DEF Verify, Fine, CallOK, Working, Loaded
<1>2. PICK flaky : Becomes(c, s(flaky))
  BY DEF Verify, Becomes
<1> DEFINE p == pc(flaky)
           fs == failed(flaky)
           n == [q EXCEPT !.pc = p, !.view = None, !.verify = fs, !.attempt = q.attempt + 1]
<1>3. p \in {"verify", "encode"} /\ Becomes(c, n)
  BY <1>2
<1> HIDE DEF p, s, pc, retry
<1>4. ASSUME NEW it \in ToVerify(q) \ fs
      PROVE  Crawled(IdOf(q.req, it), q.out[IdOf(q.req, it)], env, listed)
  <2> DEFINE id == IdOf(q.req, it)
  <2>1. Verdict(q, flaky, it) = "ok"
    OBVIOUS
  <2>2. VerifyOutcome(id, q.out[id], q.view[id]) = "ok"
    BY <2>1 DEF Verdict
  <2>3. id \in Touched(q.out)
    BY DEF ToVerify
  <2>4. id \in Catalogs /\ NewOK(q.out[id])
    BY <1>1, <2>3 DEF OutOK, Touched
  <2> HIDE DEF q, id
  <2>5. Crawled(id, q.out[id], env, listed)
    BY <1>1, <2>2, <2>3, <2>4, VerifiedIsCrawled DEF ReadersOK, q
  <2> QED BY <2>5 DEF id
<1> HIDE DEF fs, failed, q
<1>5. /\ IsCall(n) /\ n.pc = p /\ n.req = q.req /\ n.attempt = q.attempt + 1
      /\ n.verify = fs /\ n.out = q.out /\ n.errs = q.errs
  BY <1>1 DEF IsCall
<1> HIDE DEF n
<1>6. n.attempt \in Nat /\ ToVerify(n) = ToVerify(q) /\ OutOK(n)
  BY <1>1, <1>5 DEF ToVerify, OutOK
<1>7. Fine(n)
  BY <1>1, <1>3, <1>4, <1>5, <1>6 DEF Fine, CallOK, Working, Loaded
<1> QED BY <1>3, <1>5, <1>7 DEF q

(* The verdicts: one per catalog, and none ACCEPTED or retired that did    *)
(* not pass.                                                               *)
LEMMA EncodeOK ==
  ASSUME NEW c \in Calls, Fine(call[c]), Encode(c)
  PROVE  \E s : Becomes(c, s) /\ Fine(s) /\ s.pc = "done"
<1> DEFINE q == call[c]
           failed == q.errs \cup q.verify
           results == Results(q.req, q.out, failed)
           status == IF q.fatal THEN "failed" ELSE "completed"
           s == [q EXCEPT !.pc = "done", !.errs = {}, !.verify = {}, !.attempt = 0,
                          !.fatal = FALSE, !.status = status, !.results = results]
<1>1. /\ IsCall(q) /\ q.pc = "encode" /\ OutOK(q)
      /\ \A it \in ToVerify(q) \ q.verify :
           Crawled(IdOf(q.req, it), q.out[IdOf(q.req, it)], env, listed)
  BY DEF Encode, Fine, CallOK, Loaded, Verified
<1>2. Becomes(c, s)
  BY DEF Encode, Becomes
<1> HIDE DEF q, results, status
<1>3. /\ IsCall(s) /\ s.pc = "done" /\ s.req = q.req /\ s.attempt = 0
      /\ s.out = q.out /\ s.results = results
  BY <1>1 DEF IsCall
<1> HIDE DEF s
<1> DEFINE rejected == RejectedIds(q.req, failed)
<1>4. ASSUME NEW id
      PROVE  /\ id \in rejected => Given(s, id) = {"REJECTED"}
             /\ id \in (CatalogIds(q.req) \cap DOMAIN q.out) \ rejected => Given(s, id) = {"ACCEPTED"}
             /\ id \in RetireOnly(q.req) \ rejected => Given(s, id) = {"RETIRED"}
             /\ "ACCEPTED" \in Given(s, id) =>
                  id \notin rejected /\ \E it \in CatalogItems(q.req) : IdOf(q.req, it) = id
             /\ "RETIRED" \in Given(s, id) =>
                  /\ id \notin rejected
                  /\ \E it \in RetireItems(q.req) : IdOf(q.req, it) = id /\ id \in RetireOnly(q.req)
  <2>1. NoId \notin DOMAIN q.out
    BY <1>1, PublisherAssumption DEF OutOK
  <2> HIDE DEF failed
  <2>2. Given(s, id) = GivenIn(Results(q.req, q.out, failed), id)
    BY <1>3 DEF Given, results
  <2> DEFINE given == GivenIn(Results(q.req, q.out, failed), id)
             rej == RejectedIds(q.req, failed)
  <2>3. /\ id \in rej => given = {"REJECTED"}
        /\ id \in (CatalogIds(q.req) \cap DOMAIN q.out) \ rej => given = {"ACCEPTED"}
        /\ id \in RetireOnly(q.req) \ rej => given = {"RETIRED"}
        /\ "ACCEPTED" \in given =>
             id \notin rej /\ \E it \in CatalogItems(q.req) : IdOf(q.req, it) = id
        /\ "RETIRED" \in given =>
             id \notin rej /\ \E it \in RetireItems(q.req) : IdOf(q.req, it) = id /\ id \in RetireOnly(q.req)
    BY <2>1, ResultsGive, Zenon
  <2>4. Given(s, id) = given /\ rejected = rej
    BY <2>2
  <2> HIDE DEF given, rej, rejected
  <2> QED BY <2>3, <2>4
<1>5. \A it \in failed : IdOf(q.req, it) \in rejected
  BY DEF RejectedIds
<1> HIDE DEF rejected, failed
<1>6. DecidedOnce(s)
  <2>1. SUFFICES ASSUME NEW id \in LoadIds(q.req)
                 PROVE  /\ \E v : Given(s, id) = {v}
                        /\ id \in CatalogIds(q.req) => "RETIRED" \notin Given(s, id)
    BY <1>3 DEF DecidedOnce
  <2>2. CASE id \in rejected
    <3>1. Given(s, id) = {"REJECTED"}
      BY <1>4, <2>2
    <3> QED BY <3>1
  <2>3. CASE id \in CatalogIds(q.req) /\ id \notin rejected
    <3>1. PICK it \in CatalogItems(q.req) : IdOf(q.req, it) = id
      BY <2>3, ItemFacts
    <3>2. it \in Submissions(q.req) /\ it \notin q.errs
      BY <1>5, <2>3, <3>1 DEF Submissions, failed
    <3>3. id \in DOMAIN q.out
      BY <1>1, <3>1, <3>2 DEF OutOK
    <3>4. Given(s, id) = {"ACCEPTED"}
      BY <1>4, <2>3, <3>3
    <3> QED BY <3>4
  <2>4. CASE id \notin CatalogIds(q.req) /\ id \notin rejected
    BY <1>4, <2>4 DEF LoadIds, RetireOnly
  <2> QED BY <2>2, <2>3, <2>4
<1>7. ASSUME NEW id \in Touched(s.out), Given(s, id) \cap {"ACCEPTED", "RETIRED"} # {}
      PROVE  Crawled(id, s.out[id], env, listed)
  <2>1. id \notin rejected /\ \E it \in Submissions(q.req) : IdOf(q.req, it) = id
    BY <1>4, <1>7 DEF Submissions
  <2>2. PICK it \in Submissions(q.req) : IdOf(q.req, it) = id
    BY <2>1
  <2>3. it \in ToVerify(q) \ q.verify
    BY <1>3, <1>5, <2>1, <2>2 DEF ToVerify, failed
  <2> QED BY <1>1, <1>3, <2>2, <2>3
<1>8. Fine(s)
  BY <1>3, <1>6, <1>7 DEF Fine, CallOK, Working, Loaded, Verified
<1> QED BY <1>2, <1>3, <1>8

-----------------------------------------------------------------------------
(* The store, when no two publishes overlap *)

IndexStored(i, fs) == \A id \in Catalogs : \A f \in Versioned(i[id]) : Stored(id, f, fs)

(* A call that writes has read the index there still is, and what it has   *)
(* not yet to write is written.                                            *)
WritingOK(r, i, fs) ==
  r.pc \in {"write", "merge"} =>
    /\ DOMAIN r.out \subseteq Catalogs /\ r.todo \subseteq Writes(r.out)
    /\ \A id \in DOMAIN r.out :
         /\ OutcomeOK(r.out[id], i[id])
         /\ \A f \in r.out[id].new :
              f.kind # "latest" => [id |-> id, ref |-> f] \in r.todo \/ Stored(id, f, fs)
    /\ r.pc = "merge" => r.todo = {} /\ r.view = i

(* Readers were shown no catalog that the index does not list.             *)
AllListed(sh, i) == \A x \in sh : i[x[1]] # NoEntry

(* One call at a time works, on the index there is; that index is served,  *)
(* or a lagging one, and readers were shown no catalog it does not list.   *)
SerialOK(en, calls, i, fs, srv, sh) ==
  en.serial =>
    /\ \A c, d \in Calls : calls[c].pc \in Working /\ calls[d].pc \in Working => c = d
    /\ IndexStored(i, fs)
    /\ ~en.lag => srv = i
    /\ AllListed(sh, i)
    /\ \A c \in Calls : WritingOK(calls[c], i, fs) /\ WrittenOK(calls[c], en.lag, i, fs, sh)

(* A path is that of one version of one file, or of the latest one.        *)
LEMMA PathsDiffer ==
  ASSUME NEW id, NEW f, NEW k, NEW g, f.kind # "latest", Path(id, f) = Path(k, g)
  PROVE  id = k /\ g.kind = f.kind /\ g.version = f.version
BY DEF Path

(* Put touches no version that the index refers to, and stores the one it  *)
(* is to store.                                                            *)
LEMMA PutStores ==
  ASSUME NEW r, NEW i, IndexOK(i), NEW fs, IndexStored(i, fs), WritingOK(r, i, fs), r.pc = "write",
         NEW w \in r.todo, NEW s, s.pc = "write", s.out = r.out, s.todo = r.todo \ {w}, NEW fs2,
         fs2 = [p \in DOMAIN fs \cup {Path(w.id, w.ref)} |->
                  IF p = Path(w.id, w.ref) THEN w.ref.digest ELSE fs[p]]
  PROVE  IndexStored(i, fs2) /\ WritingOK(s, i, fs2)
<1>1. PICK k \in DOMAIN r.out : \E g \in r.out[k].new : w = [id |-> k, ref |-> g]
  BY DEF WritingOK, Writes
<1>2. PICK g \in r.out[k].new : w = [id |-> k, ref |-> g]
  BY <1>1
<1>3. w.id = k /\ w.ref = g
  BY <1>2
<1>4. /\ DOMAIN r.out \subseteq Catalogs /\ OutcomeOK(r.out[k], i[k]) /\ k \in Catalogs
  BY DEF WritingOK
<1>5. g.kind # "latest" => g.version = i[k].version + 1
  BY <1>4 DEF OutcomeOK
<1>6. ASSUME NEW id, NEW f, Stored(id, f, fs), Path(id, f) # Path(k, g)
      PROVE  Stored(id, f, fs2)
  BY <1>3, <1>6 DEF Stored
<1>7. Stored(k, g, fs2)
  BY <1>3 DEF Stored
<1>8. IndexStored(i, fs2)
  <2>1. SUFFICES ASSUME NEW id \in Catalogs, NEW f \in Versioned(i[id]) PROVE Stored(id, f, fs2)
    BY DEF IndexStored
  <2>2. f.kind # "latest" /\ Stored(id, f, fs)
    BY DEF Versioned, IndexStored
  <2>3. f.version \in Nat /\ f.version <= i[id].version /\ i[id].version \in Nat
    BY DEF IndexOK, EntryOK, RefOK
  <2>4. Path(id, f) # Path(k, g)
    <3>1. SUFFICES ASSUME Path(id, f) = Path(k, g) PROVE FALSE
      OBVIOUS
    <3>2. id = k /\ g.kind = f.kind /\ g.version = f.version
      BY <2>2, <3>1, PathsDiffer
    <3>3. g.version = i[id].version + 1
      BY <1>5, <2>2, <3>2
    <3> QED BY <2>3, <3>2, <3>3
  <2> QED BY <1>6, <2>2, <2>4
<1>9. ASSUME NEW id \in DOMAIN r.out, NEW f \in r.out[id].new, f.kind # "latest",
             [id |-> id, ref |-> f] \notin s.todo
      PROVE  Stored(id, f, fs2)
  <2>1. CASE [id |-> id, ref |-> f] = w
    <3>1. id = k /\ f = g
      BY <1>2, <2>1
    <3> QED BY <1>7, <3>1
  <2>2. CASE [id |-> id, ref |-> f] # w
    <3>1. Stored(id, f, fs)
      BY <1>9, <2>2 DEF WritingOK
    <3>2. CASE Path(id, f) = Path(k, g)
      <4>1. id = k /\ g.kind # "latest"
        BY <1>9, <3>2, PathsDiffer
      <4>2. f = g
        BY <1>4, <1>9, <4>1 DEF OutcomeOK, NewOK
      <4> QED BY <1>7, <4>1, <4>2
    <3>3. CASE Path(id, f) # Path(k, g)
      BY <1>6, <3>1, <3>3
    <3> QED BY <3>2, <3>3
  <2> QED BY <2>1, <2>2
<1>10. s.todo \subseteq Writes(s.out) /\ \A id \in DOMAIN s.out : OutcomeOK(s.out[id], i[id])
  BY DEF WritingOK
<1> QED BY <1>4, <1>8, <1>9, <1>10 DEF WritingOK

(* The index that PutIndex writes refers to stored files.                  *)
LEMMA MergedStored ==
  ASSUME NEW r, NEW i, NEW fs, IndexStored(i, fs), WritingOK(r, i, fs), r.pc = "merge"
  PROVE  IndexStored(Merged(r), fs)
<1>1. SUFFICES ASSUME NEW id \in Catalogs, NEW f \in Versioned(Merged(r)[id])
               PROVE  Stored(id, f, fs)
  BY DEF IndexStored
<1>2. CASE id \in DOMAIN r.out
  <2>1. Merged(r)[id] = r.out[id].entry
    BY <1>2 DEF Merged
  <2>2. OutcomeOK(r.out[id], i[id]) /\ r.todo = {}
    BY <1>2 DEF WritingOK
  <2>3. f \in Versioned(i[id]) \/ f \in r.out[id].new
    BY <1>1, <2>1, <2>2 DEF OutcomeOK
  <2>4. f.kind # "latest"
    BY <1>1 DEF Versioned
  <2> QED BY <1>2, <2>2, <2>3, <2>4 DEF WritingOK, IndexStored
<1>3. CASE id \notin DOMAIN r.out
  <2>1. Merged(r)[id] = i[id]
    BY <1>3 DEF Merged, WritingOK
  <2> QED BY <1>1, <2>1 DEF IndexStored
<1> QED BY <1>2, <1>3

-----------------------------------------------------------------------------
(* The inductive invariant *)

(* The inductive invariant.                                                *)
PubInv ==
  /\ call = [c \in Calls |-> call[c]]
  /\ \A c \in Calls : CallOK(call[c], env, shown, listed)
  /\ ReadersOK
  /\ SerialOK(env, call, index, files, served, shown)

(* The calls that count as overlapping.                                    *)
LEMMA ActiveIsWorking ==
  ASSUME \A c \in Calls : CallOK(call[c], env, shown, listed)
  PROVE  Active = {c \in Calls : call[c].pc \in Working}
BY DEF Active, CallOK, Working

(* One call moves; the store, the index and the readers stay.              *)
LEMMA CallMoves ==
  ASSUME PubInv, NEW c \in Calls, UNCHANGED <<env, files, index, readers>>, NEW s,
         Becomes(c, s), Fine(s),
         env.serial => /\ call[c].pc \in Working \/ Active = {}
                       /\ WritingOK(s, index, files)
                       /\ WrittenOK(s, env.lag, index, files, shown)
  PROVE  PubInv'
<1>1. call' = [d \in Calls |-> IF d = c THEN s ELSE call[d]]
  BY DEF Becomes, PubInv
<1>2. env' = env /\ files' = files /\ index' = index /\ served' = served
      /\ shown' = shown /\ listed' = listed
  BY DEF readers
<1>3. \A d \in Calls : CallOK(call'[d], env, shown, listed)
  BY <1>1 DEF PubInv, Fine
<1>4. ReadersOK'
  BY <1>2 DEF PubInv, ReadersOK
<1>5. ASSUME env.serial PROVE SerialOK(env, call', index, files, served, shown)
  <2>1. \A d, e \in Calls : call'[d].pc \in Working /\ call'[e].pc \in Working => d = e
    <3>1. CASE call[c].pc \in Working
      BY <1>1, <1>5, <3>1 DEF PubInv, SerialOK
    <3>2. CASE Active = {}
      <4>1. \A d \in Calls : call[d].pc \notin Working
        BY <3>2, ActiveIsWorking DEF PubInv
      <4> QED BY <1>1, <4>1
    <3> QED BY <1>5, <3>1, <3>2
  <2>2. \A d \in Calls : /\ WritingOK(call'[d], index, files)
                         /\ WrittenOK(call'[d], env.lag, index, files, shown)
    BY <1>1, <1>5 DEF PubInv, SerialOK
  <2> QED BY <1>5, <2>1, <2>2 DEF PubInv, SerialOK
<1>6. SerialOK(env, call', index, files, served, shown)
  BY <1>5 DEF SerialOK
<1>7. call' = [d \in Calls |-> call'[d]]
  BY <1>1
<1> QED BY <1>2, <1>3, <1>4, <1>6, <1>7 DEF PubInv

(* What an index shows is one of its own versioned files.                  *)
LEMMA RefsOfIndex ==
  ASSUME NEW i, NEW x \in RefsOf(i)
  PROVE  x[1] \in Catalogs /\ x[2] \in Versioned(i[x[1]]) /\ i[x[1]] # NoEntry
<1>1. PICK id \in Catalogs : \E f \in Versioned(i[id]) : x = <<id, f>>
  BY DEF RefsOf
<1>2. PICK f \in Versioned(i[id]) : x = <<id, f>>
  BY <1>1
<1>3. Versioned(NoEntry) = {}
  BY DEF NoEntry, Versioned
<1> QED BY <1>2, <1>3

(* The readers are served an index that is in order.                       *)
LEMMA ServeOK ==
  ASSUME ReadersOK, NEW i, IndexOK(i), Serve(i), files' = files, IndexOK(index')
  PROVE  /\ ReadersOK' /\ served' = i /\ shown' = shown \cup RefsOf(i)
         /\ listed \subseteq listed'
<1>1. served' = i /\ shown' = shown \cup RefsOf(i) /\ listed' = listed \cup Fetchable(shown', files)
  BY DEF Serve
<1>2. ASSUME NEW x \in RefsOf(i) PROVE x[1] \in Catalogs /\ RefOK(x[2])
  <2>1. x[1] \in Catalogs /\ x[2] \in Versioned(i[x[1]])
    BY RefsOfIndex
  <2> QED BY <2>1 DEF IndexOK, EntryOK
<1>3. ShownOK(shown')
  BY <1>1, <1>2 DEF ReadersOK, ShownOK
<1>4. RefsOf(served') \subseteq shown' /\ Fetchable(shown', files') \subseteq listed'
  BY <1>1
<1> QED BY <1>1, <1>3, <1>4 DEF ReadersOK, IndexOK, ShownOK

(* The invariant holds at the start.                                       *)
LEMMA PubInit ==
  ASSUME Init
  PROVE  PubInv
<1>1. call = [c \in Calls |-> Idle] /\ shown = {} /\ listed = {} /\ files = <<>>
      /\ index = NoEntries /\ served = NoEntries
  BY DEF Init
<1>2. \A id \in Catalogs : NoEntries[id] = NoEntry
  BY DEF NoEntries
<1>3. EntryOK(NoEntry) /\ Versioned(NoEntry) = {}
  <2>1. NoEntry.version = 0 /\ NoEntry.entryVersion = 0 /\ NoEntry.files = {}
    BY DEF NoEntry
  <2> QED BY <2>1 DEF EntryOK, Versioned
<1>4. IndexOK(index) /\ RefsOf(served) = {} /\ IndexStored(index, files)
  BY <1>1, <1>2, <1>3 DEF IndexOK, RefsOf, IndexStored
<1>5. Fetchable(shown, files) = {} /\ ShownOK(shown)
  BY <1>1 DEF Fetchable, ShownOK
<1>6. ReadersOK
  BY <1>1, <1>4, <1>5 DEF ReadersOK
<1>7. \A c \in Calls : CallOK(call[c], env, shown, listed)
  BY <1>1, IdleFields DEF CallOK, Working, Loaded, Verified
<1>8. \A c \in Calls : call[c].pc = "idle"
  BY <1>1, IdleFields
<1>9. SerialOK(env, call, index, files, served, shown)
  BY <1>1, <1>4, <1>8 DEF SerialOK, AllListed, WritingOK, WrittenOK, Working
<1> QED BY <1>1, <1>6, <1>7, <1>9 DEF PubInv

(* The one call that works moves on while the index stays as it is.        *)
LEMMA Alone ==
  ASSUME PubInv, env.serial, NEW c \in Calls, call[c].pc \in Working
  PROVE  \A d \in Calls : d # c => call[d].pc \notin Working
BY DEF PubInv, SerialOK

(* A call that neither writes nor verifies has nothing at stake.           *)
LEMMA NotAtStake ==
  ASSUME NEW r, r.pc \notin Working, NEW lag, NEW i, NEW fs, NEW sh
  PROVE  WritingOK(r, i, fs) /\ WrittenOK(r, lag, i, fs, sh)
BY DEF WritingOK, WrittenOK, Working

(* A write keeps the invariant, and what the index refers to.              *)
LEMMA PubPut ==
  ASSUME PubInv, NEW c \in Calls, Put(c)
  PROVE  PubInv' /\ (env.serial => IndexStored(index, files'))
<1>1. Fine(call[c]) /\ call[c].pc = "write"
  BY DEF PubInv, Fine, Put
<1>2. PICK w \in call[c].todo : \E s :
           /\ Becomes(c, s) /\ Fine(s) /\ s.pc = "write"
           /\ s.out = call[c].out /\ s.todo = call[c].todo \ {w}
           /\ files' = [p \in DOMAIN files \cup {Path(w.id, w.ref)} |->
                          IF p = Path(w.id, w.ref) THEN w.ref.digest ELSE files[p]]
  BY <1>1, PutOK
<1>3. PICK s :
           /\ Becomes(c, s) /\ Fine(s) /\ s.pc = "write"
           /\ s.out = call[c].out /\ s.todo = call[c].todo \ {w}
           /\ files' = [p \in DOMAIN files \cup {Path(w.id, w.ref)} |->
                          IF p = Path(w.id, w.ref) THEN w.ref.digest ELSE files[p]]
  BY <1>2
<1>4. env' = env /\ index' = index /\ served' = served /\ shown' = shown
      /\ listed' = listed \cup Fetchable(shown, files')
  BY DEF Put
<1>5. call' = [d \in Calls |-> IF d = c THEN s ELSE call[d]]
  BY <1>3 DEF Becomes, PubInv
<1>6. ASSUME NEW d \in Calls PROVE CallOK(call'[d], env, shown, listed')
  <2>1. CallOK(call'[d], env, shown, listed)
    BY <1>3, <1>5 DEF PubInv, Fine
  <2> QED BY <1>4, <2>1, CallGrows
<1>7. ReadersOK'
  BY <1>4 DEF PubInv, ReadersOK
<1>8. ASSUME env.serial
      PROVE  SerialOK(env, call', index, files', served, shown) /\ IndexStored(index, files')
  <2>1. IndexStored(index, files) /\ WritingOK(call[c], index, files) /\ IndexOK(index)
    BY <1>8 DEF PubInv, SerialOK, ReadersOK
  <2>2. IndexStored(index, files') /\ WritingOK(s, index, files')
    BY <1>1, <1>3, <2>1, PutStores
  <2>3. \A d \in Calls : d # c => call[d].pc \notin Working
    BY <1>1, <1>8, Alone DEF Working
  <2>4. WrittenOK(s, env.lag, index, files', shown)
    BY <1>3 DEF WrittenOK
  <2>5. \A d \in Calls : /\ WritingOK(call'[d], index, files')
                         /\ WrittenOK(call'[d], env.lag, index, files', shown)
    BY <1>5, <2>2, <2>3, <2>4, NotAtStake
  <2>6. \A d, e \in Calls : call'[d].pc \in Working /\ call'[e].pc \in Working => d = e
    BY <1>5, <2>3
  <2> QED BY <1>8, <2>2, <2>5, <2>6 DEF PubInv, SerialOK
<1>9. SerialOK(env, call', index, files', served, shown)
  BY <1>8 DEF SerialOK
<1>10. call' = [d \in Calls |-> call'[d]]
  BY <1>5
<1> QED BY <1>4, <1>6, <1>7, <1>8, <1>9, <1>10 DEF PubInv

(* The index a call has just written is its own, and shows readers nothing *)
(* else of a new catalog.                                                  *)
LEMMA PutIndexWritten ==
  ASSUME NEW r, r.pc = "merge", NEW i, NEW fs, NEW sh, WritingOK(r, i, fs), IndexOK(i),
         AllListed(sh, i), NEW s, s.pc \in {"verify", "encode"}, s.out = r.out, NEW lag,
         NEW sh2, sh2 \subseteq sh \cup RefsOf(Merged(r)), ShownOK(sh2)
  PROVE  /\ AllListed(sh2, Merged(r))
         /\ WrittenOK(s, lag, Merged(r), fs, sh2)
<1> DEFINE m == Merged(r)
<1>1. /\ DOMAIN r.out \subseteq Catalogs /\ r.todo = {} /\ r.view = i
      /\ \A id \in DOMAIN r.out : OutcomeOK(r.out[id], i[id])
      /\ \A id \in DOMAIN r.out : \A f \in r.out[id].new :
           f.kind # "latest" => Stored(id, f, fs)
  BY DEF WritingOK
<1>2. \A id \in Catalogs : m[id] = IF id \in DOMAIN r.out THEN r.out[id].entry ELSE i[id]
  BY <1>1 DEF Merged
<1>3. \A id \in DOMAIN r.out : r.out[id].entry # NoEntry
  BY <1>1 DEF OutcomeOK
<1>4. \A x \in RefsOf(m) : x[1] \in Catalogs /\ x[2] \in Versioned(m[x[1]]) /\ m[x[1]] # NoEntry
  BY RefsOfIndex
<1> HIDE DEF m
<1>5. AllListed(sh2, m)
  BY <1>2, <1>3, <1>4 DEF m, AllListed, ShownOK
<1>6. ASSUME NEW id \in Touched(r.out), r.out[id].entry.entryVersion = 1,
             NEW x \in sh2, x[1] = id
      PROVE  x[2] \in r.out[id].entry.files
  <2>1. id \in DOMAIN r.out /\ id \in Catalogs /\ r.out[id].mode # "unchanged"
    BY <1>1 DEF Touched
  <2>2. i[id].entryVersion \in Nat /\ r.out[id].entry.entryVersion = i[id].entryVersion + 1
    BY <1>1, <2>1 DEF OutcomeOK, IndexOK, EntryOK
  <2>3. i[id].entryVersion = 0
    BY <1>6, <2>2
  <2>4. i[id] = NoEntry
    BY <2>1, <2>3 DEF IndexOK, EntryOK
  <2>5. x \in RefsOf(m)
    BY <1>6, <2>4 DEF m, AllListed
  <2>6. x[2] \in Versioned(r.out[id].entry)
    BY <1>2, <1>4, <1>6, <2>1, <2>5
  <2> QED BY <2>6 DEF Versioned
<1>7. WrittenOK(s, lag, m, fs, sh2)
  BY <1>1, <1>2, <1>6 DEF WrittenOK
<1> QED BY <1>5, <1>7 DEF m

(* So does the write of the index.                                         *)
LEMMA PubPutIndex ==
  ASSUME PubInv, NEW c \in Calls, PutIndex(c)
  PROVE  PubInv'
<1> DEFINE i == Merged(call[c])
<1>1. Fine(call[c]) /\ call[c].pc = "merge"
  BY DEF PubInv, Fine, PutIndex
<1>2. PICK s : Becomes(c, s) /\ Fine(s) /\ s.pc \in {"verify", "encode"} /\ s.out = call[c].out
  BY <1>1, PutIndexOK
<1>3. env' = env /\ files' = files /\ index' = i
  BY DEF PutIndex
<1>4. call' = [d \in Calls |-> IF d = c THEN s ELSE call[d]]
  BY <1>2 DEF Becomes, PubInv
<1>5. IndexOK(i)
  <2>1. IndexOK(call[c].view) /\ OutOK(call[c])
    BY <1>1 DEF Fine, CallOK, Loaded
  <2> QED BY <2>1 DEF IndexOK, OutOK, Merged
<1>6. /\ ReadersOK' /\ listed \subseteq listed'
      /\ \/ env.lag /\ served' = served /\ shown' = shown
         \/ served' = i /\ shown' = shown \cup RefsOf(i)
  <2>1. CASE env.lag
    <3>1. served' = served /\ shown' = shown /\ listed' = listed
      BY <2>1 DEF PutIndex, readers
    <3> HIDE DEF i
    <3> QED BY <1>3, <1>5, <2>1, <3>1 DEF PubInv, ReadersOK, IndexOK
  <2>2. CASE ~env.lag
    <3>1. Serve(i)
      BY <2>2 DEF PutIndex
    <3> HIDE DEF i
    <3> QED BY <1>3, <1>5, <3>1, ServeOK DEF PubInv
  <2> QED BY <2>1, <2>2
<1>7. ASSUME NEW d \in Calls PROVE CallOK(call'[d], env, shown', listed')
  <2>1. CallOK(call'[d], env, shown, listed)
    BY <1>2, <1>4 DEF PubInv, Fine
  <2>2. shown \subseteq shown' /\ listed \subseteq listed'
    BY <1>6
  <2> QED BY <2>1, <2>2, CallGrows
<1>8. ASSUME env.serial PROVE SerialOK(env, call', i, files, served', shown')
  <2>1. /\ IndexStored(index, files) /\ WritingOK(call[c], index, files) /\ IndexOK(index)
        /\ AllListed(shown, index)
    BY <1>8 DEF PubInv, SerialOK, ReadersOK
  <2>2. IndexStored(i, files)
    BY <1>1, <2>1, MergedStored
  <2>3. \A d \in Calls : d # c => call[d].pc \notin Working
    BY <1>1, <1>8, Alone DEF Working
  <2>4. shown' \subseteq shown \cup RefsOf(i) /\ ShownOK(shown')
    <3>1. shown' \subseteq shown \cup RefsOf(i)
      BY <1>6
    <3> QED BY <1>6, <3>1 DEF ReadersOK, ShownOK
  <2>5. AllListed(shown', i) /\ WrittenOK(s, env.lag, i, files, shown')
    BY <1>1, <1>2, <2>1, <2>4, PutIndexWritten
  <2> HIDE DEF i
  <2>6. WritingOK(s, i, files)
    BY <1>2 DEF WritingOK
  <2>7. \A d \in Calls : /\ WritingOK(call'[d], i, files)
                         /\ WrittenOK(call'[d], env.lag, i, files, shown')
    BY <1>4, <2>3, <2>5, <2>6, NotAtStake
  <2>8. \A d, e \in Calls : call'[d].pc \in Working /\ call'[e].pc \in Working => d = e
    BY <1>4, <2>3
  <2>9. ~env.lag => served' = i
    BY <1>6
  <2> QED BY <2>2, <2>5, <2>7, <2>8, <2>9 DEF SerialOK
<1> HIDE DEF i
<1>9. SerialOK(env, call', i, files, served', shown')
  BY <1>8 DEF SerialOK
<1>10. call' = [d \in Calls |-> call'[d]]
  BY <1>4
<1> QED BY <1>3, <1>6, <1>7, <1>9, <1>10 DEF PubInv

(* So does the CDN when it catches up.                                     *)
LEMMA PubPropagate ==
  ASSUME PubInv, Propagate
  PROVE  PubInv'
<1>1. Serve(index) /\ env' = env /\ files' = files /\ index' = index /\ call' = call
  BY DEF Propagate
<1>2. ReadersOK' /\ served' = index /\ shown' = shown \cup RefsOf(index) /\ listed \subseteq listed'
  BY <1>1, ServeOK DEF PubInv, ReadersOK
<1>3. ASSUME NEW d \in Calls PROVE CallOK(call[d], env, shown', listed')
  BY <1>2, CallGrows DEF PubInv
<1>4. \A x \in RefsOf(index) : x[2] \in Versioned(index[x[1]]) /\ index[x[1]] # NoEntry
  BY RefsOfIndex
<1>5. ASSUME env.serial PROVE SerialOK(env, call, index, files, served', shown')
  <2>1. SerialOK(env, call, index, files, served, shown)
    BY DEF PubInv
  <2>2. ASSUME NEW d \in Calls PROVE WrittenOK(call[d], env.lag, index, files, shown')
    <3>1. WrittenOK(call[d], env.lag, index, files, shown)
      BY <1>5, <2>1 DEF SerialOK
    <3>2. ASSUME call[d].pc \in {"verify", "files"}, NEW id \in Touched(call[d].out),
                 call[d].out[id].entry.entryVersion = 1, NEW x \in shown', x[1] = id
          PROVE  x[2] \in call[d].out[id].entry.files
      <4>1. CASE x \in shown
        BY <3>1, <3>2, <4>1 DEF WrittenOK
      <4>2. CASE x \in RefsOf(index)
        <5>1. x[2] \in Versioned(index[id]) /\ index[id] = call[d].out[id].entry
          BY <1>4, <3>1, <3>2, <4>2 DEF WrittenOK, Touched
        <5> QED BY <5>1 DEF Versioned
      <4> QED BY <1>2, <3>2, <4>1, <4>2
    <3> QED BY <3>1, <3>2 DEF WrittenOK
  <2>3. AllListed(shown', index)
    BY <1>2, <1>4, <1>5, <2>1 DEF SerialOK, AllListed
  <2> QED BY <1>2, <1>5, <2>1, <2>2, <2>3 DEF SerialOK
<1>6. SerialOK(env, call, index, files, served', shown')
  BY <1>5 DEF SerialOK
<1> QED BY <1>1, <1>2, <1>3, <1>6 DEF PubInv

(* So does a crash: whatever was written is still there.                   *)
LEMMA PubCrash ==
  ASSUME PubInv, Crash
  PROVE  PubInv'
<1> DEFINE l == [Idle EXCEPT !.pc = "lost"]
<1>1. call' = [c \in Calls |-> IF c \in Active THEN l ELSE call[c]]
      /\ UNCHANGED <<env, files, index, readers>>
  BY DEF Crash
<1>2. env' = env /\ files' = files /\ index' = index /\ served' = served
      /\ shown' = shown /\ listed' = listed
  BY <1>1 DEF readers
<1>3. CallOK(l, env, shown, listed) /\ l.pc = "lost"
  BY LostOK
<1> HIDE DEF l
<1>4. \A d \in Calls : CallOK(call'[d], env, shown, listed)
  BY <1>1, <1>3 DEF PubInv
<1>5. \A d \in Calls : call'[d].pc \notin Working
  BY <1>1, <1>3, ActiveIsWorking DEF PubInv, Working
<1>6. SerialOK(env, call', index, files, served, shown)
  BY <1>5, NotAtStake DEF PubInv, SerialOK
<1>7. ReadersOK'
  BY <1>2 DEF PubInv, ReadersOK
<1>8. call' = [d \in Calls |-> call'[d]]
  BY <1>1
<1> QED BY <1>2, <1>4, <1>6, <1>7, <1>8 DEF PubInv

(* So does every action that writes nothing.                               *)
LEMMA PubQuiet ==
  ASSUME PubInv, NEW c \in Calls,
         \/ \E r \in Requests : Decode(c, r)
         \/ \E unsigned \in SUBSET Catalogs : Load(c, unsigned)
         \/ KeysetFails(c) \/ GetIndex(c) \/ StoreFails(c) \/ FetchIndex(c)
         \/ FetchIndexFails(c) \/ Verify(c) \/ SleepDone(c) \/ Encode(c)
  PROVE  PubInv' /\ UNCHANGED <<env, files, index>>
<1>1. UNCHANGED <<env, files, index, readers>>
  BY DEF Decode, KeysetFails, Load, GetIndex, StoreFails, FetchIndex, FetchIndexFails,
         SleepDone, Encode, Verify
<1>2. Fine(call[c]) /\ ReadersOK
  BY DEF PubInv, Fine
<1>3. ASSUME NEW s
      PROVE  /\ s.pc \notin {"write", "merge"} => WritingOK(s, index, files)
             /\ s.pc \notin {"verify", "files"} => WrittenOK(s, env.lag, index, files, shown)
  BY DEF WritingOK, WrittenOK
<1>4. env.serial => /\ WritingOK(call[c], index, files)
                    /\ WrittenOK(call[c], env.lag, index, files, shown)
                    /\ (~env.lag => served = index)
  BY DEF PubInv, SerialOK
<1>5. CASE \E r \in Requests : Decode(c, r)
  <2>1. PICK r \in Requests : Decode(c, r)
    BY <1>5
  <2>2. PICK s : Becomes(c, s) /\ Fine(s) /\ s.pc \in {"execute", "done"}
    BY <1>2, <2>1, DecodeOK
  <2>3. env.serial => Active = {}
    BY <2>1 DEF Decode
  <2> QED BY <1>1, <1>3, <2>2, <2>3, CallMoves
<1>6. CASE \E unsigned \in SUBSET Catalogs : Load(c, unsigned)
  <2>1. PICK unsigned : Load(c, unsigned)
    BY <1>6
  <2>2. PICK s : /\ Becomes(c, s) /\ Fine(s) /\ s.pc = "write"
                 /\ DOMAIN s.out \subseteq Catalogs /\ s.todo = Writes(s.out)
                 /\ \A id \in DOMAIN s.out : OutcomeOK(s.out[id], index[id])
    BY <1>2, <2>1, LoadOK
  <2>3. WritingOK(s, index, files)
    BY <2>2 DEF WritingOK, Writes
  <2>4. call[c].pc \in Working
    BY <2>1 DEF Load, Working
  <2> QED BY <1>1, <1>3, <2>2, <2>3, <2>4, CallMoves
<1>7. CASE GetIndex(c)
  <2>1. PICK s : /\ Becomes(c, s) /\ Fine(s) /\ s.pc = "merge"
                 /\ s.out = call[c].out /\ s.todo = call[c].todo /\ s.view = index
    BY <1>2, <1>7, GetIndexOK
  <2>2. call[c].pc = "write" /\ call[c].todo = {}
    BY <1>7 DEF GetIndex
  <2>3. env.serial => WritingOK(s, index, files)
    BY <1>4, <2>1, <2>2 DEF WritingOK
  <2> QED BY <1>1, <1>3, <2>1, <2>2, <2>3, CallMoves DEF Working
<1>8. CASE KeysetFails(c) \/ StoreFails(c) \/ SleepDone(c) \/ Encode(c)
  <2>1. call[c].pc \in Working
    BY <1>8 DEF KeysetFails, StoreFails, SleepDone, Encode, Working
  <2>2. \E s : Becomes(c, s) /\ Fine(s) /\ s.pc \in {"done", "encode"}
    BY <1>2, <1>8, FailsOK, SleepDoneOK, EncodeOK
  <2> QED BY <1>1, <1>3, <2>1, <2>2, CallMoves
<1>9. CASE FetchIndex(c) \/ FetchIndexFails(c) \/ Verify(c)
  <2>1. call[c].pc \in {"verify", "files"} /\ call[c].pc \in Working
    BY <1>9 DEF FetchIndex, FetchIndexFails, Verify, Working
  <2>2. \E s : /\ Becomes(c, s) /\ Fine(s) /\ s.pc \in {"verify", "files", "encode"}
               /\ s.out = call[c].out /\ (s.pc = "files" => s.view \in {NoEntries, served})
    <3>1. CASE FetchIndex(c)
      BY <1>2, <3>1, FetchIndexOK
    <3>2. CASE FetchIndexFails(c)
      BY <1>2, <3>2, FetchIndexFailsOK
    <3>3. CASE Verify(c)
      BY <1>2, <1>4, <3>3, VerifyOK
    <3> QED BY <1>9, <3>1, <3>2, <3>3
  <2>3. PICK s : /\ Becomes(c, s) /\ Fine(s) /\ s.pc \in {"verify", "files", "encode"}
                 /\ s.out = call[c].out /\ (s.pc = "files" => s.view \in {NoEntries, served})
    BY <2>2
  <2>4. env.serial => WrittenOK(s, env.lag, index, files, shown)
    BY <1>4, <2>1, <2>3 DEF WrittenOK
  <2> QED BY <1>1, <1>3, <2>1, <2>3, <2>4, CallMoves
<1> QED BY <1>1, <1>5, <1>6, <1>7, <1>8, <1>9

(* Every step keeps the invariant, and the files the index refers to.      *)
LEMMA PubStep ==
  ASSUME PubInv, [Next]_vars
  PROVE  PubInv' /\ (env.serial => IndexStored(index, files'))
<1>1. env.serial => IndexStored(index, files)
  BY DEF PubInv, SerialOK
<1>2. CASE UNCHANGED vars
  <2>1. env' = env /\ files' = files /\ index' = index /\ served' = served
        /\ shown' = shown /\ listed' = listed /\ call' = call
    BY <1>2 DEF vars
  <2> QED BY <1>1, <2>1 DEF PubInv, ReadersOK
<1>3. CASE Propagate
  BY <1>1, <1>3, PubPropagate DEF Propagate
<1>4. CASE Crash
  BY <1>1, <1>4, PubCrash DEF Crash
<1>5. ASSUME NEW c \in Calls, Step(c) PROVE PubInv' /\ (env.serial => IndexStored(index, files'))
  <2>1. CASE Put(c)
    BY <2>1, PubPut
  <2>2. CASE PutIndex(c)
    BY <1>1, <2>2, PubPutIndex DEF PutIndex
  <2>3. CASE ~Put(c) /\ ~PutIndex(c)
    <3>1. \/ \E r \in Requests : Decode(c, r)
          \/ \E unsigned \in SUBSET Catalogs : Load(c, unsigned)
          \/ KeysetFails(c) \/ GetIndex(c) \/ StoreFails(c) \/ FetchIndex(c)
          \/ FetchIndexFails(c) \/ Verify(c) \/ SleepDone(c) \/ Encode(c)
      BY <1>5, <2>3 DEF Step
    <3> QED BY <1>1, <3>1, PubQuiet
  <2> QED BY <2>1, <2>2, <2>3
<1> QED BY <1>2, <1>3, <1>4, <1>5 DEF Next

(* The invariant always holds.                                             *)
LEMMA PubInductive == Spec => []PubInv
<1>1. Init => PubInv
  BY PubInit
<1>2. PubInv /\ [Next]_vars => PubInv'
  BY PubStep
<1> QED BY <1>1, <1>2, PTL DEF Spec

(* A publish that reports results gives every catalog of the request       *)
(* exactly one verdict, and does not report one that is also submitted as  *)
(* retired (handler.go encode): for every request that decodes, one that   *)
(* names a catalog twice included, whichever entries cannot be signed and  *)
(* however many publishes overlap.                                         *)
THEOREM PublishOneVerdict == Spec => []OneVerdict
<1>1. PubInv => OneVerdict
  <2>1. SUFFICES ASSUME PubInv, NEW c \in Calls, Reported(c), NEW id \in LoadIds(call[c].req)
                 PROVE  /\ Cardinality(Verdicts(c, id)) = 1
                        /\ id \in CatalogIds(call[c].req) => "RETIRED" \notin Verdicts(c, id)
    BY DEF OneVerdict
  <2>2. Verdicts(c, id) = Given(call[c], id)
    BY DEF Verdicts, Given, GivenIn
  <2>3. DecidedOnce(call[c])
    BY <2>1 DEF PubInv, CallOK, Reported
  <2>4. PICK v : Verdicts(c, id) = {v}
    BY <2>1, <2>2, <2>3 DEF DecidedOnce
  <2>5. Cardinality({v}) = 1
    BY FS_Singleton
  <2> QED BY <2>1, <2>2, <2>3, <2>4, <2>5 DEF DecidedOnce
<1> QED BY <1>1, PubInductive, PTL

(* What a publish confirms was verified under the registered key; when     *)
(* publishes do not overlap, and the index verified cannot be an older     *)
(* one, a reader could fetch the very file, with the very content, that it *)
(* wrote (verify.go verifyPublished): for every number of publishes and    *)
(* catalogs, wherever earlier ones died.  When publishes overlap, a file   *)
(* of its kind, and for a change of its version, could be fetched.         *)
THEOREM PublishAcceptedIsCrawlable == Spec => []AcceptedIsCrawlable
<1>1. PubInv => AcceptedIsCrawlable
  <2>1. SUFFICES ASSUME PubInv, NEW c \in Calls, NEW id \in Catalogs, Confirms(c, id)
                 PROVE  LET o == call[c].out[id] IN
                        /\ env.registered
                        /\ env.serial /\ OwnIndex(o, env.lag) => Crawlable(id, o)
                        /\ \A f \in o.new : f.kind # "latest" =>
                             \E x \in listed : /\ x[1] = id /\ x[2].kind = f.kind
                                               /\ f.kind = "change" => x[2].version = f.version
    BY DEF AcceptedIsCrawlable
  <2>2. Verdicts(c, id) = Given(call[c], id)
    BY DEF Verdicts, Given, GivenIn
  <2>3. Crawled(id, call[c].out[id], env, listed) /\ call[c].out[id].mode # "unchanged"
    BY <2>1, <2>2 DEF PubInv, CallOK, Confirms, Reported, Touched
  <2> QED BY <2>3 DEF Crawled, Crawlable
<1> QED BY <1>1, PubInductive, PTL

(* When publishes do not overlap, no version the index refers to is ever   *)
(* overwritten or lost (catalogpublisher.go Publish,                       *)
(* localcatalogblobstore.go Put), wherever a publish before it died.       *)
THEOREM PublishVersionsImmutable == Spec => VersionsImmutable
<1>1. PubInv /\ [Next]_vars =>
        [env.serial =>
           \A id \in Catalogs : \A f \in Versioned(index[id]) :
             /\ Path(id, f) \in DOMAIN files'
             /\ files'[Path(id, f)] = f.digest]_vars
  BY PubStep DEF IndexStored, Stored
<1> QED BY <1>1, PubInductive, PTL DEF Spec, VersionsImmutable
=============================================================================
