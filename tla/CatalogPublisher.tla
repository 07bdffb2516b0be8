-------------------------- MODULE CatalogPublisher --------------------------
(***************************************************************************)
(* The catalog/publish endpoint: the generic EndpointHandler, the          *)
(* catalogpublisher plugin behind it and the blob store it writes to.  A   *)
(* call decodes its request, loads the catalogs' prior state, lets         *)
(* catalog-core compute versions and signed entries, writes the files and  *)
(* then the index, fetches both back through the public URL and reports    *)
(* one verdict per catalog.  Two calls share the store, the process may    *)
(* die between any two writes, and what is served may lag the store.       *)
(*                                                                         *)
(* A file's digest is its content: of a baseline the catalog, of a change  *)
(* the catalogs it leads from and to.  catalog-core (diff, store, fetcher) *)
(* is not part of the repository: it is modelled from its use.             *)
(***************************************************************************)
EXTENDS Naturals, Sequences, SequencesExt, FiniteSets

CONSTANTS Calls,     \* publish requests
          Catalogs,  \* catalog ids
          Contents,  \* valid contents of a catalog
          Invalid,   \* a content Publish's own validation refuses
          NoId,      \* the empty catalog id
          None,      \* no value
          Requests,  \* bodies a client may send
          Compacts(_), \* whether these files reach a compaction threshold
          MaxOverlap \* bound: publishes when they may overlap

VerifyRetryAttempts == 3   \* verifyRetryAttempts

VARIABLES env,     \* how this behaviour is deployed
          files,   \* the blob store's files: path -> content
          index,   \* the index document in the store
          served,  \* the index as readers get it
          call,    \* call[c]: how far call c is, and what it knows
          shown,   \* ghost: every versioned file that a served index referred to
          listed   \* ghost: those of them that could be fetched and verified

vars == <<env, files, index, served, call, shown, listed>>

readers == <<served, shown, listed>>

Env == [serial : BOOLEAN,      \* the operator never overlaps two publishes
        lag : BOOLEAN,         \* a CDN serves the index, possibly an older one
        registered : BOOLEAN]  \* the registry knows the signing key

-----------------------------------------------------------------------------
(* DecodeRequest and validatePublishRequest.                               *)

CatalogIds(r) == {r.catalogs[i].id : i \in DOMAIN r.catalogs} \ {NoId}

UniqueIds(s) == \A i, j \in DOMAIN s : s[i].id = s[j].id /\ s[i].id # NoId => i = j

DirectiveOk(r, d) ==
  d.id # NoId => /\ d.id \in CatalogIds(r)
                 /\ d.updateMode \in {"", "MERGE"}
                 /\ d.resourcesKnown /\ d.schemaTypesValid

ValidPublishRequest(r) ==
  /\ r.catalogs # <<>> \/ r.retire # <<>>
  /\ UniqueIds(r.catalogs)
  /\ UniqueIds(r.directives)
  /\ \A d \in ToSet(r.directives) : DirectiveOk(r, d)

(* The handler's own checks run on requests that carry catalogs.           *)
Decodes(r) ==
  /\ r.post /\ ValidPublishRequest(r)
  /\ r.catalogs # <<>> => r.conforms

Forced(r, id) == \E d \in ToSet(r.directives) : d.id = id /\ d.forceBaseline

RetireOnly(r) == ToSet(r.retire) \ CatalogIds(r)

(* The items of a request; the retire list may name a catalog twice.       *)
Item(list, i) == <<list, i>>
CatalogItems(r) == {Item("catalog", i) : i \in DOMAIN r.catalogs}
RetireItems(r) == {Item("retire", i) : i \in DOMAIN r.retire}

IdOf(r, it) == IF it[1] = "catalog" THEN r.catalogs[it[2]].id ELSE r.retire[it[2]]

(* What catalog-core is given: the catalogs, and a synthetic submission    *)
(* for every item of the retire list that is not among them.               *)
Submissions(r) == CatalogItems(r) \cup {it \in RetireItems(r) : IdOf(r, it) \in RetireOnly(r)}

(* Fault: a forced baseline needs no diff, so its prior state is not read. *)
LoadIdsUnforced(r) == {id \in CatalogIds(r) : ~Forced(r, id)} \cup ToSet(r.retire)

LoadIds(r) == CatalogIds(r) \cup ToSet(r.retire)

ASSUME PublisherAssumption ==
  /\ NoId \notin Catalogs /\ Invalid \notin Contents /\ MaxOverlap \in Nat
  /\ \A r \in Requests : LoadIds(r) \subseteq Catalogs \cup {NoId}

-----------------------------------------------------------------------------
(* catalog-core: what a publish makes of one catalog's prior entry.        *)

Ref(kind, v, c) == [kind |-> kind, version |-> v, digest |-> c]
Path(id, ref) == <<id, ref.kind, IF ref.kind = "latest" THEN 0 ELSE ref.version>>

(* No entry of a catalog.  The version is that of the files, of which a    *)
(* tombstone has none; the entry version counts every change of an entry.  *)
NoEntry == [version |-> 0, entryVersion |-> 0, retired |-> FALSE,
            content |-> None, meta |-> None, files |-> {}]

Versioned(e) == {f \in e.files : f.kind # "latest"}

(* The entry that takes the place of e.                                    *)
Entry(e, v, retired, content, meta, refs) ==
  [version |-> v, entryVersion |-> e.entryVersion + 1, retired |-> retired,
   content |-> content, meta |-> meta, files |-> refs]

Outcome(mode, entry, new) == [mode |-> mode, entry |-> entry, new |-> new]

(* The four modes of a submission; the latest file is regenerated on every *)
(* call.                                                                   *)
Baseline(content, meta, e) ==
  LET v == e.version + 1
      new == {Ref("baseline", v, content), Ref("latest", 0, content)}
      changes == {f \in Versioned(e) : f.kind = "change"}
  IN Outcome("baseline", Entry(e, v, FALSE, content, meta, changes \cup new), new)

Change(content, meta, e) ==
  LET v == e.version + 1
      new == {Ref("change", v, <<e.content, content>>), Ref("latest", 0, content)}
  IN Outcome("change", Entry(e, v, FALSE, content, meta, Versioned(e) \cup new), new)

Metadata(content, meta, e) ==
  LET new == {Ref("latest", 0, content)} IN
  Outcome("metadata", Entry(e, e.version, FALSE, content, meta, Versioned(e) \cup new), new)

(* Diff of a submission, and compaction in place of one more change file.  *)
PublishOne(content, meta, force, e) ==
  IF e = NoEntry \/ e.retired \/ force THEN Baseline(content, meta, e)
  ELSE IF e.content # content
  THEN IF Compacts(Versioned(e)) THEN Baseline(content, meta, e) ELSE Change(content, meta, e)
  ELSE IF e.meta # meta THEN Metadata(content, meta, e)
  ELSE Outcome("unchanged", e, {Ref("latest", 0, content)})

RetireOne(e) ==
  LET new == {Ref("latest", 0, None)} IN
  Outcome("retire", Entry(e, 0, TRUE, None, e.meta, new), new)

Submission(r, id) == CHOOSE s \in ToSet(r.catalogs) : s.id = id

(* One submission is refused: its id or content is not valid, there is     *)
(* nothing to retire, or its entry cannot be signed.                       *)
Refused(r, it, prior, unsigned) ==
  \/ IdOf(r, it) \in unsigned
  \/ it[1] = "catalog" /\ (IdOf(r, it) = NoId \/ r.catalogs[it[2]].content \notin Contents)
  \/ it[1] = "retire" /\ prior[IdOf(r, it)] = NoEntry

PublishErrors(r, prior, unsigned) == {it \in Submissions(r) : Refused(r, it, prior, unsigned)}

(* What is to be written, per catalog id.                                  *)
Outcomes(r, prior, unsigned) ==
  [id \in {IdOf(r, it) : it \in Submissions(r) \ PublishErrors(r, prior, unsigned)} |->
     IF id \in CatalogIds(r)
     THEN PublishOne(Submission(r, id).content, Submission(r, id).meta, Forced(r, id), prior[id])
     ELSE RetireOne(prior[id])]

Touched(out) == {id \in DOMAIN out : out[id].mode # "unchanged"}

Writes(out) == UNION {{[id |-> id, ref |-> f] : f \in out[id].new} : id \in DOMAIN out}

-----------------------------------------------------------------------------
Idle == [pc |-> "idle", req |-> None, out |-> <<>>, errs |-> {}, fatal |-> FALSE,
         todo |-> {}, view |-> None, verify |-> {}, attempt |-> 0, status |-> "none", results |-> {}]

Done(c, status) == call' = [call EXCEPT ![c] = [Idle EXCEPT !.pc = "done", !.status = status]]

Active == {c \in Calls : call[c].pc \notin {"idle", "done", "lost"}}

NoEntries == [id \in Catalogs |-> NoEntry]

Init ==
  /\ env \in Env
  /\ files = <<>>
  /\ index = NoEntries /\ served = index
  /\ call = [c \in Calls |-> Idle]
  /\ shown = {} /\ listed = {}

(* ServeHTTP: a request that does not decode is answered 400 or 405.       *)
Decode(c, r) ==
  /\ call[c].pc = "idle" /\ (env.serial => Active = {})
  /\ env.serial \/ Cardinality({d \in Calls : call[d].pc # "idle"}) < MaxOverlap
  /\ IF Decodes(r) THEN call' = [call EXCEPT ![c] = [@ EXCEPT !.pc = "execute", !.req = r]]
     ELSE Done(c, "refused")
  /\ UNCHANGED <<env, files, index, readers>>

(* The keyset cannot be loaded or decoded: a FAILED body, nothing written. *)
KeysetFails(c) ==
  /\ call[c].pc = "execute"
  /\ Done(c, "failed")
  /\ UNCHANGED <<env, files, index, readers>>

(* LoadCatalogs: the empty id, and an id that is not asked for, have no    *)
(* prior state.                                                            *)
Prior(r) ==
  [id \in Catalogs \cup {NoId} |-> IF id \in LoadIds(r) \ {NoId} THEN index[id] ELSE NoEntry]

(* publisher.Publish: the call's outcomes are fixed by the prior state it  *)
(* read here.  A failure to sign an entry is a fatal error.                *)
Load(c, unsigned) ==
  /\ call[c].pc = "execute"
  /\ LET r == call[c].req IN unsigned \subseteq DOMAIN Outcomes(r, Prior(r), {})
  /\ LET r == call[c].req
         out == Outcomes(r, Prior(r), unsigned)
     IN call' = [call EXCEPT ![c] =
          [@ EXCEPT !.pc = "write", !.out = out, !.errs = PublishErrors(r, Prior(r), unsigned),
                    !.fatal = unsigned # {}, !.todo = Writes(out)]]
  /\ UNCHANGED <<env, files, index, readers>>

(* What an index shows, by catalog.                                        *)
RefsOf(i) == UNION {{<<id, f>> : f \in Versioned(i[id])} : id \in Catalogs}

(* What a reader who knows the key could fetch and verify of what was      *)
(* shown: the index is fetched before the files it refers to.              *)
Fetchable(refs, fs) ==
  {x \in refs : Path(x[1], x[2]) \in DOMAIN fs /\ fs[Path(x[1], x[2])] = x[2].digest}

(* Readers get index i from now on.                                        *)
Serve(i) ==
  /\ served' = i
  /\ shown' = shown \cup RefsOf(i)
  /\ listed' = listed \cup Fetchable(shown', files)

(* Store.Put renames a complete temporary file over the path.              *)
Put(c) ==
  /\ call[c].pc = "write"
  /\ \E w \in call[c].todo :
       /\ files' = [p \in DOMAIN files \cup {Path(w.id, w.ref)} |->
                      IF p = Path(w.id, w.ref) THEN w.ref.digest ELSE files[p]]
       /\ call' = [call EXCEPT ![c] = [@ EXCEPT !.todo = call[c].todo \ {w}]]
  /\ listed' = listed \cup Fetchable(shown, files')
  /\ UNCHANGED <<env, index, served, shown>>

(* The index is read, merged and written back without a lock.              *)
GetIndex(c) ==
  /\ call[c].pc = "write" /\ call[c].todo = {}
  /\ call' = [call EXCEPT ![c] = [@ EXCEPT !.pc = "merge", !.view = index]]
  /\ UNCHANGED <<env, files, index, readers>>

Merged(r) ==
  [id \in Catalogs |-> IF id \in DOMAIN r.out THEN r.out[id].entry ELSE r.view[id]]

PutIndex(c) ==
  /\ call[c].pc = "merge"
  /\ index' = Merged(call[c])
  /\ IF env.lag THEN UNCHANGED readers ELSE Serve(Merged(call[c]))
  /\ call' = [call EXCEPT ![c] =
       [@ EXCEPT !.pc = IF Touched(call[c].out) = {} THEN "encode" ELSE "verify",
                 !.view = None]]
  /\ UNCHANGED <<env, files>>

(* The CDN catches up with the store.                                      *)
Propagate ==
  /\ served # index
  /\ Serve(index)
  /\ UNCHANGED <<env, files, index, call>>

(* A write of catalogStore.Publish fails: a FAILED body.                   *)
StoreFails(c) ==
  /\ call[c].pc \in {"write", "merge"}
  /\ Done(c, "failed")
  /\ UNCHANGED <<env, files, index, readers>>

-----------------------------------------------------------------------------
(* verifyPublished: up to verifyRetryAttempts rounds of one index fetch    *)
(* and the files of the touched catalogs.                                  *)

LastAttempt(r) == r.attempt + 1 = VerifyRetryAttempts

(* The submissions that made an entry new.                                 *)
ToVerify(r) == {it \in Submissions(r.req) \ r.errs : IdOf(r.req, it) \in Touched(r.out)}

FetchIndex(c) ==
  /\ call[c].pc = "verify"
  /\ call' = [call EXCEPT ![c] =
       [@ EXCEPT !.pc = "files", !.view = IF env.registered THEN served ELSE NoEntries]]
  /\ UNCHANGED <<env, files, index, readers>>

FetchIndexFails(c) ==
  /\ call[c].pc = "verify"
  /\ call' = [call EXCEPT ![c] =
       [@ EXCEPT !.pc = IF LastAttempt(call[c]) THEN "encode" ELSE "verify",
                 !.verify = ToVerify(call[c]), !.attempt = call[c].attempt + 1]]
  /\ UNCHANGED <<env, files, index, readers>>

(* FetchFile's answer for one reference of the re-fetched entry.           *)
FetchFile(id, ref) ==
  IF Path(id, ref) \notin DOMAIN files THEN "transient"
  ELSE IF files[Path(id, ref)] = ref.digest THEN "ok" ELSE "permanent"

(* The references verifyOutcome and verifyRetirement look up by mode.      *)
Wanted(o, e) ==
  {f \in e.files : \/ f.kind = "latest"
                   \/ f.kind = "baseline" /\ o.mode = "baseline"
                   \/ f.kind = "change" /\ o.mode = "change" /\ f.version = o.entry.version}

(* Fault: what is merely not visible yet is not reported.                  *)
VerifyLenient(id, o, e) ==
  IF e # NoEntry /\ \E f \in Wanted(o, e) : FetchFile(id, f) = "permanent"
  THEN "permanent" ELSE "ok"

VerifyOutcome(id, o, e) ==
  IF e = NoEntry THEN "transient"
  ELSE IF o.mode \in {"baseline", "change"} /\ \A f \in Wanted(o, e) : f.kind # o.mode
  THEN "transient"
  ELSE LET got == {FetchFile(id, f) : f \in Wanted(o, e)} IN
       IF "permanent" \in got THEN "permanent"
       ELSE IF "transient" \in got THEN "transient" ELSE "ok"

(* The submissions that fail; flaky are those whose fetch meets a network  *)
(* error in this round.                                                    *)
Verdict(r, flaky, it) ==
  LET id == IdOf(r.req, it) IN
  IF it \in flaky THEN "transient" ELSE VerifyOutcome(id, r.out[id], r.view[id])

Verify(c) ==
  /\ call[c].pc = "files"
  /\ \E flaky \in SUBSET ToVerify(call[c]) :
     LET r == call[c]
         failed == {it \in ToVerify(r) : Verdict(r, flaky, it) # "ok"}
         retry == \E it \in failed : Verdict(r, flaky, it) = "transient"
     IN call' = [call EXCEPT ![c] =
          [@ EXCEPT !.pc = IF retry /\ ~LastAttempt(r) THEN "verify" ELSE "encode",
                    !.view = None, !.verify = failed, !.attempt = r.attempt + 1]]
  /\ UNCHANGED <<env, files, index, readers>>

(* The client goes away while verifyPublished sleeps: the errors so far    *)
(* are the result.                                                         *)
SleepDone(c) ==
  /\ call[c].pc = "verify" /\ call[c].attempt > 0
  /\ call' = [call EXCEPT ![c] = [@ EXCEPT !.pc = "encode"]]
  /\ UNCHANGED <<env, files, index, readers>>

-----------------------------------------------------------------------------
(* Encode: errors first, and they are authoritative.  A result answers one *)
(* item of the request.                                                    *)
Result(r, it, status) == [at |-> it, id |-> IdOf(r, it), status |-> status]

RejectedIds(r, failed) == {IdOf(r, it) : it \in failed}

AcceptedItems(r, out, failed) ==
  {it \in CatalogItems(r) : IdOf(r, it) \in DOMAIN out \ RejectedIds(r, failed)}

(* Fault: every item of the retire list is reported as retired.            *)
ResultsRetireAll(r, out, failed) ==
  {Result(r, it, "REJECTED") : it \in failed}
    \cup {Result(r, it, "ACCEPTED") : it \in AcceptedItems(r, out, failed)}
    \cup {Result(r, it, "RETIRED") : it \in RetireItems(r)}

RetiredItems(r, failed) ==
  {it \in RetireItems(r) : IdOf(r, it) \notin CatalogIds(r) \cup RejectedIds(r, failed)}

Results(r, out, failed) ==
  {Result(r, it, "REJECTED") : it \in failed}
    \cup {Result(r, it, "ACCEPTED") : it \in AcceptedItems(r, out, failed)}
    \cup {Result(r, it, "RETIRED") : it \in RetiredItems(r, failed)}

Encode(c) ==
  /\ call[c].pc = "encode"
  /\ LET r == call[c] IN
     call' = [call EXCEPT ![c] =
       [@ EXCEPT !.pc = "done", !.errs = {}, !.verify = {}, !.attempt = 0, !.fatal = FALSE,
                 !.status = IF r.fatal THEN "failed" ELSE "completed",
                 !.results = Results(r.req, r.out, r.errs \cup r.verify)]]
  /\ UNCHANGED <<env, files, index, readers>>

(* The adapter dies: its calls are gone, the store stays as it is.         *)
Crash ==
  /\ Active # {}
  /\ call' = [c \in Calls |-> IF c \in Active THEN [Idle EXCEPT !.pc = "lost"] ELSE call[c]]
  /\ UNCHANGED <<env, files, index, readers>>

Step(c) ==
  \/ \E r \in Requests : Decode(c, r)
  \/ \E unsigned \in SUBSET Catalogs : Load(c, unsigned)
  \/ KeysetFails(c) \/ Put(c) \/ GetIndex(c) \/ PutIndex(c) \/ StoreFails(c)
  \/ FetchIndex(c) \/ FetchIndexFails(c) \/ Verify(c) \/ SleepDone(c) \/ Encode(c)

Next == (\E c \in Calls : Step(c)) \/ Propagate \/ Crash

Spec == Init /\ [][Next]_vars

-----------------------------------------------------------------------------
(* The call was answered with results; one that failed as a whole was not. *)
Reported(c) == call[c].pc = "done" /\ call[c].req # None

Verdicts(c, id) == {x.status : x \in {x \in call[c].results : x.id = id}}

(* A publish that reports results gives every catalog it was asked about   *)
(* one verdict, however often the request names it: never ACCEPTED or      *)
(* retired next to REJECTED, not even when an entry could not be signed    *)
(* and the call is FAILED, and a catalog submitted and retired at once is  *)
(* not reported as retired (encode).                                       *)
OneVerdict ==
  \A c \in Calls : Reported(c) =>
    \A id \in LoadIds(call[c].req) :
      /\ Cardinality(Verdicts(c, id)) = 1
      /\ id \in CatalogIds(call[c].req) => "RETIRED" \notin Verdicts(c, id)

(* Call c reports catalog id as published or retired, and changed it.      *)
Confirms(c, id) ==
  /\ Reported(c) /\ id \in Touched(call[c].out)
  /\ Verdicts(c, id) \cap {"ACCEPTED", "RETIRED"} # {}

(* A reader could fetch and verify exactly the file the outcome wrote.     *)
Crawlable(id, o) == \A f \in o.new : f.kind # "latest" => <<id, f>> \in listed

(* An older index would not pass: the mode is change, this is the          *)
(* catalog's first entry or no older index is served.                      *)
OwnIndex(o, lag) == o.mode = "change" \/ o.entry.entryVersion = 1 \/ ~lag

(* Where publishes do not overlap, a reader could fetch the very content a *)
(* call reports ACCEPTED and verify it with the registered key, whatever   *)
(* crashed before, and a lagging CDN notwithstanding unless it is a later  *)
(* baseline.  Where publishes overlap, a reader could fetch a file of that *)
(* kind and, for a change, that version; nothing is reported as published  *)
(* or retired under an unregistered key (verifyPublished, encode).         *)
AcceptedIsCrawlable ==
  \A c \in Calls, id \in Catalogs :
    Confirms(c, id) =>
      LET o == call[c].out[id] IN
      /\ env.registered
      /\ env.serial /\ OwnIndex(o, env.lag) => Crawlable(id, o)
      /\ \A f \in o.new : f.kind # "latest" =>
           \E x \in listed : /\ x[1] = id /\ x[2].kind = f.kind
                             /\ f.kind = "change" => x[2].version = f.version

(* When publishes do not overlap, a versioned file that the index refers   *)
(* to is never overwritten, not even by the publish after one that died    *)
(* between its file writes and its index write (LoadCatalogs, Put).        *)
VersionsImmutable ==
  [][env.serial =>
       \A id \in Catalogs : \A f \in Versioned(index[id]) :
         /\ Path(id, f) \in DOMAIN files'
         /\ files'[Path(id, f)] = f.digest]_vars

-----------------------------------------------------------------------------
(* What the code says and does not do.                                     *)

(* verify.go: a file that is not reachable or does not match its digest    *)
(* is as good as unpublished, and is not left reported as ACCEPTED.        *)
AcceptedFilesAreCrawlable ==
  \A c \in Calls, id \in Catalogs : Confirms(c, id) => Crawlable(id, call[c].out[id])
=============================================================================
