# Verification of the Beckn-ONIX adapter

TLA+ specifications of the parts of Beckn-ONIX that carry state across requests,
processes or failures, TLC configurations that check them on small instances, and
TLAPS proofs, for any number of processes, requests and records, of every safety property
the passing runs check.  Only the two liveness properties rest on TLC alone.

Paths below are relative to the repository; `catalogcrawler/`, `payloadstore/` and
so on are under `pkg/plugin/implementation/`.

## 1. The system

An adapter process (`cmd/adapter/main.go`) loads plugins through a plugin manager
(`pkg/plugin/manager.go`), mounts *modules* on HTTP paths (`core/module`), and may run
a catalog crawler in the background.

| Component | State | Operations | Hard because |
|---|---|---|---|
| crawler store (`catalogcrawler/internal/store`) | Postgres tables `crawler_queue`, `crawler_catalog`, `crawler_index`, shared by all adapter instances | Enqueue, ClaimNext, Complete, Reschedule, Park, RecordFailure, RequeueOrAbandonParked, UpsertIndexCursor | workers, pollers and sweepers of several instances interleave; leases lapse; workers die |
| crawler scheduler (`catalogcrawler/scheduler.go`) | context, mutex, WaitGroup, three loops, on-demand runs | Start, Stop, RunOnce, ticks | RunOnce races Stop |
| Discovery sink (`catalogcrawler/internal/sink`) | none of its own; Discovery's copy of a catalog | BatchCatalog, Send, Push, Rollup | a push of several requests fails half-way; byte arithmetic |
| adapter process | closers, HTTP server, root context | run, shutdown, plugin manager's closer | order of closers, panics, signals |
| request handler (`core/module/handler`) | one StepContext per request, the response header | ServeHTTP, steps, route, proxy, response steps | many exits, each with its own response and signature |
| payload store (`payloadstore`) | cache keys per message and an index per transaction | Store, GetByTransactionID, GetByMessageID | read-modify-write over a shared cache with TTLs |
| sign / validateSign / storePayload steps (`core/module/handler/step.go`) | the payload store of two organisations | sign and validate a callback against its request | retries, repeated callbacks, expiry, configuration |
| registry and DeDi clients (`registry`, `dediregistry`), key managers (`simplekeymanager`, `keymanager`) | records of subscribers in the shared cache | Lookup, LookupNPKeys | a replaced or revoked key lives on in the cache; memberships checked per request over a cached record |
| signature checks (`step.go`, `signvalidator`, `internal/registrykey`) | none | validateSign, Source, Resolve | two signatures per message; which failure is whose fault |
| manifest loader (`manifestloader`) | manifests under two keys of the shared cache, the keys refreshed since the start | GetByNetworkID, GetByMetadata, GetBySubscriberID | instances with different settings share the cache; manifest and signature are two fetches |
| policy checker (`opapolicychecker`) | compiled policies per network | load, refresh loop, CheckPolicy | one of several sources fails on a reload |
| catalog publisher and blob store (`catalogpublisher`, `localcatalogblobstore`), endpoint handler | files and index of published catalogs | publish, verify | several files change together; overlapping calls; crash; a lagging public URL |
| schema validator (`schemav2validator`) | index of actions, LRU cache of domain schemas | load, reload, Validate | reload while in use, sources that come and go |
| schema mediator (`schemaversionmediator`) | artifact cache with positive and negative TTL | Mediate | several artifacts per message, each of which may fail |
| router (`router`) | routing table, built once | loadRules, Route | shared by all requests; map order |
| mappers, JSONata translator, encrypter, VC validator, telemetry | none or configuration only | pure functions of one message | |

How they interact: a module's handler runs its steps over a request (validate, sign,
route, store), then proxies it to a URL or hands it to the publisher and runs the
response steps.  A request and its asynchronous callback are different HTTP requests,
often served by different instances; they meet only in the payload store.  Keys, records
and manifests come through a cache that instances share.  The
scheduler's loops call the external `catalog-core` library (`PollIndexes`, `SyncNext`),
which calls back into the store and the sink.  `POST /crawl/trigger` enters the
scheduler from a request handler.

## 2. Plan

1. **Crawl queue** (done): `CatalogSync` (abstract), `CrawlQueue`, proofs.
2. **Scheduler, process shutdown, sink** (done): `CrawlScheduler`, `AdapterShutdown`
   (composes the scheduler), `DiscoverySink` (justifies the queue's atomic `Push`).
3. **Requests and callbacks** (done): `PayloadStore`, `SolicitedCallback`, `StdHandler`.
4. **Trust and policy** (done): `RegistryClient` and `InboundTrust` on it;
   `ManifestLoader` and `PolicyChecker` on it.
5. **Publishing** (done): `CatalogPublisher` with the blob store and the endpoint handler.
6. **Steps that read the message** (done): `MessageSteps`, on it `SchemaValidator`,
   `SchemaMediator`, `Router` and `PolicyVerdict`, composed by `ContentSteps`.
7. **Proofs** (done): eight proof modules, one per passing group of runs (section 6):
   `CrawlerProofs` (queue, leases and sink), `AdapterShutdownProofs`, `HandlerProofs`
   (request handler and callbacks), `PayloadStoreProofs`, `InboundTrustProofs`,
   `PolicyCheckerProofs`, `CatalogPublisherProofs`, `ContentStepsProofs`.

## 3. Modules

### CatalogSync
What the crawler promises, per catalog: the publisher declares ever higher versions and
the applied version moves forward only, to a version that was declared.  It says nothing
of how or when.

### CrawlQueue (`internal/store/queue.go`, `cursor.go`, `indexstate.go`, migrations)
One SQL statement or transaction is one action; the definitions `Enqueue`, `Claimed`,
`Rescheduled`, `Parked`, `Revived`, `Abandoned` and `UpsertCatalog` are the column
updates of the statements.  Columns that only carry data (index URL, timestamps of
bookkeeping) are left out.  Times are abstracted to what the statements compare:
`next_attempt_at` is `now`, `later` or `never` (infinity), `claimed_at` is null, fresh
or older than `claimLease`, `parked_at` is recent or older than the sweep's `olderThan`;
`LeaseLapses`, `BackoffElapses` and `ParkAges` let time pass.

`PollIndexes` and `SyncNext` are in `catalog-core`, which is not in the repository: they
are modelled by the store and sink calls the interfaces allow them, in the order the
store's comments and tests require (fetch, `RecordFailure` before `Park` or `Reschedule`,
`Complete` after an accepted push) and marked external.  A worker reads the index afresh
after its claim and pushes that version.  `Abort` ends a worker, poller or sweeper at
any point: a crash, or a store error that makes it give up.

`LeaseHonoured` is the only assumption that changes the guarantees: with it, a claim
lapses only when its worker is gone; without it, a slow worker can be overtaken.

### CrawlScheduler (`scheduler.go`) and AdapterShutdown (`cmd/adapter/main.go`)
`CrawlScheduler` has the loops and calls as processes and takes each lock acquisition,
check-and-Add and goroutine end as one step.  The select of a loop may choose the ticker
although the context is done.  `AdapterShutdown` extends it with the root context, the
shutdown goroutine and the closers in their registration order: the plugin manager's
(which closes the crawler's database, and panics when some closer fails) before the
crawler's `Stop`.

### DiscoverySink (`internal/sink`)
A catalog is two sequences of the byte offsets at which its resources end, `raw` as they
were read and are counted, `sent` as `json.Marshal` writes them (compacted, with `&`, `<` and
`>` escaped), so that a resource may grow or shrink on the way; `MCCrawler`
computes them from sizes.  `BatchCatalog` cuts all batches before the first push; they
depend on the document alone, so the model cuts each one when it is pushed (`BatchEnd`: the
resources that still fit) and needs no recursion.  `PushAcked`, `PushRefused` and `PushFails` are the three ways a push ends (200, another status, no
answer); Discovery's FULL and MERGE are taken from the comments of `request.go`
(external).  `AcceptedIsWhole` is what `CrawlQueue`'s `Push` relies on: an accepted push
replaced the catalog; `Partial` in `CrawlQueue` stands for what a failed one leaves.
`MCCrawler` runs the queue and the sink in one run; they share no variable.

### PayloadStore (`payloadstore.go`)
One transaction, one step per cache call, a clock for the TTLs.  `env`, chosen once, says
what may happen in this behaviour: whether Stores run one at a time (`serial`), whether a
message is stored again (`resends`), whether cache reads and writes fail (`getFails`,
`setFails`).  The properties name the environments in which they hold, so that one run
shows which promise depends on what.  A failing Set is an error after the write took
effect; an error before it is the same as no call.

### SolicitedCallback (`step.go`, `payloadstore.go`, `config/local-beckn-one-*.yaml`)
One message id, a BAP and several providers.  A signature is
named after the message it signs.  `cfg`, chosen once, says whether `storePayload` is in
the step lists of the two callback modules (`bapStores`, `bppStores`; both in the
`local-beckn-one` configuration), whether the adapters have a Redis each or share one
(`shared`, as in the compose files; the keys name the message id and nothing else), whether the
messages are of protocol 2.0.0 or later (`v2`) and whether
stored requests may be gone when they are looked up (`misses`).  A callback may carry
`message_id` in place of `messageId` (`snake`): `payloadstore` stores it under that id, but
`extractMessageID` (`step.go:501`) knows only the other name, so it is never bound.
Cryptography is ideal: a signature verifies exactly for the signing string it was made over.

### StdHandler (`stdHandler.go`, `responsestep.go`, `step_instrumentor.go`)
One request through `ServeHTTP`.  Steps are known by their effect on the StepContext:
check, transform the body, set the route, sign, store.  `module` ranges over the step
lists of the shipped modules and one that transforms, with and without `signAck`, a v2
message, a subscriber id and a publisher.  `out` is what left for the target, `resp` the
responses written, with what each one's Signature header covers.  A refusal is a NACK, but
`AckNoCallbackErr` of a v2 request is a 202 with an ACK that carries the error (`noCallback`).
`MCMessages` runs this module and `SolicitedCallback` in one run; they share no variable.

### RegistryClient (`registry.go`, `dediregistry.go`) and InboundTrust (`step.go`, `simplekeymanager.go`, `keymanager.go`, `signvalidator.go`, `registrykey.go`)
The record of a pair of subscriber and key id goes through a sequence of versions; a
lookup reads the cache, asks the registry and writes the cache in separate steps and is
told by the version it ends up with.  `replaced` remembers when a version was replaced.
`config`, chosen once, is the plugin (registry or DeDi), the key manager, the allowed
networks and the cache TTL.  A looker is a request in `validateSign`, with one lookup per
signature header, or the crawler or publisher resolving the key of an artifact.  A
signature is told by the key that made it; ids are token sequences, so that the cache
keys are joined the way the code joins them: the registry's with `_`, so that two pairs may
share one (`Collide`; the run has such a pair, `likeB`).  `CachedUntil` is how long a record
read at some time may be served: DeDi's for a time to live from then, the registry's until
the absolute `valid_until` while that is in the future.  A missing key (empty) and a
malformed one (`ed25519` false) are told apart; a key that decodes to a wrong length, on
which the Ed25519 library panics, is not modelled.  A tick of the clock is longer than it takes
to store and use a record that was just fetched or read.

### ManifestLoader (`manifestloader.go`) and PolicyChecker (`enforcer.go`)
Every cache, registry and HTTP call of a lookup is one step, so that releases, uploads of
signatures, expiry and other instances come in between.  `config` gives each instance its
settings: whether it skips verification, forces a refresh at the start or disables the
cache.  `PolicyChecker` adds an enforcer per instance, which is the caller of the same
name: it reads its file, loads policy after policy and swaps them all at once or not at
all.  Releases of the manifest differ in content; days pass for the governance windows.

### CatalogPublisher (`catalogpublisher`, `localcatalogblobstore`, `endpointhandler.go`)
A call decodes, loads the prior index and files, computes outcomes (`catalog-core`,
external), writes the files one at a time in any order and then the index, fetches the index back up
to three times and verifies each outcome, and encodes a result for every item of the
request, the retire list naming a catalog twice if it likes.  An outcome is a baseline, a
change, new metadata, unchanged or a retirement; its entry has a version of its own beside
that of the file lineage, which starts again after a tombstone.  When the change files are
compacted into a baseline is the parameter `Compacts`.  An entry that cannot be signed is a
fatal error: the call is FAILED, with results.  `env`,
chosen once, says whether publishes are one at a time (`serial`), whether the public URL
lags the store (`lag`) and whether the publisher's key is in the registry
(`registered`).  A file's digest is its content; errors, pending writes and results are
sets, since nothing depends on their order.  `PublishLatest` is always on, and change files
a baseline superseded are not taken away (their grace period is not modelled).  Two variables are there for the properties
only: `shown`, every versioned file some served index referred to, and `listed`, every
version, with its content, a reader who was shown its reference could fetch and verify since.  A reader fetches
the index first and the files later, as `verifyPublished` itself does.

### MessageSteps, SchemaValidator, SchemaMediator, Router, PolicyVerdict, ContentSteps
`MessageSteps` (`reqpreprocessor`) holds the requests being served, the step each is at
and the module's configuration `env`; each of the next four is one step over it.
`SchemaValidator` reads the documents of a load one by one while they change and commits
the new index, kept per document, at the end; a file of a directory that cannot be read is
skipped.  A local schema is found by its type among the preloaded ones, in the LRU cache or as a
relative file, and otherwise through the object's `@context`.
`SchemaMediator` fetches artifact after artifact and then
applies them (`Mediated`, in closed form: which artifacts cannot be applied and which objects
an artifact removes follow from the paths alone, `sort.Strings` putting a parent before what
it holds).  An artifact of an object outside `$.message` is applied to the message as it came:
`Rank`, the order of the paths, decides whether that puts back what was translated before
(`Restored`) and whose label the message gets (`LastOnMessage`).
`Router` turns the rules into the table and a request into its route; a URL keeps the query it
is written with until the request brings one;
`PolicyVerdict` is what `CheckPolicy` makes of a query's result, the violations as a set.  `ContentSteps` composes
them in the order the configuration lists the steps.  The body is a function from paths below
`$` to the schema objects at them.

## 4. Runs

Every passing run finishes within about two minutes on two workers.

| Run | Checks | Bounds, and why they are enough |
|---|---|---|
| `crawler` | rows consistent, claim tokens unique, live claims fenced, budgets kept, abandoned is terminal; an accepted push is the whole catalog, overrun bounded | queue: a lease may lapse under a live worker; 1 catalog (rows share no state but the tokens), 2 workers and 3 claim ids (the one overtaken, the one that overtakes, and a reclaim), a poller and a sweeper, versions 1 and 2 with 2 a retire, 2 attempts, 1 park. No aborts: for the row, a worker whose lease lapsed and that never settles is a crashed one. Sink: three resources of sizes that fill the budget exactly, miss it by one, exceed it alone, shrink and grow when marshalled; two Sends, so that a half-failed one precedes |
| `queue_lease` | a worker holds its row, Discovery matches the cursor, refinement of `CatalogSync`; every queued catalog is synced or abandoned | as above with leases honoured and one abort of any process; fairness of section 5, no symmetry |
| `shutdown` | Stop drains, a normal exit leaves nothing running, shutdown completes | the three loops and two RunOnce calls, one of which can be inside while the other waits for the mutex, beside the closers |
| `payload_store` | no duplicate or phantom in the index, ever; completeness and lifetime in the environments that allow them | two messages, two writers, a clock longer than both TTLs, all 16 environments |
| `messages` | a signature covers its body, the message leaves as processed, a plain ACK means handed over; only superseded answers are refused, every answer is bound, none is accepted as bound once one is stored over its request | handler: the step lists of the shipped modules and one that transforms, all switches; callbacks: two attempts, two callbacks, two providers, all 32 configurations |
| `trust` | keys are those the registry published and not too stale; members only; failures of the registry are not blamed on others | three pairs, of which two share a cache key without DeDi, and whose records change once (a key is replaced and a network left; a key is revoked and garbled), two lookers, so that one fills the cache for the other, registry and DeDi, a clock longer than the TTL |
| `policy` | policies in force are of signed, current manifests of their network and of bounded age; a forced refresh is one; failed reloads change nothing | two instances, of which one does not verify, one network, one URL, TTL 2, two releases, one day |
| `publishing` | one verdict per catalog; accepted means that a reader could fetch and verify it; versions are not overwritten | three publishes in series or two that overlap, two catalogs, two contents, two values of the metadata, compaction after one change, eleven bodies with every mode and every way to be refused |
| `content_steps` | both caches bounded and fresh, no message half translated, no foreign route, denials stand, a reload loses only what its document gave up or a directory's file that cannot be read had | two requests at a time, 19 configurations with the traffic that exercises each, caches of two and one entries, TTLs of one tick, a clock of three |

Three runs are expected to be violated, disagreements between the code and what it says of
itself (quoted in `PROJECT.json`):

* `queue_lost_target`: a version enqueued
  while its catalog is being synced is lost until the index changes again.
* `queue_late_settle`: a worker that outlived its lease, and whose row another worker holds, still
  moves the cursor when it completes.
* `publish_overlap`: of two overlapping publishes of a catalog that compute the same version, one is
  ACCEPTED although no reader could ever fetch its content.

The other findings of `PROJECT.json` are disagreements with a comment or a README for which a
passing property states exactly what the code does instead: `BudgetsSpent`,
`OverrunBounded`, `AnsweredOnce`, `KeysAreFresh`, `BlameIsRight`, `MediatedIsSupported`,
`RoutesAreOwn`, `DenialsStand` and `ActionsNeverVanish`.

Conditions in the properties that stand for limits of the code, met while modelling:

* `Complete` of a worker that lost its claim also clears the failure reason of a catalog
  parked meanwhile (`queue.go:182-184`, `cursor.go:88`), which is why `ParkedHasReason`
  needs honoured leases.
* A catalog is revived while `park_count <= maxParkCount` (`queue.go:153`), one park more
  than the "fewer than" of the crawler's README; `BudgetsSpent` states the code's bound
  (a finding).
* A batch of several resources may exceed `maxPushBytes` by up to 14 bytes, the field of 15
  bytes around the resources less one (`batch.go:57`), and by what marshalling adds to the raw
  resources it counts (`batch.go:62`); `OverrunBounded` states exactly that (a finding).
* A message stored again keeps its place in the transaction index and finds an index
  whose TTL may end before the entry's; a cache read that fails drops the index from the
  next write (`payloadstore.go:306-317`).  `IndexComplete` and
  `IndexOutlivesEntries` exclude those environments.
* Where `bppTxnCaller` stores the callback it sends, the next callback to the same
  request is unbound (`AnswersBound` excludes that), and a callback with `message_id` always is.
  A pre-2.0.0 callback with `messageId` is signed over four lines, validated over
  three and refused, which `OnlySupersededRejected` excludes.
* The proxy's 502 carries no signature (`stdHandler.go:419`), and the instrumentation
  headers are deleted only after they were forwarded (`stdHandler.go:125-130`);
  `SignatureCoversBody` speaks of the signatures that are sent.
* A module may list a step that transforms the body after `sign`; the signature it forwards
  then covers the old body.  `LeavesAsProcessed` speaks of signatures where every
  transforming step comes before every `sign` step (`SignsLast`).
* `Complete` writes the cursor whether or not its claim still holds (`queue.go:233`),
  although `0002_claim_id.sql:1-2` says that only the holder can settle (`queue_late_settle`);
  the properties about the cursor assume honoured leases.
* SIGTERM and SIGINT end the process without running a closer: `main` passes
  `context.Background()` (`main.go:76`); `otelsetup/OBSERVABILITY.md:179` speaks of a closer that
  flushes.
* `bapTxnReceiver` of `config/local-beckn-one-bap.yaml:107-113` stores a callback over the
  request it answers (`payloadstore.go:295`), and a second callback finds an entry of another
  action and is refused.  With one Redis for both sides and `storePayload` in `bppTxnCaller`
  that already happens to the first.  `AnsweredOnce` says which answers can still be accepted
  (a finding).  The compose files give both adapters one Redis but start them with
  `local-simple.yaml`, which has no `storePayload`: it takes the `local-beckn-one` step lists on
  that Redis.
* A replaced or revoked key is accepted for as long as its record is cached
  (`KeysAreFresh` states that bound).  DeDi records carry no status, so with DeDi a record
  is usable as long as it is there; a DeDi 404 and a DeDi record without a key are
  transient for artifacts (a finding), a malformed key is permanent with either.  A registry
  record without a key is a permanent failure like a revoked one (`registrykey.go`), and
  empty ids are answered as unknown: `BlameIsRight` allows both.
* Registry cache keys join ids with `_`, so a request may be checked with the cached key of
  another pair whose ids join alike (a finding): `KeysAreFresh` admits that pair, without DeDi.
* A manifest may be served for twice `cacheTTL`: the copy under the metadata key is stored
  again under the network's key (`manifestloader.go:193`), which `StalenessBounded`
  states.  With `forceRefreshOnStartup` a key is marked before the fetch
  (`manifestloader.go:318`), so a failed first fetch is not forced again.
* A policy source that fails fails the whole reload; the old policies stay in force.
* Overlapping publishes may write the same version: `VersionsImmutable` is for publishes
  one at a time, and so is the part of `AcceptedIsCrawlable` that speaks of the content
  accepted.  `verifyOutcome` does not compare the version of a baseline nor check the
  tombstone of a retirement, so that a lagging index passes there (`OwnIndex`); an unchanged
  resubmission is not verified.  Where publishes overlap, a reader could still fetch some
  file of the kind and, for a change, of the version accepted, which is as much as the code
  compares.  The mutable `latest` file is overwritten before the index.
* A file of a directory source that cannot be read is skipped on reload too
  (`schemav2validator.go:446-449`), unlike a source that fails: the one exception of
  `ActionsNeverVanish`, which is about actions (a finding).
* The schema cache evicts even when it stores a key it has (`extended_schema.go:272`); the
  artifact cache drops an expired entry but not its key (`schemaversionmediator.go:302`).
  Both only evict early.  That the artifact cache lists no key twice is proved for any size;
  in the run it has one entry.
* Errors after the artifacts were fetched bypass `onFailure`; a translation of the whole
  message is merged into the old one (`schemaversionmediator.go:521`).  An object outside
  `$.message` is not translated, its artifact is applied to the message instead
  (`schemaversionmediator.go:494-498`), and what an artifact drops is not checked
  (a finding): `MediatedIsSupported` speaks of messages whose needs all lie in `$.message`, and
  of what lies in a translated object it says nothing.
* The route of a GET whose endpoint is in two v2 versions depends on map order
  (`router.go:318`): `RoutesAreOwn` admits each of them.  The query of a rule's URL, or of a
  URI in the request, is sent when the request has none (a finding).
* The empty string as a policy result, and a structured one with `valid` true and violations
  of which none can be parsed, count as compliant (`evaluator.go`): `DenialsStand` does
  not count them as denials (a finding).

Every property of a passing run has a mutant: a faulty variant of one definition, written
next to it and marked *Fault*, under which the property fails.

## 5. Fairness

* `CrawlQueue`: the loops tick while the process runs and every store and HTTP call is
  bounded by a timeout, so passes that have begun continue (weak fairness); time passes;
  `ClaimNext` orders by `next_attempt_at` and a poll visits every index, so no catalog is
  passed over for ever (strong fairness per catalog).  Nothing is assumed of the
  publisher or of aborts, of which there are finitely many.  A finite `maxAttempts` is
  needed: with the default 0 a failing catalog is retried for ever by design.
* `AdapterShutdown` with `CrawlScheduler`: goroutines run and ticks end (weak); `sync.Mutex`
  hands over to starving waiters and `select` chooses at random among ready cases, so
  neither a waiting caller nor a done context is passed over for ever (strong).

The other specifications state no fairness; what is checked of them is safety.

## 6. Proofs

Each module proves its invariants for every value of the constants that satisfies the named
assumptions, by one lemma per action or per group of actions with the same effect, and
concludes the properties of the runs from them.  TLC checks the properties; the parts that
only make an invariant inductive are listed with the reason why they are needed.

**`CrawlerProofs`, the queue** - `TypeOK`, `RowConsistent`, `ClaimsUnique` and `BudgetsSpent`
are invariants and `LiveClaimIsFenced` and `AbandonedIsTerminal` hold of every step, whatever
leases do (`CrawlQueueAssumption`).
The inductive invariant `QueueInv` adds to these properties

* `Busy`: a worker or poller that is not idle has a catalog, needed to type the row it
  updates;
* `AttemptsKnown`: a worker that still holds its row knows the row's attempts, since
  `MustPark` decides on the copy it took at the claim and `BudgetsSpent` speaks of the
  row.

The argument first reduces every action to what it can do to one row (`RowSteps`: an
enqueue, a new claim, a settle by the holder, a sweep or ageing) and to the tokens
(`ClaimSteps`), and then shows each part of the invariant preserved by those few cases.

**`CrawlerProofs`, honoured leases** - assuming `LeaseHonoured`: `WorkersHold`, `ParkedHasReason`,
`DiscoveryMatchesCursor` and the refinement of `CatalogSync`.  Its
`LeaseInv` adds `WorkersHold` (which needs `ClaimsUnique`: no other worker's settle can
match the claim), `WorkerKnows` (the version a worker carries lies between the cursor
and the index, and a failure it reported is on record) and `CatalogOK` (cursor within the
index, Discovery in step when there is no row).  The refinement mapping takes `applied`
to be the cursor's version and `published` the index.

`ParkedHasReason` (theorem `ReasonsKept`) is proved and not a property of a run.

**`CrawlerProofs`, the sink** - `AcceptedIsWhole` and `OverrunBounded`, for every set of
documents of any number of resources, any effect of marshalling on their sizes and every byte
budget (`SinkAssumption`: sizes are positive).

* `SinkInv`: until a batch is refused, Discovery holds of this Send exactly the resources
  before the next batch and the offers, and nothing else.
* `BatchEndsWhereItFits`: a batch ends inside the document, at its first resource or at one
  that still fits.  It needs the greatest element of a bounded set of numbers, which is had
  from the well-foundedness of `<` (`WFMin`) instead of induction.

**`AdapterShutdownProofs`** - `StopDrains` and `ExitLeavesNothingRunning`, for any finite
set of loops and `RunOnce` calls (`SchedulerAssumption`: there is at least one loop;
`Start` launches three).

* `WaitGroupExact`: the counter is the number of live goroutines, so that `wg.Wait`'s zero
  means that none is left; this is the part that counts, by the cardinality theorems.
* `LockHeld`, `StopSeals`: a `RunOnce` that passed its check holds the mutex until it has
  added itself, so that there is none between check and `Add` once `Stop` holds it; after
  `cancel` none passes the check.  Without `LockHeld` a run could be added after the wait.
* `RunsAccepted`: a call launches its goroutine once.
* `ClosersInOrder`: the process reaches its end only through the closers, in their order.

**`HandlerProofs`, callbacks** - `OnlySupersededRejected`, `AnswersBound` and the action property
`AnsweredOnce` (theorem `StoredAnswersLast`), for any attempts, callbacks and providers in all
configurations (`CallbackAssumption`: signatures of different messages differ).

* `Addressed`, `EntriesGenuine`, `CallbacksGenuine`: what an adapter has stored as a request
  is one it received (the BAP, and everyone with a shared Redis: one the BAP signed), and a
  request-signature in a callback was taken from such an entry, never in one with `message_id`.
* `StoredFirst`, `RequestStays`: a request is stored at the BAP before it leaves, and stays
  a request unless callbacks are stored in the same Redis: no answer can arrive to an empty
  store, so a mismatch means a repeated attempt.
* `KeptFirst`: a provider's application learns of a request only once it is stored there,
  and nothing overwrites it where no callback is stored in the same Redis.
* `DeliveredFirst`, `StaysOverwritten`: a request that an answer was stored over is not on
  record again, unless it is repeated (with a shared Redis, by a provider that stores it late),
  which is what `AnsweredOnce` needs at the step that accepts another answer.

**`HandlerProofs`, the request handler** - `LeavesAsProcessed`, `SignatureCoversBody` and
`AckMeansHandedOver`, for every list of steps of any length and order
(`HandlerAssumption`), where the run has the lists of the shipped modules.

* `AuthCurrent`: if the transforming steps come before the sign steps, then from the first
  sign step on the Authorization header signs the current body, and only that was stored.
* `RouteTaken`, `OutCurrent`: a target is chosen after all the steps, with `r.Body` set
  to the body the steps left, and what left stays what it was.
* `OneAnswer`: nothing is written, nor a response signature set, before the last phase.

**`PayloadStoreProofs`** - `IndexSound`, `IndexOutlivesEntries` and `IndexComplete`, for any
number of messages and writers and any `ttl <= indexTTL`, as `ParseConfig` demands
(`PayloadStoreAssumption`).

* `WritersSound`: the ids a writer has read are distinct, stored and without its own
  message, whatever other writers wrote meanwhile; entries are never forgotten by the
  model, only expired, so what was read stays sound.
* `EntriesFresh`: no entry expires later than one stored now, which is what makes an index
  written now outlive all it lists.
* `CleanIndex`: with Stores one at a time and no errors, every live message is in the index
  or in the hands of the one writer.

**`PolicyCheckerProofs`** - `StalenessBounded`, `RefreshedOnStart`, `PoliciesSound` and the
action property `EnforcementNeverLapses`, for any instances, callers, ids and URLs, any
`cacheTTL` and any policy files and manifests (`LoaderAssumption`, `PolicyAssumption`: the
settings are of the type the plugin parses, an enforcer is a caller of its own instance, a
policy file lists something, dates are numbers).

* `GoodEntry`: age plus remaining time of a cached document is at most `TTL` under a
  metadata key and `2 * TTL` under an id (`Horizon`), the reason for the factor two; what
  is marked verified is of a signed release.
* `GoodCall`: how old a lookup's document may be at each point of its way, that it was
  verified unless its instance skips that, and that a forced one was fetched.
* `SoundPolicies` of the policies being loaded as well as of those in force; `InStep` (what
  was loaded is exactly what the file lists and is no longer to be done), which gives
  `EnforcementNeverLapses` at the swap; `Awaited` (the answer a load takes is for the
  policy it asked about).

**`InboundTrustProofs`** - `KeysAreFresh`, `MembersOnly` and `BlameIsRight`, for every
registry and its changes, both plugins, all configurations, messages with any number of
signatures, and any number of lookers (`RegistryAssumption`: ids are sequences of tokens, TTLs
and dates are numbers, every pair has a record;
`TrustAssumption`: a message has a signature header - `validateSign` refuses one without).

* `CacheKeyAlike` (from `JoinInjective`): two pairs share a cache key only without DeDi and
  if a subscriber id contains a `_` (`Alike`, `Collide`).
* `GoodEntry`: a cached record is of a pair whose key it is under and
  expires when `CachedUntil` says of the time it was current; `CurrentUnreplaced` dates that.
* `GoodLook`: an answer is fresh and of a member of the network asked for, whether it came
  from the cache or not; a lookup that ends without a record either was told that there is
  none or has a code that blames nobody.
* `GoodRequest`, `GoodUse`, `GoodArtifact`: these facts kept for the headers already
  believed while later ones are looked up and the registry changes.

The attempt to prove `BlameIsRight` showed that it was stated too strongly for registry
records without a key and for empty ids (section 4), and that two error classifications
were overlapping CASEs whose choice TLC had fixed; they are now written in the order of the
code.

**`CatalogPublisherProofs`** - `OneVerdict` and `AcceptedIsCrawlable` for any number of
overlapping publishes, and the action property `VersionsImmutable` for publishes one at a
time, for all requests, catalogs and contents (`PublisherAssumption`: requests name catalogs
of `Catalogs` or the empty id).  `PubInv` consists of

* `CallOK` per call: every catalog of the request has an outcome or an error, an outcome
  fits the entry it was made from (`OutcomeOK`, `NewOK`); what is not
  among the failures of the last round could be fetched by a reader (`Crawled`), whatever
  happened to the store since; the answer says no more than that.  It depends on the other
  calls only through `shown` and `listed`, which grow, so their steps keep it (`CallGrows`).
* `ReadersOK`: what was shown and is stored now is listed, whoever wrote it.
* `SerialOK`: if publishes do not overlap, the one at work computed its versions from the
  index there still is, so that what it has to write is later than all the index refers to
  (`WritingOK`); an earlier publish that died left only files that no index refers to.  While
  it verifies, the index is the one it wrote and its files are there (`WrittenOK`), which is
  why a version found is its own content; for a catalog's first entry under a lagging URL that
  needs that readers were shown no catalog the index lacks (`AllListed`).

The attempt to prove `AcceptedIsCrawlable` showed that it was stated too strongly: that the
accepted version could be fetched from the index served at one instant is false with four
overlapping publishes: one has overwritten the file, and between a verifier's fetch of the
index and its fetch of the file a third takes the entry out of the index and a fourth puts
the same content in place again.  `listed`
was changed to what a reader can do, who fetches the index before the files.

**`ContentStepsProofs`** - `CachesBounded`, `MediatedIsSupported`, `RoutesAreOwn`,
`DenialsStand` and the action property `ActionsNeverVanish`, for every step list, rule list,
set of sources, nesting of objects and number of requests (`StepsAssumption`: paths are
sequences of strings; `ValidatorAssumption`, `MediatorAssumption`: cache
limits are positive, as the plugins' defaults make them, TTLs numbers, the paths have an order;
`RouterAssumption`: the rules are a list).  `ContentInv` consists of

* `JobOK` per request, what it owes to the steps it has passed, wherever these are in the
  list: nothing changed outside `$.message` (`Within`) and, when all needs lie in it
  (`Confined`), translated as a whole (`Settled`) or untouched, and the rest as it came
  (`Spared`), all in `MediationOK` (with `NeedsOK`: until an artifact
  is missed, every need is answered or still to be), not denied (`PolicyOK`), with a route a
  rule gives it (`RouteOK`), and nothing heard that is too old (`HeardOK`, for which `FetchOK`
  dates a download that is under way).
* `SchemasOK`, `ArtifactsOK`: no key twice and every entry dated; a cache at its limit
  evicts before it stores.  What a purge leaves is some thinned sequence (`Thinned`).
* `LoadOK`: a reload has read every document of the sources it is done with, at a content
  the document had meanwhile, or it is a directory's and could not be read (`LoadingOK`,
  `Heeded`).
* `EnvOK`: the table is the one of the rules.  That an entry of it comes from the last
  rule for its key needs that there is a last one, again by well-foundedness.

Every safety property of a passing run has a theorem.  Only model-checked:

* liveness (`EveryRowSettles` of the queue, `ShutdownCompletes`): fairness and ENABLED
  are outside the prover's reach;
* `NoSupersededTarget`, `OnlyHolderSettles` and `AcceptedFilesAreCrawlable`, which the code
  violates.

Recursion is avoided in the modules, since induction over data is out of the prover's
reach: batches, folds over paths and results of a query are written in closed form.

## 7. Not modelled

* Cryptography (signer, encrypter, decrypter, the VC validator's proofs), JSON, YAML and
  HTTP encodings, telemetry and logging: data to every property here.
* Configuration and plugin loading, server set-up, migrations: done once before the
  first request, without interleavings.
* Libraries: JSONata and the request mapper that only calls it, OPA's Rego, `catalog-core`
  beyond what its callers make of it, RabbitMQ, Redis, Vault.
* Vault's keyset operations are single calls without state in the adapter (`DeleteKeyset`
  deletes another path than `InsertKeyset` wrote, which no other operation sees); the
  `schemavalidator` plugin compiles its schemas once; `QueryByNetwork` and `Subscribe` are
  single HTTP calls; the publisher's `checkIndexLink` only adds a warning; the read-only
  `Status` and `ListAbandoned` queries except for the agreement of the rows they join.
* `NodeManifest.Validate`, which nothing calls.
* Failures to write a response to a client that is gone, and the data race of
  `simplekeymanager`'s closer at the end of the process.
