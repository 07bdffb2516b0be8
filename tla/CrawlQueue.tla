----------------------------- MODULE CrawlQueue -----------------------------
(***************************************************************************)
(* The catalog crawler's work queue and cursor store                       *)
(* (catalogcrawler/internal/store) as the scheduler's poll, sync and sweep *)
(* loops of any number of adapter instances use it.  One SQL statement (or *)
(* one transaction) is one step.  SyncNext and PollIndexes live in the     *)
(* external catalog-core library and are modelled by the store calls they  *)
(* make.  Time is abstract: a lease lapses, a backoff elapses and a parked *)
(* row ages by steps of their own.                                         *)
(***************************************************************************)
EXTENDS Naturals

CONSTANTS Catalogs,        \* catalog ids; each has its own index here
          Workers,         \* sync loops, one per adapter instance
          Pollers,         \* PollIndexes passes: scheduled and on demand
          Sweepers,        \* park-sweep loops, one per adapter instance
          ClaimIds,        \* values of gen_random_uuid()
          NoClaim,         \* claim_id IS NULL
          NoCatalog,       \* an idle process works on no catalog
          MaxVersion,      \* bound: entry versions a publisher declares
          RetireVersions,  \* entry versions that retire the catalog
          MaxAttempts,     \* config maxAttempts; 0 = unlimited
          MaxParkCount,    \* config maxParkCount
          AttemptCap,      \* bound: attempts are counted up to here
          ParkCap,         \* bound: park_count is counted up to here
          MaxAborts,       \* bound: crashes and store errors
          LeaseHonoured    \* TRUE: a sync always ends within claimLease

ASSUME CrawlQueueAssumption ==
  /\ NoClaim \notin ClaimIds
  /\ NoCatalog \notin Catalogs
  /\ MaxVersion \in Nat
  /\ RetireVersions \subseteq Nat
  /\ MaxAttempts \in Nat
  /\ MaxParkCount \in Nat
  /\ AttemptCap \in Nat /\ MaxAttempts <= AttemptCap
  /\ ParkCap \in Nat /\ MaxParkCount < ParkCap
  /\ MaxAborts \in Nat
  /\ LeaseHonoured \in BOOLEAN

VARIABLES row,        \* crawler_queue: row[c], status "none" when absent
          cat,        \* crawler_catalog: cursor, reason and envelope of c
          etag,       \* crawler_index: version whose validators are stored
          index,      \* the index the publisher serves: declared version
          discovery,  \* what the Discovery service holds of c
          worker, poller, sweeper,
          aborts      \* crashes and store errors so far

vars == <<row, cat, etag, index, discovery, worker, poller, sweeper, aborts>>

Versions == 0 .. MaxVersion
Partial == MaxVersion + 1   \* Discovery holds part of one push over another
Op(v) == IF v \in RetireVersions THEN "retire" ELSE "sync"
Bump(n, cap) == IF n < cap THEN n + 1 ELSE n

-----------------------------------------------------------------------------
(* Tables *)

Row == [status : {"none", "queued", "in_progress", "parked", "abandoned"},
        op : {"sync", "retire"},
        attempts : 0 .. AttemptCap,
        due : {"now", "later", "never"},             \* next_attempt_at
        claimedAt : {"null", "fresh", "lapsed"},     \* against claimLease
        claimId : ClaimIds \cup {NoClaim},
        parkCount : 0 .. ParkCap,
        parkedAt : {"null", "recent", "old"},        \* against olderThan
        abandonedAt : {"null", "set"}]

NoRow == [status |-> "none", op |-> "sync", attempts |-> 0, due |-> "now",
          claimedAt |-> "null", claimId |-> NoClaim, parkCount |-> 0,
          parkedAt |-> "null", abandonedAt |-> "null"]

Catalog == [version : Versions,     \* entry_version; 0 = NULL, never synced
            status : {"active", "retired"},
            reason : {"null", "set"},
            envelope : Versions]    \* version the envelope was captured at

NoCursor == [version |-> 0, status |-> "active", reason |-> "null", envelope |-> 0]

Worker == [pc : {"idle", "claimed", "fetched", "pushed", "failed", "recorded"},
           cat : Catalogs \cup {NoCatalog},
           claim : ClaimIds \cup {NoClaim},
           attempts : 0 .. AttemptCap,
           ver : Versions,
           failure : {"none", "transient", "permanent"}]

IdleWorker == [pc |-> "idle", cat |-> NoCatalog, claim |-> NoClaim,
               attempts |-> 0, ver |-> 0, failure |-> "none"]

Poller == [pc : {"idle", "fetched", "decided"},
           cat : Catalogs \cup {NoCatalog},
           ver : Versions]

IdlePoller == [pc |-> "idle", cat |-> NoCatalog, ver |-> 0]

TypeOK ==
  /\ row \in [Catalogs -> Row]
  /\ cat \in [Catalogs -> Catalog]
  /\ etag \in [Catalogs -> Versions]
  /\ index \in [Catalogs -> Versions]
  /\ discovery \in [Catalogs -> 0 .. Partial]
  /\ worker \in [Workers -> Worker]
  /\ poller \in [Pollers -> Poller]
  /\ sweeper \in [Sweepers -> {"idle", "revived"}]
  /\ aborts \in 0 .. MaxAborts

Init ==
  /\ row = [c \in Catalogs |-> NoRow]
  /\ cat = [c \in Catalogs |-> NoCursor]
  /\ etag = [c \in Catalogs |-> 0]
  /\ index = [c \in Catalogs |-> 0]
  /\ discovery = [c \in Catalogs |-> 0]
  /\ worker = [w \in Workers |-> IdleWorker]
  /\ poller = [p \in Pollers |-> IdlePoller]
  /\ sweeper = [s \in Sweepers |-> "idle"]
  /\ aborts = 0

\* Fault: settle statements match on the row id alone.
HoldsAnyClaim(w) == row[worker[w].cat].status # "none"

\* The worker still holds the claim it was given: WHERE id AND claim_id match.
Holds(w) == row[worker[w].cat].claimId = worker[w].claim

ClaimsInUse == {row[c].claimId : c \in Catalogs}
                 \cup {worker[w].claim : w \in Workers}

-----------------------------------------------------------------------------
(* The publisher *)

Publish(c) ==
  /\ index[c] < MaxVersion
  /\ index' = [index EXCEPT ![c] = @ + 1]
  /\ UNCHANGED <<row, cat, etag, discovery, worker, poller, sweeper, aborts>>

-----------------------------------------------------------------------------
(* PollIndexes: conditional GET, decide and Enqueue, store the validators *)

\* A 304 answer changes nothing, so only a changed index is a step.
PollFetch(p, c) ==
  /\ poller[p].pc = "idle"
  /\ etag[c] # index[c]
  /\ poller' = [poller EXCEPT ![p] = [pc |-> "fetched", cat |-> c, ver |-> index[c]]]
  /\ UNCHANGED <<row, cat, etag, index, discovery, worker, sweeper, aborts>>

\* Fault: the CASE WHEN claimed_at IS NULL guards are missing.
EnqueueResets(r, op) ==
  IF r.status = "none" THEN [NoRow EXCEPT !.status = "queued", !.op = op]
  ELSE [r EXCEPT !.status = "queued", !.op = op, !.attempts = 0, !.due = "now",
                 !.parkedAt = "null", !.abandonedAt = "null"]

\* INSERT ... ON CONFLICT (catalog_id) DO UPDATE
Enqueue(r, op) ==
  IF r.status = "none" THEN [NoRow EXCEPT !.status = "queued", !.op = op]
  ELSE IF r.claimedAt = "null"
       THEN [r EXCEPT !.status = "queued", !.op = op, !.attempts = 0,
                      !.due = "now", !.parkedAt = "null", !.abandonedAt = "null"]
       ELSE [r EXCEPT !.op = op]

\* decideCatalog: an entry newer than the cursor is enqueued.
PollDecide(p) ==
  LET c == poller[p].cat
      v == poller[p].ver
  IN /\ poller[p].pc = "fetched"
     /\ row' = IF cat[c].version < v
               THEN [row EXCEPT ![c] = Enqueue(@, Op(v))] ELSE row
     /\ poller' = [poller EXCEPT ![p].pc = "decided"]
     /\ UNCHANGED <<cat, etag, index, discovery, worker, sweeper, aborts>>

UpsertIndexCursor(p) ==
  /\ poller[p].pc = "decided"
  /\ etag' = [etag EXCEPT ![poller[p].cat] = poller[p].ver]
  /\ poller' = [poller EXCEPT ![p] = IdlePoller]
  /\ UNCHANGED <<row, cat, index, discovery, worker, sweeper, aborts>>

-----------------------------------------------------------------------------
(* SyncNext: claim, resolve against a fresh index, push, settle *)

\* Fault: claimed_at is not looked at.
ClaimableAnyLease(r) == r.status # "none" /\ r.due = "now"

\* Fault: no orphaned-claim recovery.
ClaimableUnclaimed(r) ==
  r.status # "none" /\ r.claimedAt = "null" /\ r.due = "now"

\* Fault: next_attempt_at is not looked at.
ClaimableNotDue(r) == r.status # "none" /\ r.claimedAt \in {"null", "lapsed"}

Claimable(r) ==
  /\ r.status # "none"
  /\ r.claimedAt \in {"null", "lapsed"}
  /\ r.due = "now"

Claimed(r, k) ==
  [r EXCEPT !.status = "in_progress", !.claimedAt = "fresh", !.claimId = k]

\* Fault: a reclaim keeps the token of the claim it takes over.
ClaimNextKeepsToken(w, c) ==
  /\ worker[w].pc = "idle"
  /\ Claimable(row[c])
  /\ \E k \in IF row[c].claimId # NoClaim THEN {row[c].claimId}
              ELSE ClaimIds \ ClaimsInUse :
       /\ row' = [row EXCEPT ![c] = Claimed(@, k)]
       /\ worker' = [worker EXCEPT ![w] =
                       [pc |-> "claimed", cat |-> c, claim |-> k,
                        attempts |-> row[c].attempts, ver |-> 0,
                        failure |-> "none"]]
  /\ UNCHANGED <<cat, etag, index, discovery, poller, sweeper, aborts>>

ClaimNext(w, c) ==
  /\ worker[w].pc = "idle"
  /\ Claimable(row[c])
  /\ \E k \in ClaimIds \ ClaimsInUse :
       /\ row' = [row EXCEPT ![c] = Claimed(@, k)]
       /\ worker' = [worker EXCEPT ![w] =
                       [pc |-> "claimed", cat |-> c, claim |-> k,
                        attempts |-> row[c].attempts, ver |-> 0,
                        failure |-> "none"]]
  /\ UNCHANGED <<cat, etag, index, discovery, poller, sweeper, aborts>>

FetchIndex(w) ==
  /\ worker[w].pc = "claimed"
  /\ worker' = [worker EXCEPT ![w] = [@ EXCEPT !.pc = "fetched",
                                               !.ver = index[worker[w].cat]]]
  /\ UNCHANGED <<row, cat, etag, index, discovery, poller, sweeper, aborts>>

\* Fault: Rollup accepts a push of which only some batches were acked.
PushPartlyAcked(w) ==
  /\ worker[w].pc = "fetched"
  /\ \E d \in {worker[w].ver, Partial} :
       discovery' = [discovery EXCEPT ![worker[w].cat] = d]
  /\ worker' = [worker EXCEPT ![w].pc = "pushed"]
  /\ UNCHANGED <<row, cat, etag, index, poller, sweeper, aborts>>

\* Sink.Send acknowledged by Discovery for every batch.
Push(w) ==
  /\ worker[w].pc = "fetched"
  /\ discovery' = [discovery EXCEPT ![worker[w].cat] = worker[w].ver]
  /\ worker' = [worker EXCEPT ![w].pc = "pushed"]
  /\ UNCHANGED <<row, cat, etag, index, poller, sweeper, aborts>>

\* A fetch, a signature check or Sink.Send fails; a failed Send may already
\* have delivered some of the batches.
SyncFails(w) ==
  /\ worker[w].pc \in {"claimed", "fetched"}
  /\ \E f \in {"transient", "permanent"} :
       worker' = [worker EXCEPT ![w] = [@ EXCEPT !.pc = "failed", !.failure = f]]
  /\ \/ UNCHANGED discovery
     \/ /\ worker[w].pc = "fetched"
        /\ discovery' = [discovery EXCEPT ![worker[w].cat] = Partial]
  /\ UNCHANGED <<row, cat, etag, index, poller, sweeper, aborts>>

\* upsertCatalog: the settled cursor; no reason; the envelope is COALESCEd.
UpsertCatalog(k, v) ==
  [version |-> v, reason |-> "null",
   status |-> IF v \in RetireVersions THEN "retired" ELSE "active",
   envelope |-> IF v \in RetireVersions THEN k.envelope ELSE v]

\* One transaction: the cursor unconditionally, the row if still held.
Complete(w) ==
  LET c == worker[w].cat
  IN /\ worker[w].pc = "pushed"
     /\ cat' = [cat EXCEPT ![c] = UpsertCatalog(@, worker[w].ver)]
     /\ row' = IF Holds(w) THEN [row EXCEPT ![c] = NoRow] ELSE row
     /\ worker' = [worker EXCEPT ![w] = IdleWorker]
     /\ UNCHANGED <<etag, index, discovery, poller, sweeper, aborts>>

\* Fault: the failure moves the version cursor on.
RecordFailureAdvances(w) ==
  /\ worker[w].pc = "failed"
  /\ cat' = [cat EXCEPT ![worker[w].cat].reason = "set",
                        ![worker[w].cat].version = @ + 1]
  /\ worker' = [worker EXCEPT ![w].pc = "recorded"]
  /\ UNCHANGED <<row, etag, index, discovery, poller, sweeper, aborts>>

\* Fault: the upsert writes the NULL version of its INSERT branch.
RecordFailureResets(w) ==
  /\ worker[w].pc = "failed"
  /\ cat' = [cat EXCEPT ![worker[w].cat].reason = "set",
                        ![worker[w].cat].version = 0]
  /\ worker' = [worker EXCEPT ![w].pc = "recorded"]
  /\ UNCHANGED <<row, etag, index, discovery, poller, sweeper, aborts>>

\* Not fenced by the claim; the version is left alone.
RecordFailure(w) ==
  /\ worker[w].pc = "failed"
  /\ cat' = [cat EXCEPT ![worker[w].cat].reason = "set"]
  /\ worker' = [worker EXCEPT ![w].pc = "recorded"]
  /\ UNCHANGED <<row, etag, index, discovery, poller, sweeper, aborts>>

\* SyncNext parks a permanent failure and the last allowed attempt.
MustPark(w) ==
  \/ worker[w].failure = "permanent"
  \/ MaxAttempts # 0 /\ worker[w].attempts + 1 >= MaxAttempts

Rescheduled(r) ==
  [r EXCEPT !.attempts = Bump(@, AttemptCap), !.due = "later",
            !.claimedAt = "null", !.claimId = NoClaim, !.status = "queued"]

Reschedule(w) ==
  LET c == worker[w].cat
  IN /\ worker[w].pc = "recorded"
     /\ ~MustPark(w)
     /\ row' = IF Holds(w) THEN [row EXCEPT ![c] = Rescheduled(@)] ELSE row
     /\ worker' = [worker EXCEPT ![w] = IdleWorker]
     /\ UNCHANGED <<cat, etag, index, discovery, poller, sweeper, aborts>>

Parked(r) ==
  [r EXCEPT !.attempts = Bump(@, AttemptCap), !.claimedAt = "null",
            !.claimId = NoClaim, !.status = "parked", !.due = "never",
            !.parkCount = Bump(@, ParkCap), !.parkedAt = "recent"]

Park(w) ==
  LET c == worker[w].cat
  IN /\ worker[w].pc = "recorded"
     /\ MustPark(w)
     /\ row' = IF Holds(w) THEN [row EXCEPT ![c] = Parked(@)] ELSE row
     /\ worker' = [worker EXCEPT ![w] = IdleWorker]
     /\ UNCHANGED <<cat, etag, index, discovery, poller, sweeper, aborts>>

-----------------------------------------------------------------------------
(* RequeueOrAbandonParked: two UPDATEs, not one transaction *)

Revivable(r) ==
  r.status = "parked" /\ r.parkedAt = "old" /\ r.parkCount <= MaxParkCount

\* Fault: >= for >, the very off-by-one the comment on maxParkCount warns of.
AbandonableOneEarly(r) ==
  r.status = "parked" /\ r.parkedAt = "old" /\ r.parkCount >= MaxParkCount

Abandonable(r) ==
  r.status = "parked" /\ r.parkedAt = "old" /\ r.parkCount > MaxParkCount

Revived(r) ==
  [r EXCEPT !.status = "queued", !.attempts = 0, !.due = "now", !.parkedAt = "null"]

Abandoned(r) == [r EXCEPT !.status = "abandoned", !.abandonedAt = "set"]

Revive(s) ==
  /\ sweeper[s] = "idle"
  /\ row' = [c \in Catalogs |->
               IF Revivable(row[c]) THEN Revived(row[c]) ELSE row[c]]
  /\ sweeper' = [sweeper EXCEPT ![s] = "revived"]
  /\ UNCHANGED <<cat, etag, index, discovery, worker, poller, aborts>>

Abandon(s) ==
  /\ sweeper[s] = "revived"
  /\ row' = [c \in Catalogs |->
               IF Abandonable(row[c]) THEN Abandoned(row[c]) ELSE row[c]]
  /\ sweeper' = [sweeper EXCEPT ![s] = "idle"]
  /\ UNCHANGED <<cat, etag, index, discovery, worker, poller, aborts>>

-----------------------------------------------------------------------------
(* Crashes and time *)

\* The process dies, or a store call fails and the pass is given up: its
\* progress is lost and its claim, if it has one, is left to lapse.
WorkerAborts(w) ==
  /\ worker[w].pc # "idle"
  /\ worker' = [worker EXCEPT ![w] = IdleWorker]
  /\ UNCHANGED <<poller, sweeper>>

PollerAborts(p) ==
  /\ poller[p].pc # "idle"
  /\ poller' = [poller EXCEPT ![p] = IdlePoller]
  /\ UNCHANGED <<worker, sweeper>>

SweeperAborts(s) ==
  /\ sweeper[s] # "idle"
  /\ sweeper' = [sweeper EXCEPT ![s] = "idle"]
  /\ UNCHANGED <<worker, poller>>

Abort ==
  /\ aborts < MaxAborts
  /\ aborts' = aborts + 1
  /\ \/ \E w \in Workers : WorkerAborts(w)
     \/ \E p \in Pollers : PollerAborts(p)
     \/ \E s \in Sweepers : SweeperAborts(s)
  /\ UNCHANGED <<row, cat, etag, index, discovery>>

\* claimed_at < now() - claimLease.  When leases are honoured only the claim
\* of a process that is gone gets that old.
LeaseLapses(c) ==
  /\ row[c].claimedAt = "fresh"
  /\ LeaseHonoured => \A w \in Workers : worker[w].claim # row[c].claimId
  /\ row' = [row EXCEPT ![c] = [@ EXCEPT !.claimedAt = "lapsed"]]
  /\ UNCHANGED <<cat, etag, index, discovery, worker, poller, sweeper, aborts>>

BackoffElapses(c) ==
  /\ row[c].due = "later"
  /\ row' = [row EXCEPT ![c] = [@ EXCEPT !.due = "now"]]
  /\ UNCHANGED <<cat, etag, index, discovery, worker, poller, sweeper, aborts>>

ParkAges(c) ==
  /\ row[c].parkedAt = "recent"
  /\ row' = [row EXCEPT ![c] = [@ EXCEPT !.parkedAt = "old"]]
  /\ UNCHANGED <<cat, etag, index, discovery, worker, poller, sweeper, aborts>>

-----------------------------------------------------------------------------
PollerStep(p) == PollDecide(p) \/ UpsertIndexCursor(p)

WorkerStep(w) == \/ FetchIndex(w) \/ Push(w) \/ SyncFails(w) \/ Complete(w)
                 \/ RecordFailure(w) \/ Reschedule(w) \/ Park(w)

SweeperStep(s) == Revive(s) \/ Abandon(s)

TimePasses(c) == LeaseLapses(c) \/ BackoffElapses(c) \/ ParkAges(c)

Next ==
  \/ \E c \in Catalogs : Publish(c) \/ TimePasses(c)
  \/ \E p \in Pollers : PollerStep(p) \/ \E c \in Catalogs : PollFetch(p, c)
  \/ \E w \in Workers : WorkerStep(w) \/ \E c \in Catalogs : ClaimNext(w, c)
  \/ \E s \in Sweepers : SweeperStep(s)
  \/ Abort

Spec == Init /\ [][Next]_vars

\* The loops of scheduler.go tick for as long as the process runs and every
\* store and HTTP call has a timeout, so a pass that is under way goes on.
\* ClaimNext takes the row that has been due longest (ORDER BY
\* next_attempt_at) and a poll pass visits every index, so neither starves a
\* catalog: strong fairness per catalog.  The publisher and aborts owe nothing.
Fairness ==
  /\ \A w \in Workers : WF_vars(WorkerStep(w))
  /\ \A c \in Catalogs : SF_vars(\E w \in Workers : ClaimNext(w, c))
  /\ \A p \in Pollers : WF_vars(PollerStep(p))
  /\ \A c \in Catalogs : SF_vars(\E p \in Pollers : PollFetch(p, c))
  /\ \A s \in Sweepers : WF_vars(SweeperStep(s))
  /\ \A c \in Catalogs : WF_vars(LeaseLapses(c))
  /\ \A c \in Catalogs : WF_vars(BackoffElapses(c))
  /\ \A c \in Catalogs : WF_vars(ParkAges(c))

FairSpec == Spec /\ Fairness

-----------------------------------------------------------------------------
(* Safety, whatever the leases do *)

RowOK(r) ==
  /\ (r.status = "in_progress") <=> (r.claimedAt # "null")
  /\ (r.claimedAt # "null") <=> (r.claimId # NoClaim)
  /\ (r.status \in {"parked", "abandoned"}) <=> (r.due = "never")
  /\ (r.status \in {"parked", "abandoned"}) <=> (r.parkedAt # "null")
  /\ (r.status = "abandoned") <=> (r.abandonedAt = "set")
  /\ r.status = "in_progress" => r.due = "now"
  /\ r.status = "none" => r = NoRow

\* A queue row's columns agree in every interleaving of the statements that
\* touch it (Enqueue, ClaimNext, Reschedule, Park, the two sweep UPDATEs): it
\* is in_progress exactly while it carries a claim, and it is out of
\* ClaimNext's reach exactly while it is parked or abandoned.
RowConsistent == \A c \in Catalogs : RowOK(row[c])

\* A claim token identifies one pass: no two workers carry the same one, and
\* a row's token is carried, if at all, by a worker that syncs that catalog.
ClaimsUnique ==
  /\ \A w \in Workers : (worker[w].pc = "idle") <=> (worker[w].claim = NoClaim)
  /\ \A w1, w2 \in Workers :
       worker[w1].claim = worker[w2].claim /\ worker[w1].claim # NoClaim => w1 = w2
  /\ \A w \in Workers, c \in Catalogs :
       row[c].claimId = worker[w].claim /\ worker[w].claim # NoClaim
         => worker[w].cat = c
  /\ \A c1, c2 \in Catalogs :
       row[c1].claimId = row[c2].claimId /\ row[c1].claimId # NoClaim => c1 = c2

BudgetOK(r) ==
  /\ r.status = "abandoned" => r.parkCount > MaxParkCount
  /\ r.status \in {"queued", "in_progress"} /\ MaxAttempts # 0
       => r.attempts < MaxAttempts

\* RequeueOrAbandonParked gives up only on a catalog that was parked more
\* than maxParkCount times, although its two UPDATEs interleave with claims,
\* new parks and other instances' sweeps (the README's "fewer than" and "once
\* reached" are one park earlier); and a row that can be retried has attempts
\* left.
BudgetsSpent == \A c \in Catalogs : BudgetOK(row[c])

\* Nothing takes a row from under the worker that holds it while its lease
\* runs: a claim that has not lapsed ends only in its holder's own settle
\* step, not by a coalescing Enqueue, by a sweep, or by another worker's
\* late Complete, Reschedule or Park.
LiveClaimIsFenced ==
  [][\A c \in Catalogs :
       row[c].claimedAt = "fresh" /\ row'[c].claimId # row[c].claimId
         => \E w \in Workers : /\ worker[w].claim = row[c].claimId
                               /\ worker[w].cat = c
                               /\ worker'[w].pc = "idle"]_vars

\* An abandoned catalog comes back only because a poll saw an index entry
\* newer than its cursor: no sweep, backoff or late worker revives it.
AbandonedIsTerminal ==
  [][\A c \in Catalogs :
       row[c].status = "abandoned" /\ row'[c].status # "abandoned"
         => /\ row'[c].status = "queued"
            /\ \E p \in Pollers : /\ poller[p].cat = c
                                  /\ poller[p].ver > cat[c].version
                                  /\ poller'[p].pc = "decided"]_vars

-----------------------------------------------------------------------------
(* Safety when no sync outlives its lease *)

\* A worker that is in the middle of a sync is the row's current holder.
WorkersHold ==
  \A w \in Workers : worker[w].pc # "idle" => Holds(w) /\ row[worker[w].cat].claimedAt = "fresh"

\* Every parked or abandoned catalog has its failure on record, for /status
\* and ListAbandoned to report.
ParkedHasReason ==
  \A c \in Catalogs :
    row[c].status \in {"parked", "abandoned"} => cat[c].reason = "set"

\* A catalog with no queue row is at rest: Discovery holds exactly the
\* version the cursor records.  A push that failed half-way, or whose worker
\* died before Complete, always leaves a row that will redo it or report it.
DiscoveryMatchesCursor ==
  \A c \in Catalogs :
    row[c].status = "none" => discovery[c] = cat[c].version

\* The crawler as a whole moves each cursor forward only, to declared versions.
Abstract == INSTANCE CatalogSync
              WITH published <- index,
                   applied <- [c \in Catalogs |-> cat[c].version]
ImplementsCatalogSync == Abstract!Spec

-----------------------------------------------------------------------------
(* Liveness *)

\* With a finite attempt budget, finitely many publishes and finitely many
\* crashes, every queued catalog is at last synced or abandoned: no claim of a
\* dead worker, no backoff and no parked row holds it up for ever.
EveryRowSettles ==
  \A c \in Catalogs :
    (row[c].status # "none") ~> (row[c].status \in {"none", "abandoned"})

-----------------------------------------------------------------------------
(* What the store says and the code does not do *)

\* queue.go: "there is no 'superseded by a newer target' case to detect": once
\* no poll is under way and the queue row is gone, the cursor has reached the
\* version whose index validators are stored.
NoSupersededTarget ==
  \A c \in Catalogs :
    /\ row[c].status = "none"
    /\ \A p \in Pollers : poller[p].cat # c
    => cat[c].version >= etag[c]

\* 0002_claim_id.sql: "each ClaimNext stamps a fresh claim_id so only the holder
\* can settle": a catalog's version cursor moves only in the Complete of the
\* worker that holds the row's claim at that moment.
OnlyHolderSettles ==
  [][\A c \in Catalogs :
       cat'[c].version # cat[c].version
         => \E w \in Workers : /\ worker[w].cat = c
                               /\ worker[w].pc = "pushed"
                               /\ worker'[w].pc = "idle"
                               /\ worker[w].claim = row[c].claimId]_vars
=============================================================================
