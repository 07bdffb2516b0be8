--------------------------- MODULE CrawlerProofs ---------------------------
(***************************************************************************)
(* Proofs about the catalog crawler, in three parts: CrawlQueue for every  *)
(* number of catalogs, loops and claim tokens; CrawlQueue when no sync     *)
(* outlives its lease; and DiscoverySink for every set of documents and    *)
(* every size limit.                                                       *)
(***************************************************************************)
EXTENDS CrawlQueue, DiscoverySink, WellFoundedInduction, TLAPS


\* A loop in the middle of a pass works on a catalog.
Busy ==
  /\ \A w \in Workers : worker[w].pc # "idle" => worker[w].cat \in Catalogs
  /\ \A p \in Pollers : poller[p].pc # "idle" => poller[p].cat \in Catalogs

TypeInv == TypeOK /\ Busy

-----------------------------------------------------------------------------
(* Type correctness *)

\* Bump counts up to its cap and never past it.
LEMMA BumpType ==
  ASSUME NEW cap \in Nat, NEW n \in 0 .. cap
  PROVE  Bump(n, cap) \in 0 .. cap
  BY DEF Bump

\* Every statement on crawler_queue leaves a row of the table's type.
LEMMA RowTypes ==
  ASSUME NEW r \in Row
  PROVE  /\ NoRow \in Row
         /\ \A op \in {"sync", "retire"} : Enqueue(r, op) \in Row
         /\ \A k \in ClaimIds : Claimed(r, k) \in Row
         /\ Rescheduled(r) \in Row
         /\ Parked(r) \in Row
         /\ Revived(r) \in Row
         /\ Abandoned(r) \in Row
         /\ [r EXCEPT !.claimedAt = "lapsed"] \in Row
         /\ [r EXCEPT !.due = "now"] \in Row
         /\ [r EXCEPT !.parkedAt = "old"] \in Row
<1>0. 0 \in 0 .. AttemptCap /\ 0 \in 0 .. ParkCap
  BY CrawlQueueAssumption
<1>1. NoRow \in Row
  BY <1>0 DEF Row, NoRow
<1>2. ASSUME NEW op \in {"sync", "retire"}
      PROVE  Enqueue(r, op) \in Row
  <2>1. CASE r.status = "none"
    BY <1>0, <2>1 DEF Enqueue, Row, NoRow
  <2>2. CASE r.status # "none" /\ r.claimedAt = "null"
    BY <1>0, <2>2 DEF Enqueue, Row
  <2>3. CASE r.status # "none" /\ r.claimedAt # "null"
    BY <2>3 DEF Enqueue, Row
  <2> QED BY <2>1, <2>2, <2>3
<1>3. ASSUME NEW k \in ClaimIds
      PROVE  Claimed(r, k) \in Row
  BY DEF Claimed, Row
<1>4. /\ Bump(r.attempts, AttemptCap) \in 0 .. AttemptCap
      /\ Bump(r.parkCount, ParkCap) \in 0 .. ParkCap
  BY CrawlQueueAssumption, BumpType DEF Row
<1>5. Rescheduled(r) \in Row
  BY <1>4 DEF Rescheduled, Row
<1>6. Parked(r) \in Row
  BY <1>4 DEF Parked, Row
<1>7. Revived(r) \in Row /\ Abandoned(r) \in Row
  BY <1>0 DEF Revived, Abandoned, Row
<1>8. /\ [r EXCEPT !.claimedAt = "lapsed"] \in Row
      /\ [r EXCEPT !.due = "now"] \in Row
      /\ [r EXCEPT !.parkedAt = "old"] \in Row
  BY DEF Row
<1> QED BY <1>1, <1>2, <1>3, <1>5, <1>6, <1>7, <1>8

LEMMA TypeInit == Init => TypeInv
  BY CrawlQueueAssumption
  DEF Init, TypeInv, TypeOK, Busy, Row, NoRow, Catalog, NoCursor, Worker,
      IdleWorker, Poller, IdlePoller, Versions, Partial

LEMMA TypePoller ==
  ASSUME TypeInv, NEW p \in Pollers,
         PollerStep(p) \/ \E c \in Catalogs : PollFetch(p, c)
  PROVE  TypeInv'
<1> USE CrawlQueueAssumption
<1>1. ASSUME NEW c \in Catalogs, PollFetch(p, c)
      PROVE  TypeInv'
  BY <1>1 DEF PollFetch, TypeInv, TypeOK, Busy, Poller
<1>2. CASE PollDecide(p)
  <2>1. poller[p].cat \in Catalogs /\ poller[p].ver \in Versions
    BY <1>2 DEF PollDecide, TypeInv, TypeOK, Busy, Poller
  <2>2. row' \in [Catalogs -> Row]
    <3>1. Enqueue(row[poller[p].cat], Op(poller[p].ver)) \in Row
      BY <2>1, RowTypes DEF TypeInv, TypeOK, Op
    <3> QED BY <1>2, <2>1, <3>1 DEF PollDecide, TypeInv, TypeOK
  <2>3. poller' \in [Pollers -> Poller]
    BY <1>2 DEF PollDecide, TypeInv, TypeOK, Poller
  <2> QED BY <1>2, <2>2, <2>3 DEF PollDecide, TypeInv, TypeOK, Busy, Poller
<1>3. CASE UpsertIndexCursor(p)
  BY <1>3 DEF UpsertIndexCursor, TypeInv, TypeOK, Busy, Poller, IdlePoller, Versions
<1> QED BY <1>1, <1>2, <1>3 DEF PollerStep

LEMMA TypeClaim ==
  ASSUME TypeInv, NEW w \in Workers, NEW c \in Catalogs, ClaimNext(w, c)
  PROVE  TypeInv'
<1> USE CrawlQueueAssumption DEF TypeInv, TypeOK, Busy
<1>1. PICK k \in ClaimIds :
        /\ row' = [row EXCEPT ![c] = Claimed(@, k)]
        /\ worker' = [worker EXCEPT ![w] =
                        [pc |-> "claimed", cat |-> c, claim |-> k,
                         attempts |-> row[c].attempts, ver |-> 0,
                         failure |-> "none"]]
  BY DEF ClaimNext
<1>2. row' \in [Catalogs -> Row]
  BY <1>1, RowTypes
<1>3. worker' \in [Workers -> Worker]
  BY <1>1 DEF Row, Worker, Versions
<1> QED BY <1>1, <1>2, <1>3 DEF ClaimNext, Worker

LEMMA TypeWorker ==
  ASSUME TypeInv, NEW w \in Workers, WorkerStep(w)
  PROVE  TypeInv'
<1> USE CrawlQueueAssumption DEF TypeInv, TypeOK, Busy
<1>0. worker[w] \in Worker /\ worker[w].pc # "idle" /\ worker[w].cat \in Catalogs
  BY DEF WorkerStep, FetchIndex, Push, SyncFails, Complete, RecordFailure,
         Reschedule, Park, Worker
<1>1. CASE FetchIndex(w)
  BY <1>0, <1>1 DEF FetchIndex, Worker
<1>2. CASE Push(w)
  BY <1>0, <1>2 DEF Push, Worker, Versions, Partial
<1>3. CASE SyncFails(w)
  <2>1. PICK f \in {"transient", "permanent"} :
          worker' = [worker EXCEPT ![w] = [@ EXCEPT !.pc = "failed", !.failure = f]]
    BY <1>3 DEF SyncFails
  <2>3. worker' \in [Workers -> Worker] /\ Busy'
    BY <1>0, <1>3, <2>1 DEF SyncFails, Worker
  <2>2. discovery' \in [Catalogs -> 0 .. Partial]
    BY <1>0, <1>3 DEF SyncFails, Partial
  <2> QED BY <1>3, <2>2, <2>3 DEF SyncFails
<1>4. CASE Complete(w)
  <2>1. UpsertCatalog(cat[worker[w].cat], worker[w].ver) \in Catalog
    BY <1>0 DEF UpsertCatalog, Catalog, Worker
  <2>2. NoRow \in Row /\ IdleWorker \in Worker
    BY DEF NoRow, Row, IdleWorker, Worker, Versions
  <2> QED BY <1>0, <1>4, <2>1, <2>2 DEF Complete, IdleWorker
<1>5. CASE RecordFailure(w)
  BY <1>0, <1>5 DEF RecordFailure, Worker, Catalog
<1>6. CASE Reschedule(w) \/ Park(w)
  <2>0. Rescheduled(row[worker[w].cat]) \in Row /\ Parked(row[worker[w].cat]) \in Row
    BY <1>0, RowTypes
  <2>1. row' \in [Catalogs -> Row]
    BY <1>0, <1>6, <2>0 DEF Reschedule, Park
  <2>2. worker' \in [Workers -> Worker] /\ Busy'
    BY <1>6 DEF Reschedule, Park, IdleWorker, Worker, Versions
  <2> QED BY <1>6, <2>1, <2>2 DEF Reschedule, Park
<1> QED BY <1>1, <1>2, <1>3, <1>4, <1>5, <1>6 DEF WorkerStep

LEMMA TypeSweeper ==
  ASSUME TypeInv, NEW s \in Sweepers, SweeperStep(s)
  PROVE  TypeInv'
<1>0. \A c \in Catalogs : Revived(row[c]) \in Row /\ Abandoned(row[c]) \in Row
  BY RowTypes DEF TypeInv, TypeOK
<1>1. row' \in [Catalogs -> Row]
  BY <1>0 DEF SweeperStep, Revive, Abandon, TypeInv, TypeOK
<1> QED BY <1>1 DEF SweeperStep, Revive, Abandon, TypeInv, TypeOK, Busy

LEMMA TypeTime ==
  ASSUME TypeInv, NEW c \in Catalogs, TimePasses(c)
  PROVE  TypeInv'
<1>0. /\ [row[c] EXCEPT !.claimedAt = "lapsed"] \in Row
      /\ [row[c] EXCEPT !.due = "now"] \in Row
      /\ [row[c] EXCEPT !.parkedAt = "old"] \in Row
  BY RowTypes DEF TypeInv, TypeOK
<1>1. row' \in [Catalogs -> Row]
  BY <1>0 DEF TimePasses, LeaseLapses, BackoffElapses, ParkAges, TypeInv, TypeOK
<1> QED BY <1>1 DEF TimePasses, LeaseLapses, BackoffElapses, ParkAges,
                    TypeInv, TypeOK, Busy

LEMMA TypeAbort ==
  ASSUME TypeInv, Abort
  PROVE  TypeInv'
<1> USE CrawlQueueAssumption DEF TypeInv, TypeOK, Busy, Abort
<1>1. aborts' \in 0 .. MaxAborts
  OBVIOUS
<1>2. IdleWorker \in Worker /\ IdlePoller \in Poller
  BY DEF IdleWorker, Worker, IdlePoller, Poller, Versions
<1>3. ASSUME NEW w \in Workers, WorkerAborts(w)
      PROVE  TypeInv'
  BY <1>1, <1>2, <1>3 DEF WorkerAborts, IdleWorker
<1>4. ASSUME NEW p \in Pollers, PollerAborts(p)
      PROVE  TypeInv'
  BY <1>1, <1>2, <1>4 DEF PollerAborts, IdlePoller
<1>5. ASSUME NEW s \in Sweepers, SweeperAborts(s)
      PROVE  TypeInv'
  BY <1>1, <1>5 DEF SweeperAborts
<1> QED BY <1>3, <1>4, <1>5

LEMMA TypeNext == TypeInv /\ [Next]_vars => TypeInv'
<1> SUFFICES ASSUME TypeInv, [Next]_vars PROVE TypeInv'
  OBVIOUS
<1>1. ASSUME NEW c \in Catalogs, Publish(c)
      PROVE  TypeInv'
  BY <1>1, CrawlQueueAssumption DEF Publish, TypeInv, TypeOK, Busy, Versions
<1>2. CASE UNCHANGED vars
  BY <1>2 DEF vars, TypeInv, TypeOK, Busy
<1> QED BY <1>1, <1>2, TypePoller, TypeClaim, TypeWorker, TypeSweeper, TypeTime,
           TypeAbort DEF Next

\* Every table and every loop's state keeps its type, for any number of
\* catalogs, loops and tokens; in particular the abstract counters stay in
\* their bounds and Discovery only ever holds declared versions or parts.
THEOREM TypeCorrect == Spec => []TypeOK
<1>1. TypeInv => TypeOK
  BY DEF TypeInv
<1> QED BY <1>1, TypeInit, TypeNext, PTL DEF Spec

-----------------------------------------------------------------------------
(* What one step may do to one queue row *)

\* The worker's last statement on its claim: delete, reschedule or park.
Settled(w, c, r) ==
  /\ WorkerStep(w)
  /\ worker[w].pc # "idle"
  /\ worker[w].cat = c
  /\ row[c].claimId = worker[w].claim
  /\ \/ r = NoRow
     \/ ~MustPark(w) /\ r = Rescheduled(row[c])
     \/ r = Parked(row[c])
  /\ worker' = [worker EXCEPT ![w] = IdleWorker]

\* A poll that saw a newer entry enqueued c.
Enqueued(p, c, r) ==
  /\ poller[p].cat = c
  /\ poller[p].ver > cat[c].version
  /\ poller'[p].pc = "decided"
  /\ worker' = worker
  /\ r = Enqueue(row[c], Op(poller[p].ver))

NewClaim(w, c, k, r) ==
  /\ worker[w].pc = "idle"
  /\ Claimable(row[c])
  /\ k \in ClaimIds \ ClaimsInUse
  /\ r = Claimed(row[c], k)
  /\ worker' = [worker EXCEPT ![w] =
                  [pc |-> "claimed", cat |-> c, claim |-> k,
                   attempts |-> row[c].attempts, ver |-> 0, failure |-> "none"]]

SweptOrAged(c, r) ==
  /\ worker' = worker
  /\ \/ Revivable(row[c]) /\ r = Revived(row[c])
     \/ Abandonable(row[c]) /\ r = Abandoned(row[c])
     \/ /\ row[c].claimedAt = "fresh"
        /\ LeaseHonoured => \A w \in Workers : worker[w].claim # row[c].claimId
        /\ r = [row[c] EXCEPT !.claimedAt = "lapsed"]
     \/ row[c].due = "later" /\ r = [row[c] EXCEPT !.due = "now"]
     \/ row[c].parkedAt = "recent" /\ r = [row[c] EXCEPT !.parkedAt = "old"]

RowStep(c) ==
  \/ row'[c] = row[c]
  \/ \E p \in Pollers : Enqueued(p, c, row'[c])
  \/ \E w \in Workers, k \in ClaimIds : NewClaim(w, c, k, row'[c])
  \/ \E w \in Workers : Settled(w, c, row'[c])
  \/ SweptOrAged(c, row'[c])

\* Every change of a queue row is one of the store's statements on that row.
LEMMA RowSteps ==
  ASSUME TypeInv, [Next]_vars, NEW c \in Catalogs
  PROVE  RowStep(c)
<1> USE DEF TypeInv, TypeOK
<1>1. ASSUME NEW p \in Pollers, PollDecide(p)
      PROVE  RowStep(c)
  BY <1>1, CrawlQueueAssumption
  DEF PollDecide, RowStep, Enqueued, Poller, Catalog, Versions
<1>2. ASSUME NEW w \in Workers, NEW d \in Catalogs, ClaimNext(w, d)
      PROVE  RowStep(c)
  <2>1. PICK k \in ClaimIds \ ClaimsInUse :
          /\ row' = [row EXCEPT ![d] = Claimed(@, k)]
          /\ worker' = [worker EXCEPT ![w] =
                          [pc |-> "claimed", cat |-> d, claim |-> k,
                           attempts |-> row[d].attempts, ver |-> 0,
                           failure |-> "none"]]
    BY <1>2 DEF ClaimNext
  <2>2. CASE c = d
    <3>1. NewClaim(w, c, k, row'[c])
      BY <1>2, <2>1, <2>2 DEF ClaimNext, NewClaim
    <3> QED BY <3>1 DEF RowStep
  <2>3. CASE c # d
    BY <2>1, <2>3 DEF RowStep
  <2> QED BY <2>2, <2>3
<1>3. ASSUME NEW w \in Workers, WorkerStep(w)
      PROVE  RowStep(c)
  <2>1. CASE row'[c] = row[c]
    BY <2>1 DEF RowStep
  <2>2. CASE row'[c] # row[c]
    <3>1. Complete(w) \/ Reschedule(w) \/ Park(w)
      BY <1>3, <2>2 DEF WorkerStep, FetchIndex, Push, SyncFails, RecordFailure
    <3>2. worker[w].cat = c /\ Holds(w)
      BY <2>2, <3>1 DEF Complete, Reschedule, Park
    <3>3. Settled(w, c, row'[c])
      BY <1>3, <3>1, <3>2 DEF Complete, Reschedule, Park, Settled, Holds
    <3> QED BY <3>3 DEF RowStep
  <2> QED BY <2>1, <2>2
<1>4. ASSUME NEW s \in Sweepers, SweeperStep(s)
      PROVE  RowStep(c)
  BY <1>4 DEF SweeperStep, Revive, Abandon, RowStep, SweptOrAged
<1>5. ASSUME NEW d \in Catalogs, TimePasses(d)
      PROVE  RowStep(c)
  BY <1>5 DEF TimePasses, LeaseLapses, BackoffElapses, ParkAges, RowStep, SweptOrAged
<1>6. CASE row' = row
  BY <1>6 DEF RowStep
<1>7. \/ row' = row
      \/ \E p \in Pollers : PollDecide(p)
      \/ \E w \in Workers, d \in Catalogs : ClaimNext(w, d)
      \/ \E w \in Workers : WorkerStep(w)
      \/ \E s \in Sweepers : SweeperStep(s)
      \/ \E d \in Catalogs : TimePasses(d)
  BY DEF Next, vars, Publish, PollerStep, PollFetch, UpsertIndexCursor, Abort
<1> QED BY <1>1, <1>2, <1>3, <1>4, <1>5, <1>6, <1>7

-----------------------------------------------------------------------------
(* The queue's inductive invariant *)

\* A holder's copy of the row's attempts is current.
AttemptsKnown ==
  \A w \in Workers :
    worker[w].pc # "idle" /\ Holds(w)
      => worker[w].attempts = row[worker[w].cat].attempts

QueueInv == /\ TypeInv
            /\ RowConsistent
            /\ ClaimsUnique
            /\ BudgetsSpent
            /\ AttemptsKnown

\* Each statement keeps a row's columns in agreement.
LEMMA RowsStayOK ==
  ASSUME NEW r \in Row, RowOK(r)
  PROVE  /\ RowOK(NoRow)
         /\ \A op \in {"sync", "retire"} : RowOK(Enqueue(r, op))
         /\ Claimable(r) => \A k \in ClaimIds : RowOK(Claimed(r, k))
         /\ r.claimId # NoClaim => RowOK(Rescheduled(r)) /\ RowOK(Parked(r))
         /\ Revivable(r) => RowOK(Revived(r))
         /\ Abandonable(r) => RowOK(Abandoned(r))
         /\ r.claimedAt = "fresh" => RowOK([r EXCEPT !.claimedAt = "lapsed"])
         /\ r.due = "later" => RowOK([r EXCEPT !.due = "now"])
         /\ r.parkedAt = "recent" => RowOK([r EXCEPT !.parkedAt = "old"])
<1> USE CrawlQueueAssumption DEF Row, RowOK
<1>1. RowOK(NoRow)
  BY DEF NoRow
<1>2. ASSUME NEW op \in {"sync", "retire"}
      PROVE  RowOK(Enqueue(r, op))
  BY DEF Enqueue, NoRow
<1>3. ASSUME NEW k \in ClaimIds, Claimable(r)
      PROVE  RowOK(Claimed(r, k))
  BY <1>3 DEF Claimable, Claimed
<1>4. ASSUME r.claimId # NoClaim
      PROVE  RowOK(Rescheduled(r)) /\ RowOK(Parked(r))
  BY <1>4 DEF Rescheduled, Parked
<1>5. Revivable(r) => RowOK(Revived(r))
  BY DEF Revivable, Revived
<1>6. Abandonable(r) => RowOK(Abandoned(r))
  BY DEF Abandonable, Abandoned
<1>7. r.claimedAt = "fresh" => RowOK([r EXCEPT !.claimedAt = "lapsed"])
  OBVIOUS
<1>8. r.due = "later" => RowOK([r EXCEPT !.due = "now"])
  BY DEF NoRow
<1>9. r.parkedAt = "recent" => RowOK([r EXCEPT !.parkedAt = "old"])
  OBVIOUS
<1> QED BY <1>1, <1>2, <1>3, <1>4, <1>5, <1>6, <1>7, <1>8, <1>9

LEMMA RowConsistentStep ==
  ASSUME QueueInv, [Next]_vars
  PROVE  RowConsistent'
<1> SUFFICES ASSUME NEW c \in Catalogs PROVE RowOK(row'[c])
  BY DEF RowConsistent
<1>0. row[c] \in Row /\ RowOK(row[c])
  BY DEF QueueInv, TypeInv, TypeOK, RowConsistent
<1>1. ASSUME NEW p \in Pollers, Enqueued(p, c, row'[c])
      PROVE  RowOK(row'[c])
  BY <1>0, <1>1, RowsStayOK DEF Enqueued, Op
<1>2. ASSUME NEW w \in Workers, NEW k \in ClaimIds, NewClaim(w, c, k, row'[c])
      PROVE  RowOK(row'[c])
  BY <1>0, <1>2, RowsStayOK DEF NewClaim
<1>3. ASSUME NEW w \in Workers, Settled(w, c, row'[c])
      PROVE  RowOK(row'[c])
  <2>1. row[c].claimId # NoClaim
    BY <1>3 DEF Settled, QueueInv, ClaimsUnique
  <2> QED BY <1>0, <1>3, <2>1, RowsStayOK DEF Settled
<1>4. CASE SweptOrAged(c, row'[c])
  BY <1>0, <1>4, RowsStayOK DEF SweptOrAged
<1>5. RowStep(c)
  BY RowSteps DEF QueueInv
<1> QED BY <1>0, <1>1, <1>2, <1>3, <1>4, <1>5 DEF RowStep

LEMMA BudgetsSpentStep ==
  ASSUME QueueInv, [Next]_vars
  PROVE  BudgetsSpent'
<1> SUFFICES ASSUME NEW c \in Catalogs PROVE BudgetOK(row'[c])
  BY DEF BudgetsSpent
<1> USE CrawlQueueAssumption DEF BudgetOK, Row
<1>0. row[c] \in Row /\ BudgetOK(row[c])
  BY DEF QueueInv, TypeInv, TypeOK, BudgetsSpent
<1>1. ASSUME NEW p \in Pollers, Enqueued(p, c, row'[c])
      PROVE  BudgetOK(row'[c])
  BY <1>0, <1>1 DEF Enqueued, Enqueue, NoRow
<1>2. ASSUME NEW w \in Workers, NEW k \in ClaimIds, NewClaim(w, c, k, row'[c])
      PROVE  BudgetOK(row'[c])
  <2>1. row[c].status \in {"queued", "in_progress"}
    BY <1>0, <1>2 DEF NewClaim, Claimable, QueueInv, RowConsistent, RowOK
  <2> QED BY <1>0, <1>2, <2>1 DEF NewClaim, Claimed
<1>3. ASSUME NEW w \in Workers, Settled(w, c, row'[c])
      PROVE  BudgetOK(row'[c])
  <2>1. worker[w].attempts = row[c].attempts
    BY <1>3 DEF Settled, QueueInv, AttemptsKnown, Holds
  <2>2. ~MustPark(w) /\ MaxAttempts # 0 => Bump(row[c].attempts, AttemptCap) < MaxAttempts
    BY <1>0, <2>1 DEF MustPark, Bump
  <2>3. BudgetOK(NoRow) /\ BudgetOK(Parked(row[c]))
    BY <1>0 DEF Parked, NoRow
  <2>4. ~MustPark(w) => BudgetOK(Rescheduled(row[c]))
    BY <1>0, <2>2 DEF Rescheduled
  <2> QED BY <1>3, <2>3, <2>4 DEF Settled
<1>4. CASE SweptOrAged(c, row'[c])
  <2>1. Revivable(row[c]) => BudgetOK(Revived(row[c]))
    BY <1>0 DEF Revivable, Revived
  <2>2. Abandonable(row[c]) => BudgetOK(Abandoned(row[c]))
    BY <1>0 DEF Abandonable, Abandoned
  <2>3. /\ BudgetOK([row[c] EXCEPT !.claimedAt = "lapsed"])
        /\ BudgetOK([row[c] EXCEPT !.due = "now"])
        /\ BudgetOK([row[c] EXCEPT !.parkedAt = "old"])
    BY <1>0
  <2> QED BY <1>4, <2>1, <2>2, <2>3 DEF SweptOrAged
<1>5. RowStep(c)
  BY RowSteps DEF QueueInv
<1> QED BY <1>0, <1>1, <1>2, <1>3, <1>4, <1>5 DEF RowStep

\* A step that claims nothing creates no claim: a worker keeps its claim or
\* becomes idle, a row keeps its claim and its attempts or loses the claim.
ClaimsOnlyGo ==
  /\ \A w \in Workers :
       \/ worker'[w] = IdleWorker
       \/ /\ worker'[w].claim = worker[w].claim
          /\ worker'[w].cat = worker[w].cat
          /\ worker'[w].attempts = worker[w].attempts
          /\ (worker'[w].pc = "idle") <=> (worker[w].pc = "idle")
  /\ \A c \in Catalogs :
       \/ row'[c].claimId = NoClaim
       \/ /\ row'[c].claimId = row[c].claimId
          /\ row'[c].attempts = row[c].attempts

LEMMA WorkerClaims ==
  ASSUME TypeInv, NEW w \in Workers, WorkerStep(w)
  PROVE  /\ worker' = [worker EXCEPT ![w] = worker'[w]]
         /\ \/ worker'[w] = IdleWorker
            \/ /\ worker'[w].claim = worker[w].claim
               /\ worker'[w].cat = worker[w].cat
               /\ worker'[w].attempts = worker[w].attempts
               /\ worker'[w].pc # "idle" /\ worker[w].pc # "idle"
<1> USE DEF TypeInv, TypeOK
<1>1. CASE FetchIndex(w)
  BY <1>1 DEF FetchIndex, Worker
<1>2. CASE Push(w)
  BY <1>2 DEF Push, Worker
<1>3. CASE SyncFails(w)
  BY <1>3 DEF SyncFails, Worker
<1>4. CASE Complete(w) \/ Reschedule(w) \/ Park(w)
  BY <1>4 DEF Complete, Reschedule, Park
<1>5. CASE RecordFailure(w)
  BY <1>5 DEF RecordFailure, Worker
<1> QED BY <1>1, <1>2, <1>3, <1>4, <1>5 DEF WorkerStep

LEMMA ClaimSteps ==
  ASSUME QueueInv, [Next]_vars
  PROVE  \/ \E w \in Workers, c \in Catalogs, k \in ClaimIds :
              /\ NewClaim(w, c, k, row'[c])
              /\ row' = [row EXCEPT ![c] = Claimed(row[c], k)]
         \/ ClaimsOnlyGo
<1>1. ASSUME NEW w \in Workers, NEW c \in Catalogs, ClaimNext(w, c)
      PROVE  \E k \in ClaimIds : /\ NewClaim(w, c, k, row'[c])
                                 /\ row' = [row EXCEPT ![c] = Claimed(row[c], k)]
  <2>1. PICK k \in ClaimIds \ ClaimsInUse :
          /\ row' = [row EXCEPT ![c] = Claimed(@, k)]
          /\ worker' = [worker EXCEPT ![w] =
                          [pc |-> "claimed", cat |-> c, claim |-> k,
                           attempts |-> row[c].attempts, ver |-> 0,
                           failure |-> "none"]]
    BY <1>1 DEF ClaimNext
  <2>2. NewClaim(w, c, k, row'[c])
    BY <1>1, <2>1 DEF ClaimNext, NewClaim, QueueInv, TypeInv, TypeOK
  <2> QED BY <2>1, <2>2
<1>2. ASSUME ~ \E w \in Workers, c \in Catalogs : ClaimNext(w, c)
      PROVE  ClaimsOnlyGo
  <2>1. ASSUME NEW v \in Workers
        PROVE  \/ worker'[v] = IdleWorker
               \/ /\ worker'[v].claim = worker[v].claim
                  /\ worker'[v].cat = worker[v].cat
                  /\ worker'[v].attempts = worker[v].attempts
                  /\ (worker'[v].pc = "idle") <=> (worker[v].pc = "idle")
    <3>1. ASSUME NEW w \in Workers, WorkerStep(w)
          PROVE  \/ worker'[v] = worker[v]
                 \/ worker'[v] = IdleWorker
                 \/ /\ worker'[v].claim = worker[v].claim
                    /\ worker'[v].cat = worker[v].cat
                    /\ worker'[v].attempts = worker[v].attempts
                    /\ worker'[v].pc # "idle" /\ worker[v].pc # "idle"
      BY <3>1, WorkerClaims DEF QueueInv, TypeInv, TypeOK
    <3>2. CASE Abort
      BY <3>2 DEF Abort, WorkerAborts, PollerAborts, SweeperAborts, QueueInv,
                  TypeInv, TypeOK
    <3>3. \/ worker' = worker
          \/ \E w \in Workers : WorkerStep(w)
          \/ Abort
      BY <1>2 DEF Next, vars, Publish, PollerStep, PollFetch, PollDecide,
                  UpsertIndexCursor, SweeperStep, Revive, Abandon, TimePasses,
                  LeaseLapses, BackoffElapses, ParkAges
    <3> QED BY <3>1, <3>2, <3>3
  <2>2. ASSUME NEW c \in Catalogs
        PROVE  \/ row'[c].claimId = NoClaim
               \/ /\ row'[c].claimId = row[c].claimId
                  /\ row'[c].attempts = row[c].attempts
    <3>0. row[c] \in Row /\ RowOK(row[c])
      BY DEF QueueInv, TypeInv, TypeOK, RowConsistent
    <3>1. ASSUME NEW p \in Pollers, Enqueued(p, c, row'[c])
          PROVE  \/ row'[c].claimId = NoClaim
                 \/ /\ row'[c].claimId = row[c].claimId
                    /\ row'[c].attempts = row[c].attempts
      BY <3>0, <3>1 DEF Enqueued, Enqueue, NoRow, Row, RowOK
    <3>2. ASSUME NEW w \in Workers, NEW k \in ClaimIds, NewClaim(w, c, k, row'[c])
          PROVE  FALSE
      <4>1. k \notin ClaimsInUse /\ worker'[w].claim = k
        BY <3>2 DEF NewClaim, QueueInv, TypeInv, TypeOK
      <4>2. worker[w].claim \in ClaimsInUse
        BY DEF ClaimsInUse
      <4>3. worker'[w] # IdleWorker /\ worker'[w].claim # worker[w].claim
        BY <4>1, <4>2, CrawlQueueAssumption DEF IdleWorker
      <4> QED BY <2>1, <4>3
    <3>3. ASSUME NEW w \in Workers, Settled(w, c, row'[c])
          PROVE  row'[c].claimId = NoClaim
      <4>1. /\ NoRow.claimId = NoClaim
            /\ Rescheduled(row[c]).claimId = NoClaim
            /\ Parked(row[c]).claimId = NoClaim
        BY <3>0 DEF NoRow, Rescheduled, Parked, Row
      <4> QED BY <3>3, <4>1 DEF Settled
    <3>4. ASSUME SweptOrAged(c, row'[c])
          PROVE  \/ row'[c].claimId = NoClaim
                 \/ /\ row'[c].claimId = row[c].claimId
                    /\ row'[c].attempts = row[c].attempts
      <4>1. Revivable(row[c]) => Revived(row[c]).claimId = NoClaim
        BY <3>0 DEF Revivable, Revived, Row, RowOK
      <4> QED BY <3>0, <3>4, <4>1 DEF SweptOrAged, Abandoned, Row
    <3>5. RowStep(c)
      BY RowSteps DEF QueueInv
    <3> QED BY <3>1, <3>2, <3>3, <3>4, <3>5 DEF RowStep
  <2> QED BY <2>1, <2>2 DEF ClaimsOnlyGo
<1> QED BY <1>1, <1>2

LEMMA ClaimsStep ==
  ASSUME QueueInv, [Next]_vars
  PROVE  ClaimsUnique' /\ AttemptsKnown'
<1> USE CrawlQueueAssumption
<1>0. TypeOK /\ TypeOK' /\ Busy /\ Busy'
  BY TypeNext DEF QueueInv, TypeInv
<1>1. ASSUME NEW w \in Workers, NEW c \in Catalogs, NEW k \in ClaimIds,
             NewClaim(w, c, k, row'[c]),
             row' = [row EXCEPT ![c] = Claimed(row[c], k)]
      PROVE  ClaimsUnique' /\ AttemptsKnown'
  <2>1. /\ \A v \in Workers : worker[v].claim # k
        /\ \A d \in Catalogs : row[d].claimId # k
    BY <1>1 DEF NewClaim, ClaimsInUse
  <2>2. /\ worker'[w].pc = "claimed" /\ worker'[w].cat = c /\ worker'[w].claim = k
        /\ worker'[w].attempts = row[c].attempts
        /\ \A v \in Workers \ {w} : worker'[v] = worker[v]
    BY <1>0, <1>1 DEF NewClaim, TypeOK
  <2>3. /\ row'[c].claimId = k /\ row'[c].attempts = row[c].attempts
        /\ \A d \in Catalogs \ {c} : row'[d] = row[d]
    BY <1>0, <1>1 DEF Claimed, TypeOK, Row
  <2>4. k # NoClaim
    OBVIOUS
  <2>5. ClaimsUnique'
    BY <2>1, <2>2, <2>3, <2>4 DEF QueueInv, ClaimsUnique
  <2>6. AttemptsKnown'
    <3> SUFFICES ASSUME NEW v \in Workers, worker'[v].pc # "idle",
                        row'[worker'[v].cat].claimId = worker'[v].claim
                 PROVE  worker'[v].attempts = row'[worker'[v].cat].attempts
      BY DEF AttemptsKnown, Holds
    <3>1. CASE v = w
      BY <2>2, <2>3, <3>1
    <3>2. CASE v # w
      <4>1. worker'[v] = worker[v] /\ worker[v].cat \in Catalogs
        BY <1>0, <2>2, <3>2 DEF Busy
      <4>2. worker[v].cat # c
        BY <2>1, <2>3, <4>1
      <4> QED BY <2>3, <4>1, <4>2 DEF QueueInv, AttemptsKnown, Holds
    <3> QED BY <3>1, <3>2
  <2> QED BY <2>5, <2>6
<1>2. CASE ClaimsOnlyGo
  <2>1. ClaimsUnique'
    BY <1>2 DEF ClaimsOnlyGo, IdleWorker, QueueInv, ClaimsUnique
  <2>2. AttemptsKnown'
    <3> SUFFICES ASSUME NEW v \in Workers, worker'[v].pc # "idle",
                        row'[worker'[v].cat].claimId = worker'[v].claim
                 PROVE  worker'[v].attempts = row'[worker'[v].cat].attempts
      BY DEF AttemptsKnown, Holds
    <3>1. /\ worker'[v].claim = worker[v].claim
          /\ worker'[v].cat = worker[v].cat
          /\ worker'[v].attempts = worker[v].attempts
          /\ worker[v].pc # "idle"
      BY <1>2 DEF ClaimsOnlyGo, IdleWorker
    <3>2. worker[v].cat \in Catalogs /\ worker[v].claim # NoClaim
      BY <1>0, <3>1 DEF Busy, QueueInv, ClaimsUnique
    <3> QED BY <1>2, <3>1, <3>2 DEF ClaimsOnlyGo, QueueInv, AttemptsKnown, Holds
  <2> QED BY <2>1, <2>2
<1> QED BY <1>1, <1>2, ClaimSteps

LEMMA QueueInit == Init => QueueInv
<1> SUFFICES ASSUME Init PROVE QueueInv
  OBVIOUS
<1>1. TypeInv
  BY TypeInit
<1>2. /\ \A c \in Catalogs : row[c] = NoRow
      /\ \A w \in Workers : worker[w] = IdleWorker
  BY DEF Init
<1>3. RowConsistent /\ BudgetsSpent
  BY <1>2, CrawlQueueAssumption DEF RowConsistent, RowOK, BudgetsSpent, BudgetOK, NoRow
<1>4. ClaimsUnique /\ AttemptsKnown
  BY <1>2 DEF ClaimsUnique, AttemptsKnown, NoRow, IdleWorker
<1> QED BY <1>1, <1>3, <1>4 DEF QueueInv

LEMMA QueueNext == QueueInv /\ [Next]_vars => QueueInv'
  BY TypeNext, RowConsistentStep, BudgetsSpentStep, ClaimsStep DEF QueueInv

LEMMA QueueInvariant == Spec => []QueueInv
  BY QueueInit, QueueNext, PTL DEF Spec

\* The columns of every queue row agree, whatever the loops of whatever number
\* of instances do and however long they take.
THEOREM RowsConsistent == Spec => []RowConsistent
<1>1. QueueInv => RowConsistent
  BY DEF QueueInv
<1> QED BY <1>1, QueueInvariant, PTL

\* claim_id names one pass of one worker.
THEOREM TokensUnique == Spec => []ClaimsUnique
<1>1. QueueInv => ClaimsUnique
  BY DEF QueueInv
<1> QED BY <1>1, QueueInvariant, PTL

\* maxParkCount is used up before a catalog is abandoned, and a row ClaimNext
\* can hand out is below maxAttempts.
THEOREM BudgetsHold == Spec => []BudgetsSpent
<1>1. QueueInv => BudgetsSpent
  BY DEF QueueInv
<1> QED BY <1>1, QueueInvariant, PTL

\* While a claim's lease runs, only its own holder ends it.
THEOREM ClaimsFenced == Spec => LiveClaimIsFenced
<1> DEFINE Fenced(c) ==
      row[c].claimedAt = "fresh" /\ row'[c].claimId # row[c].claimId
        => \E w \in Workers : /\ worker[w].claim = row[c].claimId
                              /\ worker[w].cat = c
                              /\ worker'[w].pc = "idle"
<1>1. ASSUME QueueInv, [Next]_vars, NEW c \in Catalogs PROVE Fenced(c)
  <2> SUFFICES ASSUME row[c].claimedAt = "fresh", row'[c].claimId # row[c].claimId
               PROVE  \E w \in Workers : /\ worker[w].claim = row[c].claimId
                                         /\ worker[w].cat = c
                                         /\ worker'[w].pc = "idle"
    OBVIOUS
  <2>0. row[c] \in Row /\ RowOK(row[c])
    BY <1>1 DEF QueueInv, TypeInv, TypeOK, RowConsistent
  <2>1. ~ \E p \in Pollers : Enqueued(p, c, row'[c])
    BY <2>0 DEF Enqueued, Enqueue, Row, RowOK
  <2>2. ~ \E w \in Workers, k \in ClaimIds : NewClaim(w, c, k, row'[c])
    BY DEF NewClaim, Claimable
  <2>3. ~ SweptOrAged(c, row'[c])
    BY <2>0 DEF SweptOrAged, Revivable, Abandonable, Row, RowOK
  <2>4. PICK w \in Workers : Settled(w, c, row'[c])
    BY <1>1, <2>1, <2>2, <2>3, RowSteps DEF RowStep, QueueInv
  <2>5. worker'[w].pc = "idle"
    BY <1>1, <2>4 DEF Settled, QueueInv, TypeInv, TypeOK, IdleWorker
  <2> QED BY <2>4, <2>5 DEF Settled
<1>2. QueueInv /\ [Next]_vars => [\A c \in Catalogs : Fenced(c)]_vars
  BY <1>1
<1> QED BY <1>2, QueueInvariant, PTL DEF Spec, LiveClaimIsFenced

\* Only a poll of a newer index entry brings an abandoned catalog back.
THEOREM AbandonedStays == Spec => AbandonedIsTerminal
<1> DEFINE Terminal(c) ==
      row[c].status = "abandoned" /\ row'[c].status # "abandoned"
        => /\ row'[c].status = "queued"
           /\ \E p \in Pollers : /\ poller[p].cat = c
                                 /\ poller[p].ver > cat[c].version
                                 /\ poller'[p].pc = "decided"
<1>1. ASSUME QueueInv, [Next]_vars, NEW c \in Catalogs PROVE Terminal(c)
  <2> SUFFICES ASSUME row[c].status = "abandoned", row'[c].status # "abandoned"
               PROVE  /\ row'[c].status = "queued"
                      /\ \E p \in Pollers : /\ poller[p].cat = c
                                            /\ poller[p].ver > cat[c].version
                                            /\ poller'[p].pc = "decided"
    OBVIOUS
  <2>0. row[c] \in Row /\ RowOK(row[c])
    BY <1>1 DEF QueueInv, TypeInv, TypeOK, RowConsistent
  <2>1. ~ \E w \in Workers : Settled(w, c, row'[c])
    BY <1>1, <2>0 DEF Settled, RowOK, Row, QueueInv, ClaimsUnique
  <2>2. ~ \E w \in Workers, k \in ClaimIds : NewClaim(w, c, k, row'[c])
    BY <2>0 DEF NewClaim, Claimable, RowOK, Row
  <2>3. ~ SweptOrAged(c, row'[c])
    BY <2>0 DEF SweptOrAged, Revivable, Abandonable, Row, RowOK
  <2>4. PICK p \in Pollers : Enqueued(p, c, row'[c])
    BY <1>1, <2>1, <2>2, <2>3, RowSteps DEF RowStep, QueueInv
  <2>5. row'[c].status = "queued"
    BY <2>0, <2>4 DEF Enqueued, Enqueue, RowOK, Row
  <2> QED BY <2>4, <2>5 DEF Enqueued
<1>2. QueueInv /\ [Next]_vars => [\A c \in Catalogs : Terminal(c)]_vars
  BY <1>1
<1> QED BY <1>2, QueueInvariant, PTL DEF Spec, AbandonedIsTerminal

-----------------------------------------------------------------------------
(* What CrawlQueue guarantees when no sync outlives its lease: the holder  *)
(* of a claim is alone on its catalog, so the unfenced writes of Complete  *)
(* and RecordFailure are harmless and the whole implements CatalogSync.    *)


\* What a worker knows of its catalog stays true while it works.
WorkerKnows(w) ==
  LET c == worker[w].cat
  IN /\ worker[w].pc \in {"fetched", "pushed"}
          => cat[c].version <= worker[w].ver /\ worker[w].ver <= index[c]
     /\ worker[w].pc = "pushed" => discovery[c] = worker[w].ver
     /\ worker[w].pc = "recorded" => cat[c].reason = "set"

CatalogOK(c) ==
  /\ cat[c].version <= index[c]
  /\ row[c].status \in {"parked", "abandoned"} => cat[c].reason = "set"
  /\ row[c].status = "none" => discovery[c] = cat[c].version

LeaseInv == /\ QueueInv
            /\ WorkersHold
            /\ \A w \in Workers : WorkerKnows(w)
            /\ \A c \in Catalogs : CatalogOK(c)

-----------------------------------------------------------------------------
(* The holder is alone *)

LEMMA HolderAlone ==
  ASSUME QueueInv, WorkersHold, NEW v \in Workers, NEW w \in Workers, v # w,
         worker[v].pc # "idle", worker[w].pc # "idle"
  PROVE  worker[v].cat # worker[w].cat
  BY DEF QueueInv, ClaimsUnique, WorkersHold, Holds

LEMMA HoldStep ==
  ASSUME LeaseHonoured, QueueInv, WorkersHold, [Next]_vars
  PROVE  WorkersHold'
<1> SUFFICES ASSUME NEW v \in Workers, worker'[v].pc # "idle"
             PROVE  /\ row'[worker'[v].cat].claimId = worker'[v].claim
                    /\ row'[worker'[v].cat].claimedAt = "fresh"
  BY DEF WorkersHold, Holds
<1> USE DEF QueueInv, TypeInv, TypeOK
<1>1. CASE worker[v].pc = "idle"
  <2>1. ~ ClaimsOnlyGo
    BY <1>1 DEF ClaimsOnlyGo, IdleWorker
  <2>2. PICK w \in Workers, c \in Catalogs, k \in ClaimIds :
          /\ NewClaim(w, c, k, row'[c])
          /\ row' = [row EXCEPT ![c] = Claimed(row[c], k)]
    BY <2>1, ClaimSteps
  <2>3. v = w /\ worker'[v].cat = c /\ worker'[v].claim = k
    BY <1>1, <2>2 DEF NewClaim
  <2> QED BY <2>2, <2>3 DEF Claimed, Row
<1>2. CASE worker[v].pc # "idle"
  <2> DEFINE c == worker[v].cat
  <2>0. /\ c \in Catalogs /\ row[c] \in Row /\ RowOK(row[c])
        /\ row[c].claimId = worker[v].claim /\ row[c].claimedAt = "fresh"
        /\ row[c].status = "in_progress"
    BY <1>2 DEF Busy, RowConsistent, RowOK, WorkersHold, Holds
  <2>1. worker'[v].cat = c /\ worker'[v].claim = worker[v].claim
    <3>1. CASE ClaimsOnlyGo
      BY <3>1 DEF ClaimsOnlyGo, IdleWorker
    <3>2. ASSUME NEW w \in Workers, NEW d \in Catalogs, NEW k \in ClaimIds,
                 NewClaim(w, d, k, row'[d])
          PROVE  worker'[v].cat = c /\ worker'[v].claim = worker[v].claim
      BY <1>2, <3>2 DEF NewClaim
    <3> QED BY <3>1, <3>2, ClaimSteps
  <2>2. ASSUME NEW p \in Pollers, Enqueued(p, c, row'[c])
        PROVE  row'[c].claimId = row[c].claimId /\ row'[c].claimedAt = "fresh"
    BY <2>0, <2>2 DEF Enqueued, Enqueue, Row
  <2>3. ~ \E w \in Workers, k \in ClaimIds : NewClaim(w, c, k, row'[c])
    BY <2>0 DEF NewClaim, Claimable
  <2>4. ~ \E w \in Workers : Settled(w, c, row'[c])
    <3> SUFFICES ASSUME NEW w \in Workers, Settled(w, c, row'[c]) PROVE FALSE
      OBVIOUS
    <3>1. w = v
      BY <1>2, <2>0 DEF Settled, ClaimsUnique
    <3> QED BY <3>1 DEF Settled, IdleWorker
  <2>5. ~ SweptOrAged(c, row'[c])
    BY <2>0 DEF SweptOrAged, Revivable, Abandonable, RowOK
  <2>6. RowStep(c)
    BY <2>0, RowSteps
  <2>7. row'[c].claimId = row[c].claimId /\ row'[c].claimedAt = "fresh"
    BY <2>0, <2>2, <2>3, <2>4, <2>5, <2>6 DEF RowStep
  <2> QED BY <2>0, <2>1, <2>7
<1> QED BY <1>1, <1>2

-----------------------------------------------------------------------------
(* Cursor, failure reason and Discovery *)

\* What a step of worker w changes is confined to the catalog w holds.
LEMMA WorkerConfined ==
  ASSUME LeaseInv, NEW w \in Workers, WorkerStep(w)
  PROVE  /\ worker[w].pc # "idle" /\ worker[w].cat \in Catalogs
         /\ row[worker[w].cat].status = "in_progress"
         /\ index' = index
         /\ \A c \in Catalogs : c # worker[w].cat
              => cat'[c] = cat[c] /\ row'[c] = row[c] /\ discovery'[c] = discovery[c]
         /\ \A v \in Workers : v # w => worker'[v] = worker[v]
<1> USE DEF LeaseInv, QueueInv, TypeInv, TypeOK
<1>1. worker[w].pc # "idle" /\ worker[w].cat \in Catalogs
  BY DEF WorkerStep, FetchIndex, Push, SyncFails, Complete, RecordFailure,
         Reschedule, Park, Busy
<1>2. row[worker[w].cat].status = "in_progress"
  BY <1>1 DEF WorkersHold, RowConsistent, RowOK
<1>3. /\ index' = index
      /\ \A c \in Catalogs : c # worker[w].cat => cat'[c] = cat[c] /\ row'[c] = row[c]
  BY DEF WorkerStep, FetchIndex, Push, SyncFails, Complete, RecordFailure,
         Reschedule, Park
<1>4. \A c \in Catalogs : c # worker[w].cat => discovery'[c] = discovery[c]
  BY DEF WorkerStep, FetchIndex, Push, SyncFails, Complete, RecordFailure,
         Reschedule, Park
<1>5. \A v \in Workers : v # w => worker'[v] = worker[v]
  BY DEF WorkerStep, FetchIndex, Push, SyncFails, Complete, RecordFailure,
         Reschedule, Park
<1> QED BY <1>1, <1>2, <1>3, <1>4, <1>5

\* The worker's own step, on its own catalog.
LEMMA WorkerLearns ==
  ASSUME LeaseInv, NEW w \in Workers, WorkerStep(w),
         NEW c \in Catalogs, c = worker[w].cat
  PROVE  WorkerKnows(w)' /\ CatalogOK(c)'
<1>0. /\ row[c] \in Row /\ cat[c] \in Catalog
      /\ index[c] \in Nat /\ worker[w] \in Worker
      /\ row[c].status = "in_progress"
      /\ WorkerKnows(w) /\ CatalogOK(c) /\ Holds(w)
  BY WorkerConfined, CrawlQueueAssumption
  DEF LeaseInv, QueueInv, TypeInv, TypeOK, WorkersHold, Versions
<1> USE DEF LeaseInv, QueueInv, TypeInv, TypeOK
<1>1. CASE FetchIndex(w)
  <2>1. /\ worker'[w].pc = "fetched" /\ worker'[w].cat = c /\ worker'[w].ver = index[c]
        /\ cat' = cat /\ row' = row /\ index' = index /\ discovery' = discovery
    BY <1>1 DEF FetchIndex, Worker
  <2> QED BY <1>0, <2>1 DEF WorkerKnows, CatalogOK
<1>2. CASE Push(w)
  <2>1. /\ worker[w].pc = "fetched" /\ worker'[w].pc = "pushed"
        /\ worker'[w].cat = c /\ worker'[w].ver = worker[w].ver
        /\ discovery'[c] = worker[w].ver
        /\ cat' = cat /\ row' = row /\ index' = index
    BY <1>0, <1>2 DEF Push, Worker
  <2> QED BY <1>0, <2>1 DEF WorkerKnows, CatalogOK
<1>3. CASE SyncFails(w)
  <2>1. /\ worker'[w].pc = "failed" /\ worker'[w].cat = c
        /\ cat' = cat /\ row' = row /\ index' = index
    BY <1>3 DEF SyncFails, Worker
  <2> QED BY <1>0, <2>1 DEF WorkerKnows, CatalogOK
<1>4. CASE Complete(w)
  <2>1. /\ worker[w].pc = "pushed" /\ worker'[w].pc = "idle"
        /\ cat'[c].version = worker[w].ver
        /\ row'[c] = NoRow
        /\ index' = index /\ discovery' = discovery
    BY <1>0, <1>4 DEF Complete, UpsertCatalog, IdleWorker
  <2> QED BY <1>0, <2>1 DEF WorkerKnows, CatalogOK, NoRow
<1>5. CASE RecordFailure(w)
  <2>1. /\ worker'[w].pc = "recorded" /\ worker'[w].cat = c
        /\ cat'[c].reason = "set" /\ cat'[c].version = cat[c].version
        /\ row' = row /\ index' = index /\ discovery' = discovery
    BY <1>0, <1>5 DEF RecordFailure, Worker, Catalog
  <2> QED BY <1>0, <2>1 DEF WorkerKnows, CatalogOK
<1>6. CASE Reschedule(w) \/ Park(w)
  <2>1. /\ worker[w].pc = "recorded" /\ worker'[w].pc = "idle"
        /\ row'[c] \in {Rescheduled(row[c]), Parked(row[c])}
        /\ cat' = cat /\ index' = index
    BY <1>0, <1>6 DEF Reschedule, Park, IdleWorker
  <2>2. row'[c].status \in {"queued", "parked"}
    <3>1. Rescheduled(row[c]).status = "queued" /\ Parked(row[c]).status = "parked"
      BY <1>0 DEF Rescheduled, Parked, Row
    <3> QED BY <2>1, <3>1
  <2> QED BY <1>0, <2>1, <2>2 DEF WorkerKnows, CatalogOK
<1> QED BY <1>1, <1>2, <1>3, <1>4, <1>5, <1>6 DEF WorkerStep

LEMMA KnowledgeStep ==
  ASSUME LeaseInv, [Next]_vars
  PROVE  /\ \A v \in Workers : WorkerKnows(v)'
         /\ \A c \in Catalogs : CatalogOK(c)'
<1>1. ASSUME NEW w \in Workers, WorkerStep(w)
      PROVE  /\ \A v \in Workers : WorkerKnows(v)'
             /\ \A c \in Catalogs : CatalogOK(c)'
  <2>1. ASSUME NEW v \in Workers, v # w, worker[v].pc # "idle"
        PROVE  WorkerKnows(v)'
    <3>1. worker[v].cat # worker[w].cat /\ worker[v].cat \in Catalogs
      BY <1>1, <2>1, WorkerConfined, HolderAlone DEF LeaseInv, QueueInv, TypeInv, Busy
    <3>2. /\ worker'[v] = worker[v] /\ index' = index
          /\ cat'[worker[v].cat] = cat[worker[v].cat]
          /\ discovery'[worker[v].cat] = discovery[worker[v].cat]
      BY <1>1, <2>1, <3>1, WorkerConfined
    <3>3. WorkerKnows(v)
      BY DEF LeaseInv
    <3> QED BY <3>2, <3>3 DEF WorkerKnows
  <2>2. ASSUME NEW v \in Workers, v # w, worker[v].pc = "idle"
        PROVE  WorkerKnows(v)'
    <3>1. worker'[v] = worker[v]
      BY <1>1, <2>2, WorkerConfined
    <3> QED BY <2>2, <3>1 DEF WorkerKnows
  <2>3. WorkerKnows(w)' /\ \A c \in Catalogs : c = worker[w].cat => CatalogOK(c)'
    BY <1>1, WorkerConfined, WorkerLearns
  <2>4. ASSUME NEW c \in Catalogs, c # worker[w].cat
        PROVE  CatalogOK(c)'
    <3>1. cat'[c] = cat[c] /\ row'[c] = row[c] /\ discovery'[c] = discovery[c] /\ index' = index
      BY <1>1, <2>4, WorkerConfined
    <3>2. CatalogOK(c)
      BY DEF LeaseInv
    <3> QED BY <3>1, <3>2 DEF CatalogOK
  <2> QED BY <2>1, <2>2, <2>3, <2>4
<1>2. ASSUME ~ \E w \in Workers : WorkerStep(w)
      PROVE  /\ \A v \in Workers : WorkerKnows(v)'
             /\ \A c \in Catalogs : CatalogOK(c)'
  <2>1. cat' = cat /\ discovery' = discovery
    BY <1>2 DEF Next, vars, Publish, PollerStep, PollFetch, PollDecide,
                UpsertIndexCursor, ClaimNext, SweeperStep, Revive, Abandon,
                TimePasses, LeaseLapses, BackoffElapses, ParkAges, Abort
  <2>2. \A c \in Catalogs : index[c] \in Nat /\ index'[c] \in Nat /\ index[c] <= index'[c]
    BY <1>2, CrawlQueueAssumption
    DEF Next, vars, Publish, PollerStep, PollFetch, PollDecide,
        UpsertIndexCursor, ClaimNext, SweeperStep, Revive, Abandon, TimePasses,
        LeaseLapses, BackoffElapses, ParkAges, Abort, LeaseInv, QueueInv, TypeInv,
        TypeOK, Versions
  <2>3. ASSUME NEW v \in Workers
        PROVE  \/ worker'[v] = worker[v]
               \/ worker'[v].pc \in {"idle", "claimed"}
    BY <1>2
    DEF Next, vars, Publish, PollerStep, PollFetch, PollDecide,
        UpsertIndexCursor, ClaimNext, SweeperStep, Revive, Abandon, TimePasses,
        LeaseLapses, BackoffElapses, ParkAges, Abort, WorkerAborts, PollerAborts,
        SweeperAborts, IdleWorker, LeaseInv, QueueInv, TypeInv, TypeOK
  <2>4. ASSUME NEW v \in Workers
        PROVE  WorkerKnows(v)'
    <3>1. CASE worker'[v].pc \in {"idle", "claimed"}
      BY <3>1 DEF WorkerKnows
    <3>2. CASE worker'[v] = worker[v] /\ worker[v].pc \notin {"idle", "claimed"}
      <4>1. worker[v].cat \in Catalogs /\ worker[v].ver \in Nat
        BY <3>2, CrawlQueueAssumption
        DEF LeaseInv, QueueInv, TypeInv, TypeOK, Busy, Worker, Versions
      <4> QED BY <2>1, <2>2, <3>2, <4>1 DEF WorkerKnows, LeaseInv
    <3> QED BY <2>3, <3>1, <3>2
  <2>5. ASSUME NEW c \in Catalogs
        PROVE  CatalogOK(c)'
    <3>0. /\ CatalogOK(c) /\ row[c] \in Row /\ RowOK(row[c]) /\ cat[c].version \in Nat
      BY CrawlQueueAssumption
      DEF LeaseInv, QueueInv, TypeInv, TypeOK, RowConsistent, Catalog, Versions
    <3>1. ASSUME NEW p \in Pollers, Enqueued(p, c, row'[c])
          PROVE  row'[c].status \in {"queued", "in_progress"}
      BY <3>0, <3>1 DEF Enqueued, Enqueue, NoRow, Row, RowOK
    <3>2. ASSUME NEW w \in Workers, NEW k \in ClaimIds, NewClaim(w, c, k, row'[c])
          PROVE  row'[c].status = "in_progress"
      BY <3>0, <3>2 DEF NewClaim, Claimed, Row
    <3>3. ASSUME SweptOrAged(c, row'[c])
          PROVE  /\ row'[c].status \in {"parked", "abandoned"}
                      => row[c].status \in {"parked", "abandoned"}
                 /\ row'[c].status = "none" => row[c].status = "none"
      <4>1. /\ Revived(row[c]).status = "queued"
            /\ Abandoned(row[c]).status = "abandoned"
            /\ [row[c] EXCEPT !.claimedAt = "lapsed"].status = row[c].status
            /\ [row[c] EXCEPT !.due = "now"].status = row[c].status
            /\ [row[c] EXCEPT !.parkedAt = "old"].status = row[c].status
        BY <3>0 DEF Revived, Abandoned, Row
      <4> QED BY <3>3, <4>1 DEF SweptOrAged, Abandonable
    <3>4. ~ \E w \in Workers : Settled(w, c, row'[c])
      BY <1>2 DEF Settled
    <3>5. RowStep(c)
      BY RowSteps DEF LeaseInv, QueueInv
    <3>6. /\ row'[c].status \in {"parked", "abandoned"}
               => row[c].status \in {"parked", "abandoned"}
          /\ row'[c].status = "none" => row[c].status = "none"
      BY <3>1, <3>2, <3>3, <3>4, <3>5 DEF RowStep
    <3> QED BY <2>1, <2>2, <3>0, <3>6 DEF CatalogOK
  <2> QED BY <2>4, <2>5
<1> QED BY <1>1, <1>2

-----------------------------------------------------------------------------
(* Theorems *)

LEMMA LeaseInit == Init => LeaseInv
<1> SUFFICES ASSUME Init PROVE LeaseInv
  OBVIOUS
<1>1. QueueInv
  BY QueueInit
<1>2. WorkersHold /\ \A w \in Workers : WorkerKnows(w)
  BY DEF Init, WorkersHold, WorkerKnows, IdleWorker
<1>3. \A c \in Catalogs : CatalogOK(c)
  <2> SUFFICES ASSUME NEW c \in Catalogs PROVE CatalogOK(c)
    OBVIOUS
  <2>1. row[c].status = "none" /\ cat[c].version = 0 /\ index[c] = 0 /\ discovery[c] = 0
    BY DEF Init, NoRow, NoCursor
  <2> QED BY <2>1 DEF CatalogOK
<1> QED BY <1>1, <1>2, <1>3 DEF LeaseInv

LEMMA LeaseNext ==
  ASSUME LeaseHonoured
  PROVE  LeaseInv /\ [Next]_vars => LeaseInv'
  BY QueueNext, HoldStep, KnowledgeStep DEF LeaseInv

LEMMA LeaseInvariant ==
  ASSUME LeaseHonoured
  PROVE  Spec => []LeaseInv
<1>1. LeaseInv /\ [Next]_vars => LeaseInv'
  BY LeaseNext
<1> QED BY <1>1, LeaseInit, PTL DEF Spec

\* With honoured leases a worker in the middle of a sync always holds its row,
\* so at most one instance works on a catalog.
THEOREM HoldersOnly ==
  ASSUME LeaseHonoured
  PROVE  Spec => []WorkersHold
<1>1. LeaseInv => WorkersHold
  BY DEF LeaseInv
<1> QED BY <1>1, LeaseInvariant, PTL

\* With honoured leases what ListAbandoned and /status report for a parked or
\* abandoned catalog is a recorded failure.
THEOREM ReasonsKept ==
  ASSUME LeaseHonoured
  PROVE  Spec => []ParkedHasReason
<1>1. LeaseInv => ParkedHasReason
  BY DEF LeaseInv, CatalogOK, ParkedHasReason
<1> QED BY <1>1, LeaseInvariant, PTL

\* With honoured leases a catalog without a queue row is at rest: Discovery
\* holds the version the cursor records, whatever pushes failed half-way.
THEOREM RestMeansSynced ==
  ASSUME LeaseHonoured
  PROVE  Spec => []DiscoveryMatchesCursor
<1>1. LeaseInv => DiscoveryMatchesCursor
  BY DEF LeaseInv, CatalogOK, DiscoveryMatchesCursor
<1> QED BY <1>1, LeaseInvariant, PTL

\* One step of the queue is a publish, a forward move of one cursor to a
\* declared version, or nothing, as CatalogSync sees it.
LEMMA StepRefines ==
  ASSUME LeaseInv, [Next]_vars
  PROVE  [Abstract!Next]_(Abstract!vars)
<1> DEFINE applied == [c \in Catalogs |-> cat[c].version]
<1> USE DEF LeaseInv, QueueInv, TypeInv, TypeOK
<1>1. ASSUME NEW c \in Catalogs, Publish(c)
      PROVE  Abstract!Next
  BY <1>1 DEF Publish, Abstract!Next, Abstract!Publish
<1>2. ASSUME NEW w \in Workers, Complete(w)
      PROVE  Abstract!Next
  <2> DEFINE c == worker[w].cat
  <2>1. /\ c \in Catalogs /\ worker[w].ver \in Nat /\ cat[c].version \in Nat
        /\ index[c] \in Nat /\ worker[w].pc = "pushed"
    BY <1>2, CrawlQueueAssumption DEF Complete, Busy, Worker, Catalog, Versions
  <2>2. worker[w].ver \in cat[c].version .. index[c]
    BY <2>1 DEF WorkerKnows
  <2>3. applied' = [applied EXCEPT ![c] = worker[w].ver]
    BY <1>2, <2>1 DEF Complete, UpsertCatalog
  <2>4. index' = index
    BY <1>2 DEF Complete
  <2> QED BY <2>1, <2>2, <2>3, <2>4 DEF Abstract!Next, Abstract!Apply
<1>3. CASE applied' = applied /\ index' = index
  BY <1>3 DEF Abstract!vars
<1>4. ASSUME NEW w \in Workers, WorkerStep(w), ~Complete(w)
      PROVE  applied' = applied /\ index' = index
  BY <1>4 DEF WorkerStep, FetchIndex, Push, SyncFails, RecordFailure, Reschedule,
              Park, Catalog
<1>5. \/ \E c \in Catalogs : Publish(c)
      \/ \E w \in Workers : WorkerStep(w)
      \/ cat' = cat /\ index' = index
  BY DEF Next, vars, PollerStep, PollFetch, PollDecide, UpsertIndexCursor,
         ClaimNext, SweeperStep, Revive, Abandon, TimePasses, LeaseLapses,
         BackoffElapses, ParkAges, Abort
<1> QED BY <1>1, <1>2, <1>3, <1>4, <1>5

\* With honoured leases the crawler implements CatalogSync: every cursor moves
\* forward only, and only to versions its publisher declared.
THEOREM Refinement ==
  ASSUME LeaseHonoured
  PROVE  Spec => ImplementsCatalogSync
<1>1. Init => Abstract!Init
  BY DEF Init, Abstract!Init, NoCursor
<1>2. LeaseInv /\ [Next]_vars => [Abstract!Next]_(Abstract!vars)
  BY StepRefines
<1> QED BY <1>1, <1>2, LeaseInvariant, PTL DEF Spec, ImplementsCatalogSync, Abstract!Spec

-----------------------------------------------------------------------------
(* DiscoverySink.  What Send keeps while it pushes: Discovery holds the    *)
(* catalog up to the next batch, and nothing else.                         *)

SinkTypeOK ==
  /\ doc \in [size : Nat, raw : Seq(Nat), sent : Seq(Nat)]
  /\ Len(doc.raw) = Len(doc.sent) /\ Len(doc.raw) <= MaxResources
  /\ from \in Nat /\ 1 <= from /\ from <= Len(doc.raw) + 1
  /\ ver \in Nat /\ held \in [Ids -> Nat]

HeldUpTo(n) == \A i \in Ids : held[i] = IF i <= n THEN ver ELSE 0

SinkInv ==
  /\ lead => from = 1
  /\ Unbatched(doc) /\ ~lead => from = Len(doc.raw) + 1
  /\ result = "sending" /\ ~lead /\ ~refused => HeldUpTo(from - 1) /\ offers = ver


(* Every non-empty set of numbers has a least element.                     *)
LEMMA LeastExists ==
  ASSUME NEW S \in SUBSET Nat, S # {}
  PROVE  \E n \in S : \A m \in S : n <= m
<1> DEFINE Less == {ss \in Nat \X Nat : ss[1] < ss[2]}
<1>1. IsWellFoundedOn(Less, Nat)
  BY NatLessThanWellFounded DEF OpToRel
<1>2. PICK n \in S : \A m \in S : ~(<<m, n>> \in Less)
  <2> HIDE DEF Less
  <2> QED BY <1>1, WFMin
<1>3. \A m \in S : ~(m < n)
  BY <1>2
<1> QED BY <1>3

(* A non-empty set of numbers with a bound has a greatest element.         *)
LEMMA GreatestExists ==
  ASSUME NEW n \in Nat, NEW S \in SUBSET (0 .. n), S # {}
  PROVE  \E x \in S : \A y \in S : x >= y
<1> DEFINE T == {n - x : x \in S}
<1>1. T \in SUBSET Nat /\ T # {}
  <2>1. ASSUME NEW x \in S PROVE n - x \in Nat
    <3>1. x \in Int /\ 0 <= x /\ x <= n
      OBVIOUS
    <3> QED BY <3>1
  <2> QED BY <2>1
<1>2. PICK t \in T : \A u \in T : t <= u
  BY <1>1, LeastExists
<1>3. PICK x \in S : t = n - x
  BY <1>2
<1>4. \A y \in S : n - x <= n - y
  BY <1>2, <1>3
<1> QED BY <1>3, <1>4

(* A batch ends in the catalog, at its first resource or later, and takes  *)
(* no second resource that does not fit.                                   *)
LEMMA BatchEndsWhereItFits ==
  ASSUME NEW d \in [size : Nat, raw : Seq(Nat), sent : Seq(Nat)], NEW a \in Nat, 1 <= a, NEW first,
         ~Unbatched(d), a <= Len(d.raw)
  PROVE  /\ BatchEnd(d, a, first) \in Nat
         /\ a <= BatchEnd(d, a, first) /\ BatchEnd(d, a, first) <= Len(d.raw)
         /\ BatchEnd(d, a, first) = a \/ Fits(d, a, BatchEnd(d, a, first), first)
<1> DEFINE S == {b \in a .. Len(d.raw) : b = a \/ Fits(d, a, b, first)}
<1>1. Len(d.raw) \in Nat
  OBVIOUS
<1>2. S \in SUBSET (0 .. Len(d.raw)) /\ a \in S
  BY <1>1
<1>3. \E x \in S : \A y \in S : x >= y
  <2> HIDE DEF S
  <2> QED BY <1>1, <1>2, GreatestExists
<1>4. BatchEnd(d, a, first) = Max(S)
  BY DEF BatchEnd
<1>5. Max(S) \in S
  <2> HIDE DEF S
  <2> QED BY <1>3 DEF Max
<1> QED BY <1>1, <1>4, <1>5

(* A batch never leaves the catalog, and one that is not cut is all of it. *)
LEMMA BatchWithin ==
  ASSUME SinkTypeOK, SinkInv, MorePushes
  PROVE  /\ Batch.to \in Nat /\ from - 1 <= Batch.to /\ Batch.to <= Len(doc.raw)
         /\ Unbatched(doc) => Batch.to = Len(doc.raw)
<1>1. Batch.to = BatchEnd(doc, from, lead)
  BY DEF Batch
<1>2. CASE Unbatched(doc)
  <2>1. Batch.to = Len(doc.raw)
    BY <1>1, <1>2 DEF BatchEnd
  <2> QED BY <2>1 DEF SinkTypeOK
<1>3. CASE ~Unbatched(doc)
  <2>1. Len(doc.raw) # 0
    BY <1>3 DEF SinkTypeOK, Unbatched
  <2>2. from <= Len(doc.raw)
    BY <2>1 DEF SinkTypeOK, SinkInv, MorePushes
  <2> QED BY <1>1, <1>3, <2>2, BatchEndsWhereItFits DEF SinkTypeOK
<1> QED BY <1>2, <1>3

LEMMA BatchFields ==
  /\ Batch.from = from
  /\ Batch.mode = IF lead THEN "FULL" ELSE "MERGE"
  /\ Batch.offers = lead
BY DEF Batch

LEMMA SinkInitially == SinkInit => SinkTypeOK /\ SinkInv /\ AcceptedIsWhole
<1> SUFFICES ASSUME SinkInit PROVE SinkTypeOK /\ SinkInv /\ AcceptedIsWhole
  OBVIOUS
<1>1. <<>> \in Seq(Nat) /\ Len(<<>>) = 0
  OBVIOUS
<1>2. SinkTypeOK
  BY <1>1, SinkAssumption DEF SinkInit, SinkTypeOK, Ids
<1>3. SinkInv /\ AcceptedIsWhole
  BY DEF SinkInit, SinkInv, AcceptedIsWhole
<1> QED BY <1>2, <1>3

LEMMA TakesHeld ==
  ASSUME SinkTypeOK, SinkInv, MorePushes, Takes(Batch)
  PROVE  held' \in [Ids -> Nat]
BY DEF Takes, SinkTypeOK

(* Every push, answered or not, keeps what Send counts on.                 *)
LEMMA SinkStep ==
  ASSUME SinkTypeOK, SinkInv, AcceptedIsWhole, [SinkNext]_sinkVars
  PROVE  SinkTypeOK' /\ SinkInv' /\ AcceptedIsWhole'
<1>1. CASE Send
  <2>1. SinkTypeOK'
    BY <1>1, SinkAssumption DEF Send, SinkTypeOK, Ids
  <2>2. SinkInv' /\ AcceptedIsWhole'
    BY <1>1 DEF Send, SinkInv, AcceptedIsWhole
  <2> QED BY <2>1, <2>2
<1>2. CASE PushAcked
  <2>1. from' = Batch.to + 1 /\ lead' = FALSE /\ doc' = doc /\ ver' = ver
        /\ refused' = refused /\ result' = "sending" /\ result = "sending"
    BY <1>2 DEF PushAcked, Pushed, MorePushes
  <2>2. SinkTypeOK'
    BY <1>2, <2>1, BatchWithin, TakesHeld DEF PushAcked, SinkTypeOK
  <2>3. Unbatched(doc)' => from' = Len(doc'.raw) + 1
    BY <1>2, <2>1, BatchWithin DEF PushAcked, Unbatched
  <2>4. ASSUME ~refused PROVE HeldUpTo(from - 1)' /\ offers' = ver'
    <3>1. offers' = ver
      BY <1>2, <2>1, <2>4, BatchFields DEF PushAcked, Takes, SinkInv
    <3>2. ASSUME NEW i \in Ids PROVE held'[i] = IF i <= Batch.to THEN ver ELSE 0
      <4>1. held'[i] = IF i \in from .. Batch.to THEN ver
                       ELSE IF lead THEN 0 ELSE held[i]
        BY <1>2, BatchFields DEF PushAcked, Takes
      <4>2. i \in Int /\ i >= 1
        BY SinkAssumption DEF Ids
      <4>3. ~lead => held[i] = IF i <= from - 1 THEN ver ELSE 0
        BY <2>1, <2>4 DEF SinkInv, HeldUpTo
      <4>4. lead => from = 1
        BY DEF SinkInv
      <4>5. Batch.to \in Nat /\ from - 1 <= Batch.to /\ from \in Nat
        BY <1>2, BatchWithin DEF PushAcked, SinkTypeOK
      <4>6. CASE lead
        BY <4>1, <4>2, <4>4, <4>5, <4>6
      <4>7. CASE ~lead
        BY <4>1, <4>2, <4>3, <4>5, <4>7
      <4> QED BY <4>6, <4>7
    <3>3. Batch.to = from' - 1
      BY <1>2, <2>1, BatchWithin DEF PushAcked
    <3> QED BY <2>1, <3>1, <3>2, <3>3 DEF HeldUpTo, Ids
  <2>5. SinkInv' /\ AcceptedIsWhole'
    BY <2>1, <2>3, <2>4 DEF SinkInv, AcceptedIsWhole
  <2> QED BY <2>2, <2>5
<1>3. CASE PushRefused
  <2>1. from' = Batch.to + 1 /\ lead' = FALSE /\ doc' = doc /\ ver' = ver
        /\ refused' = TRUE /\ result' = "sending" /\ held' = held
    BY <1>3 DEF PushRefused, Pushed, MorePushes
  <2>2. SinkTypeOK'
    BY <1>3, <2>1, BatchWithin DEF PushRefused, SinkTypeOK
  <2>3. Unbatched(doc)' => from' = Len(doc'.raw) + 1
    BY <1>3, <2>1, BatchWithin DEF PushRefused, Unbatched
  <2> QED BY <2>1, <2>2, <2>3 DEF SinkInv, AcceptedIsWhole
<1>4. CASE PushFails
  <2>1. SinkTypeOK'
    BY <1>4, TakesHeld DEF PushFails, SinkTypeOK
  <2>2. SinkInv' /\ AcceptedIsWhole'
    BY <1>4 DEF PushFails, SinkInv, AcceptedIsWhole, Unbatched
  <2> QED BY <2>1, <2>2
<1>5. CASE Rollup
  <2>1. SinkTypeOK'
    BY <1>5 DEF Rollup, SinkTypeOK
  <2>2. SinkInv'
    BY <1>5 DEF Rollup, SinkInv, Unbatched
  <2>3. AcceptedIsWhole'
    <3>1. result = "sending" /\ ~lead /\ from = Len(doc.raw) + 1
      BY <1>5 DEF Rollup, MorePushes, SinkTypeOK
    <3>2. ASSUME ~refused PROVE HeldUpTo(Len(doc.raw)) /\ offers = ver
      <4>1. from - 1 = Len(doc.raw)
        BY <3>1 DEF SinkTypeOK
      <4> QED BY <3>1, <3>2, <4>1 DEF SinkInv
    <3> QED BY <1>5, <3>1, <3>2 DEF Rollup, AcceptedIsWhole, HeldUpTo
  <2> QED BY <2>1, <2>2, <2>3
<1>6. CASE UNCHANGED sinkVars
  BY <1>6 DEF sinkVars, SinkTypeOK, SinkInv, HeldUpTo, AcceptedIsWhole, Unbatched
<1> QED BY <1>1, <1>2, <1>3, <1>4, <1>5, <1>6 DEF SinkNext

(* An accepted Send leaves Discovery with exactly the catalog it sent, for *)
(* every set of documents, every size limit and every history of refused   *)
(* and unanswered pushes before it (sink.go Send, batch.go BatchCatalog).  *)
THEOREM SinkAcceptedIsWhole == SinkSpec => []AcceptedIsWhole
<1>1. SinkTypeOK /\ SinkInv /\ AcceptedIsWhole /\ [SinkNext]_sinkVars
        => (SinkTypeOK /\ SinkInv /\ AcceptedIsWhole)'
  BY SinkStep
<1> QED BY <1>1, SinkInitially, PTL DEF SinkSpec

(* The budget leaves out nothing else of the document.                     *)
LEMMA OverrunFromInv ==
  ASSUME SinkTypeOK, SinkInv
  PROVE  OverrunBounded
<1> DEFINE Written == ResourceBytes(doc.sent, from, Batch.to)
           Read == ResourceBytes(doc.raw, from, Batch.to)
<1> SUFFICES ASSUME MorePushes, ~Unbatched(doc), from < Batch.to
             PROVE  DocBytes(doc, from, Batch.to, lead)
                      < MaxDocBytes + ResourcesField + (Written - Read)
  BY BatchFields DEF OverrunBounded
<1>1. MaxDocBytes \in Nat /\ BaseBytes \in Nat /\ OffersBytes \in Nat /\ from \in Nat
  BY SinkAssumption DEF SinkTypeOK
<1>2. Batch.to \in Nat /\ Batch.to <= Len(doc.raw) /\ 1 <= from
  BY BatchWithin DEF SinkTypeOK
<1>3. Fits(doc, from, Batch.to, lead)
  <2>1. Batch.to = BatchEnd(doc, from, lead) /\ from <= Len(doc.raw)
    BY <1>1, <1>2 DEF Batch, SinkTypeOK
  <2>2. Batch.to # from /\ doc \in [size : Nat, raw : Seq(Nat), sent : Seq(Nat)]
    BY <1>1, <1>2 DEF SinkTypeOK
  <2> QED BY <1>1, <1>2, <2>1, <2>2, BatchEndsWhereItFits
<1>4. /\ doc.raw[Batch.to] \in Nat /\ (from # 1 => doc.raw[from - 1] \in Nat)
      /\ doc.sent[Batch.to] \in Nat /\ (from # 1 => doc.sent[from - 1] \in Nat)
  <2> SUFFICES ASSUME NEW i \in 1 .. Len(doc.raw)
               PROVE  doc.raw[i] \in Nat /\ doc.sent[i] \in Nat
    BY <1>1, <1>2
  <2>1. doc.raw \in Seq(Nat) /\ doc.sent \in Seq(Nat) /\ Len(doc.raw) = Len(doc.sent)
    BY DEF SinkTypeOK
  <2> QED BY <2>1
<1>5. Written \in Int /\ Read \in Int
  BY <1>4 DEF ResourceBytes
<1>6. PICK o \in Nat : o = IF lead THEN OffersBytes ELSE 0
  BY <1>1
<1>7. Read + (Batch.to + 1 - from) + BaseBytes + o <= MaxDocBytes
  BY <1>3, <1>6 DEF Fits, Cost
<1>8. DocBytes(doc, from, Batch.to, lead)
        = BaseBytes + o + 15 + Written + (Batch.to - from)
  BY <1>6 DEF DocBytes, ResourcesField
<1> HIDE DEF Written, Read
<1> QED BY <1>1, <1>2, <1>5, <1>7, <1>8 DEF ResourcesField

(* A cut batch of several resources overruns maxDocBytes by less than the  *)
(* field around the resources and what marshalling adds to them, for all   *)
(* documents and limits (BatchCatalog).                                    *)
THEOREM SinkOverrunBounded == SinkSpec => []OverrunBounded
<1>1. SinkTypeOK /\ SinkInv /\ AcceptedIsWhole /\ [SinkNext]_sinkVars
        => (SinkTypeOK /\ SinkInv /\ AcceptedIsWhole)'
  BY SinkStep
<1>2. SinkTypeOK /\ SinkInv => OverrunBounded
  BY OverrunFromInv
<1> QED BY <1>1, <1>2, SinkInitially, PTL DEF SinkSpec
=============================================================================
