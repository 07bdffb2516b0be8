----------------------- MODULE AdapterShutdownProofs -----------------------
(***************************************************************************)
(* Proofs about CrawlScheduler and AdapterShutdown for every number of     *)
(* loops and RunOnce calls: Stop waits for whatever the WaitGroup stands   *)
(* for, and nothing is added to it once Stop has begun to wait.            *)
(***************************************************************************)
EXTENDS AdapterShutdown, FiniteSetTheorems, TLAPS

TypeOK ==
  /\ ctx \in {"unset", "live", "done"}
  /\ mu \in Requests \cup {NoOne, Stopper}
  /\ wg \in Nat
  /\ loop \in [Loops -> {"new", "ticking", "waiting", "returned"}]
  /\ call \in [Requests -> {"idle", "locking", "checked", "refused", "accepted"}]
  /\ run \in [Requests -> {"none", "running", "returned"}]
  /\ stop \in {"idle", "locked", "waiting", "returned"}
  /\ root \in {"live", "done"}
  /\ closing \in {"waiting", "draining", "closers", "stopping", "done"}
  /\ db \in {"open", "closed"}
  /\ proc \in {"up", "exited", "killed", "panicked"}

LiveLoops == {l \in Loops : loop[l] \in {"ticking", "waiting"}}
LiveRuns == {r \in Requests : run[r] = "running"}

\* The counter is the number of goroutines.
WaitGroupExact == wg = Cardinality(LiveLoops) + Cardinality(LiveRuns)

\* A call that passed the check of ctx holds the lock until it has added itself.
LockHeld ==
  /\ \A r \in Requests : call[r] = "checked" => mu = r
  /\ stop \in {"locked", "waiting"} => mu = Stopper

\* A call is accepted once, with its goroutine.
RunsAccepted == \A r \in Requests : run[r] # "none" => call[r] = "accepted"

\* From the moment Stop waits no goroutine can be added.
StopSeals ==
  /\ ctx = "unset" => \A l \in Loops : loop[l] = "new"
  /\ stop # "idle" => Started
  /\ stop \in {"waiting", "returned"} =>
       /\ ctx = "done"
       /\ \A r \in Requests : call[r] # "checked"
  /\ stop = "returned" => wg = 0

\* The process ends by itself only after all closers.
ClosersInOrder ==
  /\ closing \in {"stopping", "done"} => db = "closed"
  /\ closing = "done" => stop = "returned"
  /\ proc = "exited" => closing = "done"

ShutdownInv ==
  TypeOK /\ WaitGroupExact /\ LockHeld /\ RunsAccepted /\ StopSeals /\ ClosersInOrder

-----------------------------------------------------------------------------
(* The parts of the invariant *)

LEMMA InvInit == Init => ShutdownInv
<1> SUFFICES ASSUME Init PROVE ShutdownInv
  OBVIOUS
<1>1. LiveLoops = {} /\ LiveRuns = {}
  BY DEF Init, SchedInit, LiveLoops, LiveRuns
<1>2. WaitGroupExact
  BY <1>1, FS_EmptySet DEF Init, SchedInit, WaitGroupExact
<1> QED BY <1>2 DEF Init, SchedInit, ShutdownInv, TypeOK, LockHeld, RunsAccepted,
                    StopSeals, ClosersInOrder

LEMMA LiveFinite ==
  /\ IsFiniteSet(LiveLoops) /\ IsFiniteSet(LiveRuns)
  /\ Cardinality(LiveLoops) \in Nat /\ Cardinality(LiveRuns) \in Nat
<1>1. LiveLoops \in SUBSET Loops /\ LiveRuns \in SUBSET Requests
  BY DEF LiveLoops, LiveRuns
<1>2. IsFiniteSet(LiveLoops) /\ IsFiniteSet(LiveRuns)
  BY <1>1, SchedulerAssumption, FS_Subset
<1> QED BY <1>2, FS_CardinalityType

\* Every step adds to the counter the goroutine it starts, and takes away the one
\* that it ends.
LEMMA CountStep ==
  ASSUME ShutdownInv, [Next]_vars
  PROVE  WaitGroupExact' /\ wg' \in Nat
<1> USE LiveFinite DEF ShutdownInv, TypeOK, WaitGroupExact
<1>1. ASSUME NEW l \in Loops, StartLoop(l)
      PROVE  WaitGroupExact' /\ wg' \in Nat
  <2>1. l \notin LiveLoops /\ LiveLoops' = LiveLoops \cup {l} /\ LiveRuns' = LiveRuns
    BY <1>1 DEF StartLoop, LiveLoops, LiveRuns
  <2>2. Cardinality(LiveLoops') = Cardinality(LiveLoops) + 1
    BY <2>1, FS_AddElement
  <2> QED BY <1>1, <2>1, <2>2 DEF StartLoop
<1>2. ASSUME NEW l \in Loops, TickEnds(l) \/ TickFires(l)
      PROVE  WaitGroupExact' /\ wg' \in Nat
  <2>1. LiveLoops' = LiveLoops /\ LiveRuns' = LiveRuns
    BY <1>2 DEF TickEnds, TickFires, LiveLoops, LiveRuns
  <2> QED BY <1>2, <2>1 DEF TickEnds, TickFires
<1>3. ASSUME NEW l \in Loops, LoopReturns(l)
      PROVE  WaitGroupExact' /\ wg' \in Nat
  <2>1. l \in LiveLoops /\ LiveLoops' = LiveLoops \ {l} /\ LiveRuns' = LiveRuns
    BY <1>3 DEF LoopReturns, LiveLoops, LiveRuns
  <2>2. /\ Cardinality(LiveLoops') = Cardinality(LiveLoops) - 1
        /\ Cardinality(LiveLoops') \in Nat
    BY <2>1, FS_RemoveElement, FS_CardinalityType
  <2> QED BY <1>3, <2>1, <2>2 DEF LoopReturns
<1>4. ASSUME NEW r \in Requests, RunOnceAdds(r)
      PROVE  WaitGroupExact' /\ wg' \in Nat
  <2>1. r \notin LiveRuns /\ LiveRuns' = LiveRuns \cup {r} /\ LiveLoops' = LiveLoops
    BY <1>4 DEF RunOnceAdds, RunsAccepted, LiveLoops, LiveRuns
  <2>2. Cardinality(LiveRuns') = Cardinality(LiveRuns) + 1
    BY <2>1, FS_AddElement
  <2> QED BY <1>4, <2>1, <2>2 DEF RunOnceAdds
<1>5. ASSUME NEW r \in Requests, RunReturns(r)
      PROVE  WaitGroupExact' /\ wg' \in Nat
  <2>1. r \in LiveRuns /\ LiveRuns' = LiveRuns \ {r} /\ LiveLoops' = LiveLoops
    BY <1>5 DEF RunReturns, LiveLoops, LiveRuns
  <2>2. /\ Cardinality(LiveRuns') = Cardinality(LiveRuns) - 1
        /\ Cardinality(LiveRuns') \in Nat
    BY <2>1, FS_RemoveElement, FS_CardinalityType
  <2> QED BY <1>5, <2>1, <2>2 DEF RunReturns
<1>6. CASE UNCHANGED <<wg, loop, run>>
  <2>1. LiveLoops' = LiveLoops /\ LiveRuns' = LiveRuns
    BY <1>6 DEF LiveLoops, LiveRuns
  <2> QED BY <1>6, <2>1
<1>7. CASE StartContext \/ RootDone \/ ShutdownStep \/ SignalArrives \/ UNCHANGED vars
  BY <1>6, <1>7 DEF StartContext, RootDone, ShutdownStep, BeginShutdown, ServerDrained,
     ManagerCloses, ManagerPanics, CrawlerStops, StopStep, StopLocks, StopCancels,
     StopReturns, ProcessExits, SignalArrives, vars, schedVars
<1>8. ASSUME NEW r \in Requests, RunOnceChecks(r) \/ Trigger(r)
      PROVE  WaitGroupExact' /\ wg' \in Nat
  BY <1>6, <1>8 DEF RunOnceChecks, Trigger, RunOnceCalled
<1> QED BY <1>1, <1>2, <1>3, <1>4, <1>5, <1>7, <1>8
        DEF Next, CrawlerRuns, LoopStep, CallStep

LEMMA TypeStep ==
  ASSUME ShutdownInv, [Next]_vars
  PROVE  TypeOK'
<1> USE CountStep DEF ShutdownInv, TypeOK
<1>1. ASSUME NEW l \in Loops, LoopStep(l), UNCHANGED procVars PROVE TypeOK'
  BY <1>1 DEF LoopStep, StartLoop, TickEnds, TickFires, LoopReturns, procVars
<1>2. ASSUME NEW r \in Requests, CallStep(r), UNCHANGED procVars PROVE TypeOK'
  BY <1>2 DEF CallStep, RunOnceChecks, RunOnceAdds, RunReturns, procVars
<1>3. ASSUME NEW r \in Requests, Trigger(r) PROVE TypeOK'
  BY <1>3 DEF Trigger, RunOnceCalled, procVars
<1>4. CASE (StartContext /\ UNCHANGED procVars) \/ RootDone \/ SignalArrives
             \/ UNCHANGED vars
  BY <1>4 DEF StartContext, RootDone, SignalArrives, vars, schedVars, procVars
<1>5. CASE ShutdownStep
  BY <1>5 DEF ShutdownStep, BeginShutdown, ServerDrained, ManagerCloses, ManagerPanics,
     CrawlerStops, StopStep, StopLocks, StopCancels, StopReturns, ProcessExits, schedVars
<1> QED BY <1>1, <1>2, <1>3, <1>4, <1>5 DEF Next, CrawlerRuns

\* The lock keeps Stop out between the check and the Add of RunOnce.
LEMMA LockStep ==
  ASSUME ShutdownInv, [Next]_vars
  PROVE  LockHeld' /\ RunsAccepted'
<1> USE SchedulerAssumption DEF ShutdownInv, TypeOK, LockHeld, RunsAccepted
<1>1. ASSUME NEW l \in Loops, LoopStep(l) PROVE LockHeld' /\ RunsAccepted'
  BY <1>1 DEF LoopStep, StartLoop, TickEnds, TickFires, LoopReturns
<1>2. ASSUME NEW r \in Requests, CallStep(r) PROVE LockHeld' /\ RunsAccepted'
  BY <1>2 DEF CallStep, RunOnceChecks, RunOnceAdds, RunReturns
<1>3. ASSUME NEW r \in Requests, Trigger(r) PROVE LockHeld' /\ RunsAccepted'
  BY <1>3 DEF Trigger, RunOnceCalled
<1>4. CASE StartContext \/ RootDone \/ SignalArrives \/ UNCHANGED vars
  BY <1>4 DEF StartContext, RootDone, SignalArrives, vars, schedVars
<1>5. CASE ShutdownStep
  BY <1>5 DEF ShutdownStep, BeginShutdown, ServerDrained, ManagerCloses, ManagerPanics,
     CrawlerStops, StopStep, StopLocks, StopCancels, StopReturns, ProcessExits, schedVars
<1> QED BY <1>1, <1>2, <1>3, <1>4, <1>5 DEF Next, CrawlerRuns

\* Stop waits with the lock held and the context done, so that RunOnce refuses and
\* no loop is left to start.
LEMMA SealStep ==
  ASSUME ShutdownInv, [Next]_vars
  PROVE  StopSeals'
<1> USE SchedulerAssumption DEF ShutdownInv, TypeOK, LockHeld, StopSeals, Started
<1>1. ASSUME NEW l \in Loops, LoopStep(l) PROVE StopSeals'
  <2>1. CASE StartLoop(l)
    BY <2>1 DEF StartLoop
  <2>2. CASE TickEnds(l) \/ TickFires(l)
    BY <2>2 DEF TickEnds, TickFires
  <2>3. CASE LoopReturns(l)
    <3>1. l \in LiveLoops
      BY <2>3 DEF LoopReturns, LiveLoops
    <3>2. wg # 0
      BY <3>1, LiveFinite, FS_EmptySet DEF WaitGroupExact
    <3> QED BY <2>3, <3>2 DEF LoopReturns
  <2> QED BY <1>1, <2>1, <2>2, <2>3 DEF LoopStep
<1>2. ASSUME NEW r \in Requests, CallStep(r) PROVE StopSeals'
  <2>1. CASE RunOnceChecks(r)
    BY <2>1 DEF RunOnceChecks
  <2>2. CASE RunOnceAdds(r)
    BY <2>2 DEF RunOnceAdds
  <2>3. CASE RunReturns(r)
    <3>1. r \in LiveRuns
      BY <2>3 DEF RunReturns, LiveRuns
    <3>2. wg # 0
      BY <3>1, LiveFinite, FS_EmptySet DEF WaitGroupExact
    <3> QED BY <2>3, <3>2 DEF RunReturns
  <2> QED BY <1>2, <2>1, <2>2, <2>3 DEF CallStep
<1>3. ASSUME NEW r \in Requests, Trigger(r) PROVE StopSeals'
  BY <1>3 DEF Trigger, RunOnceCalled
<1>4. CASE StartContext \/ RootDone \/ SignalArrives \/ UNCHANGED vars
  BY <1>4 DEF StartContext, RootDone, SignalArrives, vars, schedVars
<1>5. CASE StopStep
  BY <1>5 DEF StopStep, StopLocks, StopCancels, StopReturns
<1>6. CASE UNCHANGED schedVars
  BY <1>6 DEF schedVars
<1> QED BY <1>1, <1>2, <1>3, <1>4, <1>5, <1>6
        DEF Next, CrawlerRuns, ShutdownStep, BeginShutdown, ServerDrained, ManagerCloses,
            ManagerPanics, CrawlerStops, ProcessExits

LEMMA ClosersStep ==
  ASSUME ShutdownInv, [Next]_vars
  PROVE  ClosersInOrder'
<1> USE DEF ShutdownInv, TypeOK, ClosersInOrder
<1>1. CASE CrawlerRuns
  BY <1>1 DEF CrawlerRuns, procVars, StartContext, LoopStep, StartLoop, TickEnds,
     TickFires, LoopReturns, CallStep, RunOnceChecks, RunOnceAdds, RunReturns
<1>2. ASSUME NEW r \in Requests, Trigger(r) PROVE ClosersInOrder'
  BY <1>2 DEF Trigger, RunOnceCalled, procVars
<1>3. CASE RootDone \/ SignalArrives \/ UNCHANGED vars
  BY <1>3 DEF RootDone, SignalArrives, vars, schedVars, procVars
<1>4. CASE proc = "up" /\ ShutdownStep
  BY <1>4 DEF ShutdownStep, BeginShutdown, ServerDrained, ManagerCloses, ManagerPanics,
     CrawlerStops, StopStep, StopLocks, StopCancels, StopReturns, ProcessExits, schedVars
<1> QED BY <1>1, <1>2, <1>3, <1>4 DEF Next

-----------------------------------------------------------------------------
(* Theorems *)

\* The invariant of the scheduler inside the process that shuts down.
THEOREM ShutdownInvariant == Spec => []ShutdownInv
<1>1. ShutdownInv /\ [Next]_vars => ShutdownInv'
  BY TypeStep, CountStep, LockStep, SealStep, ClosersStep DEF ShutdownInv
<1> QED BY InvInit, <1>1, PTL DEF Spec

\* With a counter at zero, no goroutine is left.
LEMMA ZeroMeansNone ==
  ASSUME ShutdownInv, wg = 0
  PROVE  Tracked = {}
<1>1. Cardinality(LiveLoops) = 0 /\ Cardinality(LiveRuns) = 0
  BY LiveFinite DEF ShutdownInv, WaitGroupExact
<1>2. LiveLoops = {} /\ LiveRuns = {}
  BY <1>1, LiveFinite, FS_EmptySet
<1> QED BY <1>2 DEF Tracked, LiveLoops, LiveRuns

\* Once Scheduler.Stop has returned no tick and no on-demand crawl is running,
\* however many RunOnce calls raced it.
THEOREM StopsDrained == Spec => []StopDrains
<1>1. ShutdownInv => StopDrains
  BY ZeroMeansNone DEF StopDrains, ShutdownInv, StopSeals
<1> QED BY ShutdownInvariant, <1>1, PTL

\* When run() of the adapter returns no crawl is left behind and the crawler's
\* database is closed.
THEOREM ExitIsClean == Spec => []ExitLeavesNothingRunning
<1>1. ShutdownInv => ExitLeavesNothingRunning
  BY ZeroMeansNone DEF ExitLeavesNothingRunning, ShutdownInv, StopSeals, ClosersInOrder
<1> QED BY ShutdownInvariant, <1>1, PTL

=============================================================================
