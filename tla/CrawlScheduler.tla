--------------------------- MODULE CrawlScheduler ---------------------------
(***************************************************************************)
(* catalogcrawler's Scheduler: three ticker loops and any number of        *)
(* on-demand RunOnce calls, tracked by one WaitGroup, against Stop.  A     *)
(* lock acquisition, a check or update made under the lock, and a          *)
(* goroutine's start or end are each one step.                             *)
(***************************************************************************)
EXTENDS Naturals, FiniteSets

CONSTANTS Loops,      \* index poll, catalog sync, park sweep
          Requests,   \* callers of RunOnce (POST /crawl/trigger)
          NoOne,      \* mu is free
          Stopper     \* the caller of Stop

ASSUME SchedulerAssumption ==
  /\ IsFiniteSet(Loops) /\ Loops # {} /\ IsFiniteSet(Requests)
  /\ NoOne \notin Requests /\ Stopper \notin Requests /\ NoOne # Stopper

VARIABLES ctx,    \* s.ctx: "unset" before Start, "live", "done" once cancelled
          mu,     \* who holds s.mu
          wg,     \* s.wg's counter
          loop,   \* loop[l]: the goroutine of one ticker loop
          call,   \* call[r]: where the RunOnce call of r is
          run,    \* run[r]: the goroutine RunOnce launched for r
          stop    \* where the call of Stop is

schedVars == <<ctx, mu, wg, loop, call, run, stop>>

SchedInit ==
  /\ ctx = "unset"
  /\ mu = NoOne
  /\ wg = 0
  /\ loop = [l \in Loops |-> "new"]
  /\ call = [r \in Requests |-> "idle"]
  /\ run = [r \in Requests |-> "none"]
  /\ stop = "idle"

-----------------------------------------------------------------------------
(* Start and the loops *)

\* The context is set under the lock.
StartContext ==
  /\ ctx = "unset" /\ mu = NoOne
  /\ ctx' = "live"
  /\ UNCHANGED <<mu, wg, loop, call, run, stop>>

\* s.loop: Add, then the goroutine, whose first tick is immediate.
StartLoop(l) ==
  /\ ctx # "unset"
  /\ loop[l] = "new"
  /\ loop' = [loop EXCEPT ![l] = "ticking"]
  /\ wg' = wg + 1
  /\ UNCHANGED <<ctx, mu, call, run, stop>>

Started == \A l \in Loops : loop[l] # "new"

\* pollTick, syncTick or parkSweepTick is over.
TickEnds(l) ==
  /\ loop[l] = "ticking"
  /\ loop' = [loop EXCEPT ![l] = "waiting"]
  /\ UNCHANGED <<ctx, mu, wg, call, run, stop>>

\* select takes the ticker; it may do so even when the context is done too.
TickFires(l) ==
  /\ loop[l] = "waiting"
  /\ loop' = [loop EXCEPT ![l] = "ticking"]
  /\ UNCHANGED <<ctx, mu, wg, call, run, stop>>

LoopReturns(l) ==
  /\ loop[l] = "waiting"
  /\ ctx = "done"
  /\ loop' = [loop EXCEPT ![l] = "returned"]
  /\ wg' = wg - 1
  /\ UNCHANGED <<ctx, mu, call, run, stop>>

-----------------------------------------------------------------------------
(* RunOnce *)

RunOnceCalled(r) ==
  /\ call[r] = "idle"
  /\ call' = [call EXCEPT ![r] = "locking"]
  /\ UNCHANGED <<ctx, mu, wg, loop, run, stop>>

\* Fault: the lock is given back between the check and wg.Add.
RunOnceChecksUnlocked(r) ==
  /\ call[r] = "locking"
  /\ mu = NoOne
  /\ call' = [call EXCEPT ![r] = IF ctx = "live" THEN "checked" ELSE "refused"]
  /\ UNCHANGED <<ctx, mu, wg, loop, run, stop>>

\* The lock, the check of ctx, and the early return.
RunOnceChecks(r) ==
  /\ call[r] = "locking"
  /\ mu = NoOne
  /\ IF ctx = "live" THEN /\ call' = [call EXCEPT ![r] = "checked"]
                          /\ mu' = r
                     ELSE /\ call' = [call EXCEPT ![r] = "refused"]
                          /\ UNCHANGED mu
  /\ UNCHANGED <<ctx, wg, loop, run, stop>>

\* wg.Add(1), Unlock, go.
RunOnceAdds(r) ==
  /\ call[r] = "checked"
  /\ call' = [call EXCEPT ![r] = "accepted"]
  /\ run' = [run EXCEPT ![r] = "running"]
  /\ wg' = wg + 1
  /\ mu' = IF mu = r THEN NoOne ELSE mu
  /\ UNCHANGED <<ctx, loop, stop>>

\* Fault: a crawl that fails leaves without wg.Done.
RunForgetsDone(r) ==
  /\ run[r] = "running"
  /\ run' = [run EXCEPT ![r] = "returned"]
  /\ wg' \in {wg, wg - 1}
  /\ UNCHANGED <<ctx, mu, loop, call, stop>>

RunReturns(r) ==
  /\ run[r] = "running"
  /\ run' = [run EXCEPT ![r] = "returned"]
  /\ wg' = wg - 1
  /\ UNCHANGED <<ctx, mu, loop, call, stop>>

-----------------------------------------------------------------------------
(* Stop *)

StopLocks ==
  /\ stop = "idle"
  /\ Started
  /\ mu = NoOne
  /\ mu' = Stopper
  /\ stop' = "locked"
  /\ UNCHANGED <<ctx, wg, loop, call, run>>

StopCancels ==
  /\ stop = "locked"
  /\ ctx' = IF ctx = "unset" THEN ctx ELSE "done"
  /\ stop' = "waiting"
  /\ UNCHANGED <<mu, wg, loop, call, run>>

\* wg.Wait returns and the lock is released.
StopReturns ==
  /\ stop = "waiting"
  /\ wg = 0
  /\ mu' = NoOne
  /\ stop' = "returned"
  /\ UNCHANGED <<ctx, wg, loop, call, run>>

-----------------------------------------------------------------------------
LoopStep(l) == StartLoop(l) \/ TickEnds(l) \/ TickFires(l) \/ LoopReturns(l)
CallStep(r) == RunOnceChecks(r) \/ RunOnceAdds(r) \/ RunReturns(r)
StopStep == StopLocks \/ StopCancels \/ StopReturns

-----------------------------------------------------------------------------
\* The goroutines the WaitGroup stands for.
Tracked == {l \in Loops : loop[l] \in {"ticking", "waiting"}}
             \cup {r \in Requests : run[r] = "running"}

\* Once Stop has returned no tick and no on-demand crawl is running, and none
\* starts: a RunOnce call racing Stop is either waited for or refused.
StopDrains == stop = "returned" => Tracked = {}

=============================================================================
