-------------------------- MODULE AdapterShutdown --------------------------
(***************************************************************************)
(* The adapter process around the crawler's Scheduler: run() starts the    *)
(* crawler and the HTTP server, and the shutdown goroutine drains the      *)
(* server and calls the closers in the order they were registered: the     *)
(* plugin manager's (which closes the crawler's database) before the       *)
(* crawler's own (Scheduler.Stop).                                         *)
(***************************************************************************)
EXTENDS CrawlScheduler

VARIABLES root,      \* the context run() was given: "live" or "done"
          closing,   \* where the shutdown goroutine is
          db,        \* the crawler's sql.DB: "open" or "closed"
          proc       \* "up", "exited" normally, "killed", "panicked"

procVars == <<root, closing, db, proc>>
vars == <<schedVars, procVars>>

Init ==
  /\ SchedInit
  /\ root = "live"
  /\ closing = "waiting"
  /\ db = "open"
  /\ proc = "up"

-----------------------------------------------------------------------------
\* Requests reach the trigger handler once the crawler is started and until
\* the server stops listening.
Trigger(r) ==
  /\ Started /\ closing = "waiting"
  /\ RunOnceCalled(r)
  /\ UNCHANGED procVars

\* The Scheduler's context derives from root and is cancelled with it.
RootDone ==
  /\ root = "live" /\ Started
  /\ root' = "done"
  /\ ctx' = IF ctx = "unset" THEN ctx ELSE "done"
  /\ UNCHANGED <<mu, wg, loop, call, run, stop, closing, db, proc>>

BeginShutdown ==
  /\ root = "done" /\ closing = "waiting"
  /\ closing' = "draining"
  /\ UNCHANGED <<schedVars, root, db, proc>>

\* httpServer.Shutdown: every handler has answered, or ten seconds are over.
ServerDrained ==
  /\ closing = "draining"
  /\ closing' = "closers"
  /\ UNCHANGED <<schedVars, root, db, proc>>

\* Fault: the closers stop after the plugin manager's.
ManagerClosesLast ==
  /\ closing = "closers"
  /\ db' = "closed"
  /\ closing' = "done"
  /\ UNCHANGED <<schedVars, root, proc>>

\* The plugin manager's closers, the crawler's db.Close among them.
ManagerCloses ==
  /\ closing = "closers"
  /\ db' = "closed"
  /\ closing' = "stopping"
  /\ UNCHANGED <<schedVars, root, proc>>

\* A closer of another plugin fails, and the manager panics.
ManagerPanics ==
  /\ closing = "closers"
  /\ proc' = "panicked"
  /\ UNCHANGED <<schedVars, root, closing, db>>

\* crawlerCloser: Scheduler.Stop.
CrawlerStops ==
  /\ closing = "stopping"
  /\ StopStep
  /\ closing' = IF stop' = "returned" THEN "done" ELSE closing
  /\ UNCHANGED <<root, db, proc>>

\* run()'s wg.Wait: the server and shutdown goroutines are over.
ProcessExits ==
  /\ closing = "done"
  /\ proc' = "exited"
  /\ UNCHANGED <<schedVars, root, closing, db>>

\* main() passes context.Background() and nothing calls signal.Notify: the
\* runtime's default disposition ends the process.
SignalArrives ==
  /\ proc' = "killed"
  /\ UNCHANGED <<schedVars, root, closing, db>>

-----------------------------------------------------------------------------
CrawlerRuns ==
  /\ \/ StartContext
     \/ \E l \in Loops : LoopStep(l)
     \/ \E r \in Requests : CallStep(r)
  /\ UNCHANGED procVars

ShutdownStep == \/ BeginShutdown \/ ServerDrained \/ ManagerCloses
                \/ ManagerPanics \/ CrawlerStops \/ ProcessExits

Next ==
  /\ proc = "up"
  /\ \/ CrawlerRuns
     \/ \E r \in Requests : Trigger(r)
     \/ RootDone
     \/ ShutdownStep
     \/ SignalArrives

Spec == Init /\ [][Next]_vars

\* Goroutines are scheduled and every tick and crawl ends (each HTTP and store
\* call is bounded by a timeout or by the cancelled context).  sync.Mutex does
\* not starve a waiter, and select picks at random among ready cases, so a
\* done context is not passed over for ever: strong fairness for both.  The
\* shutdown goroutine runs too.
Fairness ==
  /\ WF_vars(proc = "up" /\ StartContext /\ UNCHANGED procVars)
  /\ \A l \in Loops :
       /\ WF_vars(proc = "up" /\ (StartLoop(l) \/ TickEnds(l)) /\ UNCHANGED procVars)
       /\ SF_vars(proc = "up" /\ LoopReturns(l) /\ UNCHANGED procVars)
  /\ \A r \in Requests :
       /\ SF_vars(proc = "up" /\ RunOnceChecks(r) /\ UNCHANGED procVars)
       /\ WF_vars(proc = "up" /\ (RunOnceAdds(r) \/ RunReturns(r)) /\ UNCHANGED procVars)
  /\ SF_vars(proc = "up" /\ ShutdownStep)

FairSpec == Spec /\ Fairness

-----------------------------------------------------------------------------
\* When run() returns, no tick and no on-demand crawl is left behind, not even
\* one triggered while the server drained or timed out draining.
ExitLeavesNothingRunning == proc = "exited" => Tracked = {} /\ db = "closed"

\* Once its context is cancelled the process ends: the drain, the closers and
\* Scheduler.Stop never wait for each other for ever.
ShutdownCompletes == (root = "done") ~> (proc # "up")

=============================================================================
