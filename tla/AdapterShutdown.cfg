SPECIFICATION FairSpec
CONSTANTS
  Loops = {poll, sync, sweep}
  Requests = {r1, r2}
  NoOne = NoOne
  Stopper = Stopper
\* The process may end.
CHECK_DEADLOCK FALSE
INVARIANTS
  ExitLeavesNothingRunning
  StopDrains
PROPERTIES
  ShutdownCompletes
