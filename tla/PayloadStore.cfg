SPECIFICATION Spec
CONSTANTS
  Messages = {m1, m2}
  Writers = {w1, w2}
  TTL = 2
  IndexTTL = 3
  NoMessage = NoMessage
  MaxTime = 5
\* The clock stops at MaxTime.
CHECK_DEADLOCK FALSE
INVARIANTS
  IndexSound
  IndexComplete
  IndexOutlivesEntries
