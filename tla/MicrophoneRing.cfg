\* The ring, the heap and the calls of read through starts, stops and failed
\* starts; after a stop without a task the caller is gone, so the system may stop.
SPECIFICATION FairSpec
CONSTANTS
  Backlog = 2
  Frames = {f1, f2, f3, f4, f5}
  MaxRead = 2
  MaxStarts = 2
  StartMayFail = TRUE
INVARIANTS DecisionsHold FramesOwnedOnce HeapAccounted
PROPERTIES ImplementsFifo ReadReturns
CHECK_DEADLOCK FALSE
