CONSTANTS
  t1 = t1
  t2 = t2
  t3 = t3
  Threads = {t1, t2, t3}
  NIL = NIL
  AllThreads <- AllThree
  MAXPARMLENGTH = 3
  ArgCounts = {0, 1}
  MaxEvents = 2
  MaxCommands = 2
  Exclusive = TRUE
  CarefulDebugger = TRUE
SPECIFICATION FairSpec
INVARIANTS SchedulingExact EventsInOrder
PROPERTIES WaiterGetsEvent
CHECK_DEADLOCK FALSE
