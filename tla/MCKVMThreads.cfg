CONSTANTS
  t1 = t1
  t2 = t2
  t3 = t3
  o1 = o1
  o2 = o2
  Threads = {t1, t2, t3}
  Objects = {o1}
  Monitors = {m1}
  NIL = NIL
  MainThread = t1
  JavaThread <- JavaThreadOf
  MaxDepth = 2
  ShortMax = 3
  SleepTimes = {1}
  WaitTimes = {0, 2}
  Interruptible = {t1}
  ReInterrupt = FALSE
  HashObjects = {}
  HashOnMonitor = TRUE
  MaxHash = 0
SPECIFICATION FairSpec
INVARIANTS ThreadsExact AlarmsExact
PROPERTIES StopWakesJoiners ImplementsJavaMonitor NobodyOversleeps QueuedThreadGetsMonitor
