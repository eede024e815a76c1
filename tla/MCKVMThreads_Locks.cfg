CONSTANTS
  t1 = t1
  t2 = t2
  t3 = t3
  o1 = o1
  o2 = o2
SYMMETRY MonitorSymmetry
CONSTANTS
  Threads = {t1, t2}
  Objects = {o1, o2}
  Monitors = {m1, m2}
  NIL = NIL
  MainThread = t1
  JavaThread <- JavaThreadOf
  MaxDepth = 2
  ShortMax = 3
  SleepTimes = {1}
  WaitTimes = {0, 1}
  Interruptible = {t1, t2}
  ReInterrupt = FALSE
  HashObjects = {o1, o2}
  HashOnMonitor = FALSE
  MaxHash = 3
SPECIFICATION Spec
INVARIANTS TypeOK ExtendedLockUnique MonitorsExact HashStable
