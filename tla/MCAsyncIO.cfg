CONSTANTS
  Threads = {t1, t2, t3}
  IOThreads = {w1, w2}
  IocbCount = 2
  NIL = NIL
  Object = Object
  MaxVersion = 2
SPECIFICATION FairSpec
INVARIANTS CallsAccounted CollectorExcludesCalls PointersCurrent NoCallSurvivesRestart HandoverIsSound
PROPERTY EverybodyProceeds
