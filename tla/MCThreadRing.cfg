CONSTANTS
  Threads = {t1, t2, t3, t4}
  Queues = {runq, waitq}
  NIL = NIL
  ReAdd = TRUE
SPECIFICATION Spec
PROPERTIES ImplementsQueues
