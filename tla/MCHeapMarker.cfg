SPECIFICATION FairSpec
CONSTANTS
  HeapLen = 7
  Graphs <- ProgramGraphs
  Layouts <- RootHigh
  MAX_GC_DEPTH = 1
  DEFERRED_OBJECT_TABLE_SIZE = 1
  NULL = NULL
INVARIANTS MarkInvariant MarkedIsReachable WeakPointersSettled
PROPERTIES MarkingEnds
