SPECIFICATION Spec
CONSTANTS
  HeapSize = 20
INVARIANTS MoveInvariant PointersFollowObjects
