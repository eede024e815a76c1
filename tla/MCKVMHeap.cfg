SPECIFICATION Spec
VIEW HeapView
SYMMETRY SlotSymmetry
CONSTANTS
  VMHeapSize = 8
  Slots = {x, y}
  Sizes = {0, 2}
  PermanentSizes = {1}
  PermanentStep = 2
  MaxPermanent = 2
  PermanentWhenFull = FALSE
  NULL = NULL
INVARIANTS HeapInvariant FailsOnlyWhenFull
PROPERTIES ImplementsObjectStore
