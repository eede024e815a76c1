SPECIFICATION Spec
CONSTANTS
  t1 = t1
  t2 = t2
  Threads = {t1, t2}
  A = A
  B = B
  D = D
  Classes = {A, B, D}
  Super <- SuperOf
  FinalClasses = {D}
  Hierarchies <- NoNamesakes
  lv = lv
  lw = lw
  li = li
  la = la
  lg = lg
  ln = ln
  Locations = {lv, lw, li, la, lg, ln}
  Instruction <- Code
  ClassAt <- NamedAt
  CallerClass = A
  INLINECACHESIZE = 2
  MaxEvents = 1
  BreakLocations = {ln}
  StepLocations = {lw}
  NIL = NIL
INVARIANTS CodeReversible CallsRightMethod BreakpointsArmed
SYMMETRY ThreadSymmetry
