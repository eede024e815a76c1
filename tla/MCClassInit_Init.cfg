CONSTANTS
  A = A
  B = B
  C = C
  D = D
  t1 = t1
  t2 = t2
  t3 = t3
  Threads = {t1, t2}
  Classes = {A, B, C, D}
  NIL = NIL
  Super <- SuperOf
  Interfaces <- InterfacesOf
  MayFailToLoad = {C, D}
  MayFailToVerify = {B, D}
  MayOverflow = {B, D}
  Uses <- UsesOf
  HasClinit = {A, B, D}
  MayFail = {B, D}
  Lockers <- LockSound
  Interruptible = {t2}
SPECIFICATION FairSpec
INVARIANTS InitializersExact ClinitOnce LoadsAreWhole
PROPERTIES SuperclassFirst WaiterWakes
