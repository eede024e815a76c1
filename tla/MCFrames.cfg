SPECIFICATION FairSpec
CONSTANTS
  main = main
  locked = locked
  large = large
  Exc = Exc
  IMS = IMS
  Err = Err
  Methods = {main, locked, large}
  Code <- PaddedCode
  ThreadBodies = {main, locked}
  Objects = {o1}
  Exceptions = {Exc, IMS, Err}
  Errors = {Err}
  Raised = {Exc}
  IllegalMonitorState = IMS
  OutOfMemory = Err
  Interrupted = Exc
  JavaLangError = Err
  NoObject = NoObject
  NoException = NoException
  MaxFrames = 4
  MaxHeld = 2
  MayFail = {"push", "enter"}
INVARIANTS FramesFit
PROPERTIES ImplementsCallStack ThrowEnds
CHECK_DEADLOCK FALSE
