SPECIFICATION Spec
CONSTANTS
  Streams = {"s1"}
  MaxSync = 5
  MaxLinks = 2
  ChanCap = 2
  HasTimeout = FALSE
  MayAbort = FALSE
INVARIANT Atomic
CHECK_DEADLOCK FALSE
