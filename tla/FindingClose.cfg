SPECIFICATION Spec
CONSTANTS
  MaxSync = 1
  MaxFires = 0
  MaxLinks = 1
  ChanCap = 1
  MaxDeferred = 1
  MinDelay = 1
  MaxDelay = 2
  Retry = TRUE
  HasTimeout = FALSE
  ShutdownWatched = FALSE
PROPERTY CloseLetsFinish
