SPECIFICATION Spec
CONSTANTS
  MaxSync = 2
  MaxFires = 0
  MaxLinks = 2
  ChanCap = 1
  MaxDeferred = 1
  MinDelay = 1
  MaxDelay = 2
  Retry = TRUE
  HasTimeout = FALSE
  ShutdownWatched = TRUE
PROPERTY RefusedByThisServer
