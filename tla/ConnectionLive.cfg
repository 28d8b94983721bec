SPECIFICATION ClientSpec
CONSTANTS
  MaxSync = 2
  MaxFires = 0
  MaxLinks = 2
  ChanCap = 2
  MaxDeferred = 2
  MinDelay = 1
  MaxDelay = 2
  Retry = TRUE
  HasTimeout = FALSE
  ShutdownWatched = TRUE
PROPERTIES EveryCallReturns CloseEndsTask
