SPECIFICATION Spec
CONSTANTS
  MaxSync = 2
  MaxFires = 1
  MaxLinks = 3
  ChanCap = 2
  MaxDeferred = 1
  MinDelay = 1
  MaxDelay = 2
  Retry = TRUE
  HasTimeout = TRUE
  ShutdownWatched = TRUE
INVARIANTS TypeOK AtMostOnce AnswerIsOwn NobodyForgotten RefusalIsFinal
PROPERTIES SentInOrder ClosedSendsNothing ImplementsContract
