SPECIFICATION MCSpec
CONSTANTS
  Run = {r1, r2}
  MaxSessions = 3
  RunTimeout = TRUE
  Streams = {"s1"}
  MaxSync = 5
  MaxLinks = 2
  ChanCap = 2
  HasTimeout = TRUE
  MayAbort = TRUE
INVARIANTS RunsOnce OnlyDisturbedFail ReleaseLeavesNothing TypeOK AtomicOnOneLink OpenIsKnown
PROPERTIES RunsEnd AbandonedEnds
CHECK_DEADLOCK FALSE
