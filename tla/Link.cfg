SPECIFICATION MCSpec
CONSTANTS
  Caller = {c1, c2}
  Servers <- MCServers
  MaxLinks = 3
  Absent = Absent
  Call = {c1, c2}
  MaxPush = 3
  HasTimeout = TRUE
INVARIANTS SessionIsTheUsers OwnReplies FirstLinkHasFeature PushesComplete
PROPERTIES QueuedIsSent PushesEnd
CHECK_DEADLOCK FALSE
