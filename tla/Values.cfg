SPECIFICATION MCSpec
CONSTANTS
  I64Max = 3
  Nanos = 4
  Indexes <- MCIndexes
  Minute = 2
  CrateMax = 2
  Zones <- MCZones
  ZoneMax = 3
  Anchors <- MCAnchors
  Span = 1600
  NearEpoch = 20000
  Offsets <- MCOffsets
  Seconds <- MCSeconds
INVARIANTS DecimalsAreNumbers InstantsSurvive DatesAreCivil SpansSurvive UuidsAreRead
CHECK_DEADLOCK FALSE
