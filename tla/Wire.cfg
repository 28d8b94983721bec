SPECIFICATION MCSpec
CONSTANTS
  Payload <- MCPayload
  MaxPackets = 2
  MaxPacketLen = 2
  MaxKey = 4
  Limits <- MCLimits
  MaxWrites = 2
  MaxFailures = 1
  Caller <- MCCallers
  Frames <- MCFrames
  MaxStack = 2
  Codes <- MCCodes
  U32Max = 76
INVARIANTS UrlIsRead RightOneGetsIn FramesAreExact PacketsAreRead RowsOnce CallsDoAsAsked ErrorsAreTheServers
CHECK_DEADLOCK FALSE
