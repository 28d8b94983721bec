SPECIFICATION FairSpec
CONSTANTS
  Watcher = {w1, w2}
  Key = {k1}
  MaxVersion = 2
  MaxLinks = 3
  ChanCap = 1
  MaxDeferred = 2
  MayCancel = TRUE
INVARIANTS TypeOK TablesAgree
PROPERTIES ImplementsRegister StopsSending
