SPECIFICATION FairSpec
CONSTANTS
  Clients = {c1, c2}
  NoClient = NoClient
  MaxCount = 8
INVARIANTS TypeOK NoLostWakeup OperationOwnsCallback PoweredOnlyInOperation ExitOnlyByCollision
PROPERTIES SessionSpec CancelEndsOperation RequestsAreRead BinderReturns
