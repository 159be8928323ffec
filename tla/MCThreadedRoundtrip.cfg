SPECIFICATION FairSpec
CONSTANTS
  Board = {"sender", "receiver"}
  None = None
  Requests <- MCRequests
  Unbuildable <- MCUnbuildable
  LongRequests <- MCLongRequests
  Rejected <- MCRejected
  LongProposals <- MCLongProposals
  Distrusted <- MCDistrusted
  FirmwareStatus = "never"
  MaxFaults = 0
INVARIANTS
  TypeOK
  HangUpsHaveACause
  FailsOnlyWhenRefused
PROPERTIES
  AllThreadsEnd
  ImplementsExchange
CHECK_DEADLOCK FALSE
