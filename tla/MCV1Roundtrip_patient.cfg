SPECIFICATION FairSpec
CONSTANTS
  Board = {"sender", "receiver"}
  good = good
  another = another
  unbuildable = unbuildable
  rejected = rejected
  long = long
  longAnswer = longAnswer
  distrusted = distrusted
  None = None
  Requests = {good, unbuildable, rejected, long, longAnswer, distrusted}
  Unbuildable = {unbuildable}
  Rejected = {rejected}
  LongRequests = {long}
  LongProposals = {longAnswer}
  Distrusted = {distrusted}
  Patient = TRUE
  MaxFaults = 1
  MaxRestarts = 1
  FirmwareStatus = "onSuccess"
CHECK_DEADLOCK FALSE
INVARIANTS
  TypeOK
  FailsOnlyWhenRefused
  WaitingSenderIsServed
PROPERTIES
  RoundTripCompletes
  SenderReturnsUnlessReceiverFailed
  ImplementsExchange
