SPECIFICATION FairSpec
CONSTANTS
  Board = {"sender", "receiver"}
  good = good
  another = another
  unbuildable = unbuildable
  rejected = rejected
  long = long
  longAnswer = longAnswer
  distrusted = distrusted
  None = None
  Requests = {good, another}
  Unbuildable = {}
  Rejected = {}
  LongRequests = {}
  LongProposals = {}
  Distrusted = {}
  Patient = FALSE
  MaxFaults = 2
  MaxRestarts = 3
  FirmwareStatus = "onSuccess"
CHECK_DEADLOCK FALSE
INVARIANTS
  Causality
  CompletionMeansFinalized
  NoUnexpectedCommand
PROPERTIES
  HostNeverHangs
