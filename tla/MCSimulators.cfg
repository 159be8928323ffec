SPECIFICATION FairSpec
CONSTANTS
  fixture = fixture
  another = another
  rejected = rejected
  longAnswer = longAnswer
  distrusted = distrusted
  None = None
  Board = {"sender", "receiver"}
  Requests = {fixture, another, rejected, longAnswer, distrusted}
  Unbuildable = {}
  LongRequests = {}
  Distrusted = {distrusted}
  Rejected = {rejected}
  LongProposals = {longAnswer}
  FirmwareStatus = "onSuccess"
  Fixture = fixture
  MaxFaults = 1
  MaxRestarts = 2
INVARIANTS
  SimCausality
  SimSpeaksBoardsCommands
PROPERTIES
  SimRoundTripCompletes
  NobodyStranded
CHECK_DEADLOCK FALSE
