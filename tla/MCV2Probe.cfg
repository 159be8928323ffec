SPECIFICATION FairSpec
CONSTANTS
  seedA = seedA
  seedB = seedB
  longSeed = longSeed
  None = None
  Board = {"device"}
  Requests = {seedA, seedB, longSeed}
  LongSeeds = {longSeed}
  Patient = TRUE
  MaxFaults = 2
  MaxRestarts = 3
PROPERTIES
  AnswersInOrder
  ProbeEnds
  ProbeCompletes
CHECK_DEADLOCK FALSE
