SPECIFICATION Spec
CONSTANTS
  None = None
  Words <- MCWords
  NumberOf <- MCNumberOf
  MaxWords = 6
INVARIANTS
  TypeOK
  NoPanic
  AcceptedLinesPairUp
  OpensWhatTheLineSays
CHECK_DEADLOCK FALSE
