SPECIFICATION FairSpec
CONSTANTS
  N = 5
  Length <- Lengths
  Start <- Starts
  HeaderSize = 2
INVARIANTS
  TypeOK
  HandedOnAsWritten
  NothingReadAhead
  EofLosesNothing
PROPERTIES
  EveryMessageHandedOn
CHECK_DEADLOCK FALSE
