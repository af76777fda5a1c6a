SPECIFICATION Spec
CONSTANTS
  N = 5
  Length <- Lengths
  Start <- Starts
  HeaderSize = 2
INVARIANTS
  SanityChecked
CHECK_DEADLOCK FALSE
