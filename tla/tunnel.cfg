SPECIFICATION FairSpec
CONSTANTS
  Conns = {c1, c2, c3}
  Proxy = proxy
  Backlog = 2
  MaxProcs = 2
  MaxStarts = 2
INVARIANTS
  TypeOK
  OnlyOwnChildHolds
  ClosedWithItsChild
PROPERTIES
  OffPortOnlyBesideOrphan
  WaitingIsAccepted
CHECK_DEADLOCK FALSE
