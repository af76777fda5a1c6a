SPECIFICATION FairSpec
CONSTANTS
  FlowMods <- AllFlowMods
  FilterSize = 64
INVARIANTS
  TypeOK
  RewriteRightExactlyWhen
  NothingLeftOver
PROPERTIES
  RewriteEnds
