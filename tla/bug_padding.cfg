SPECIFICATION Spec
CONSTANTS
  FlowMods <- PaddingFlowMods
  FilterSize = 64
INVARIANTS
  LengthIsRight
