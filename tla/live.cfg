SPECIFICATION FairSpec
CONSTANTS
  Schedules = {"SERVER"}
  Announced = {"SERVER"}
  Msg = {1, 2, 3}
  NoMsg = 0
  Dir <- FlowDir
  Kind <- FlowKind
  Ident <- FlowIdent
  Idents = {0, 1, 2, 3}
  queue_num = 4
  FirstPaced = 3
  FLOW_MOD_QUEUE_2_ID = 3
  PO_QUEUE_2_ID = 2
  GarbageQids = {1}
  GarbageIdents = {1}
  MaxInProcess = 2
  IntMax = 100
  WriteCanFail = TRUE
  RespMayBeLost = TRUE
  MaxSetBacks = 0
  FifoExists = {TRUE, FALSE}
INVARIANTS
  IInv
  CreditBalance
  SwitchBacklogBounded
  SentBeforeFreed
PROPERTIES
  StrictPriority
  EveryMessageSent
  
