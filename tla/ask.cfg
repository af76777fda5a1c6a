SPECIFICATION FairSpec
CONSTANTS
  Schedules = {"CLIENT", "SERVER"}
  Announced = {"CLIENT", "SERVER"}
  Msg = {1, 2, 3}
  NoMsg = 0
  Dir <- AskDir
  Kind <- AskKind
  Ident <- AskIdent
  Idents = {0, 1, 2, 3}
  queue_num = 3
  FirstPaced = 3
  FLOW_MOD_QUEUE_2_ID = 2
  PO_QUEUE_2_ID = 2
  GarbageQids = {1}
  GarbageIdents = {0}
  MaxInProcess = 2
  IntMax = 100
  WriteCanFail = FALSE
  RespMayBeLost = FALSE
  MaxSetBacks = 0
  FifoExists = {TRUE}
INVARIANTS
  RequestAwaitsReply
PROPERTIES
  EverySentIsFinished
  ImplementsRelay
