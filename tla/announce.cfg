SPECIFICATION Spec
CONSTANTS
  Schedules = {"CLIENT", "SERVER"}
  Announced = {}
  Msg = {1, 2}
  NoMsg = 0
  Dir <- AnnounceDir
  Kind <- AnnounceKind
  Ident <- AnnounceIdent
  Idents = {0, 1, 2, 3}
  queue_num = 3
  FirstPaced = 3
  FLOW_MOD_QUEUE_2_ID = 2
  PO_QUEUE_2_ID = 2
  GarbageQids = {0, 255}
  GarbageIdents = {0}
  MaxInProcess = 2
  IntMax = 3
  WriteCanFail = TRUE
  RespMayBeLost = TRUE
  MaxSetBacks = 1
  FifoExists = {TRUE, FALSE}
INVARIANTS
  UnthrottledUntilWrap
  ServerListenerNamed
PROPERTIES
  StrictPriority
CHECK_DEADLOCK FALSE
