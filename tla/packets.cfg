SPECIFICATION Spec
CONSTANTS
  PacketOuts <- SomePacketOuts
  PacketIns <- SomePacketIns
  Others <- SomeOthers
  BufSize = 136
  FilterSize = 600
  MaxMessages = 2
INVARIANTS
  TypeOK
  PacketOutRightExactlyWhen
  ClassedByFrame
CHECK_DEADLOCK FALSE
