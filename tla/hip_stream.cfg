SPECIFICATION FairSpec
CONSTANTS
  FifoSize = 72
  BYTE_PACK_HEAD_SIZE = 17
  TEMP_BUF_SIZE = 256
  PackSlots = 2
  LocalIp <- Ip1111
  Packets <- Mix
  Traffic <- Carried
  MaxPackets = 2
  ChunkSizes = {13, 18, 26, 44, 62, 70}
INVARIANTS TypeOK Intact NoPhantoms
PROPERTY AllHandled
CHECK_DEADLOCK FALSE
