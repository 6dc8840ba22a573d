SPECIFICATION FairSpec
CONSTANTS
  SEND_KEEP_ALIVE_TIME = 0
  KEEP_ALIVE_TIMEOUT_TIME = 1
  Commands = {"login", "keep_alive"}
  LoginTries = 2
  MaxFd = 3
  MaxConnects = 3
  SendFifoPackets = 1
  RecvFifoPackets = 0
  MaxInbox = 1
INVARIANTS TypeOK SocketOpen
PROPERTY Reconnects
