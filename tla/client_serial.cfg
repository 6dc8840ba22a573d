SPECIFICATION SerialSpec
CONSTANTS
  SEND_KEEP_ALIVE_TIME = 1
  KEEP_ALIVE_TIMEOUT_TIME = 1
  Commands = {"login", "keep_alive"}
  LoginTries = 1
  MaxFd = 2
  MaxConnects = 2
  SendFifoPackets = 1
  RecvFifoPackets = 1
  MaxInbox = 1
INVARIANT NothingLeaks
