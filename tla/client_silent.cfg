SPECIFICATION FairSpec
CONSTANTS
  SEND_KEEP_ALIVE_TIME = 0
  KEEP_ALIVE_TIMEOUT_TIME = 1
  Commands = {"login", "keep_alive", "pass_through"}
  LoginTries = 1
  MaxFd = 2
  MaxConnects = 1
  SendFifoPackets = 1
  RecvFifoPackets = 1
  MaxInbox = 1
INVARIANT SocketOpen
PROPERTY SilentServerDropped
