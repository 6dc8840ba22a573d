SPECIFICATION FairSpec
CONSTANTS
  a = a
  b = b
  Ip = {a, b}
  NoIp = NoIp
  CLIENT_MAX_NUM = 1
  CLIENT_KEEP_ALIVE_TIME = 1
  Commands = {"keep_alive", "pass_through"}
  Garbage = {0, 1}
  FdRange = 2
  MaxFd = 3
  MaxConnects = 2
  MaxSends = 1
  MaxEvents = 2
INVARIANTS TypeOK CountBounded
PROPERTY SilentDropped
