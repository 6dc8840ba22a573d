SPECIFICATION FairSpec
CONSTANTS
  a = a
  b = b
  Ip = {a, b}
  NoIp = NoIp
  CLIENT_MAX_NUM = 1
  CLIENT_KEEP_ALIVE_TIME = 1
  Commands = {"keep_alive"}
  Garbage = {0}
  FdRange = 4
  MaxFd = 3
  MaxConnects = 2
  MaxSends = 0
  MaxEvents = 3
PROPERTY SilentCleaned
