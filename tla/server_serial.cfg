SPECIFICATION SerialSpec
CONSTANTS
  a = a
  b = b
  Ip = {a, b}
  NoIp = NoIp
  CLIENT_MAX_NUM = 2
  CLIENT_KEEP_ALIVE_TIME = 1
  Commands = {"keep_alive"}
  Garbage = {0}
  FdRange = 4
  MaxFd = 3
  MaxConnects = 3
  MaxSends = 0
  MaxEvents = 3
INVARIANT TableSound
PROPERTY RefusedOnlyWhenFull
SYMMETRY Hosts
