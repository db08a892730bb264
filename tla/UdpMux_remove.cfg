SPECIFICATION Spec
CONSTANTS
  u1 = u1
  u2 = u2
  Data = Data
  Short = Short
  None = None
  Addrs = {a1}
  Ufrags = {u1}
  BadHex = {}
  Conns = {c1, c2}
  Callers = {p1}
  Datagrams <- OneUfragStun
  NewAddrBuffer = 0
  CloseForgets = FALSE
PROPERTY WatcherRemovesOwnConn
