SPECIFICATION Spec
CONSTANTS
  u1 = u1
  u2 = u2
  Data = Data
  Short = Short
  None = None
  Addrs = {a1}
  Ufrags = {u1}
  BadHex = {u1}
  Conns = {c1}
  Callers = {p1, p2}
  Datagrams <- AnyDatagram
  NewAddrBuffer = 0
  CloseForgets = TRUE
INVARIANTS OneTearDown
PROPERTIES CloseStopsWorker ClosedConnRemoved
