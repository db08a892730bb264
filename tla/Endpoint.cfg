SPECIFICATION EndpointSpec
CONSTANTS
  f0 = f0
  f1 = f1
  Own = f0
  PeerFp <- PeerFps
  Data = Data
  Short = Short
  None = None
  Addrs = {a1, a2}
  Ufrags = {f0, f1}
  BadHex = {}
  Conns = {c1, c2}
  Callers = {p1, p2, d1}
  Dialers = {d1}
  DialAddrs = {a1}
  Closable = {c1}
  Datagrams <- StunMsgs
  NewAddrBuffer = 0
  CloseForgets = FALSE
INVARIANTS EndpointTypeOK SharedConn OneUpgradePerPeer
PROPERTIES PeerServed
CHECK_DEADLOCK FALSE
