SPECIFICATION EndpointSpec
CONSTANTS
  f0 = f0
  f1 = f1
  Own = f0
  PeerFp <- PeerFps
  Data = Data
  Short = Short
  None = None
  Addrs = {a1, a2}
  Ufrags = {f0, f1}
  BadHex = {}
  Conns = {c1}
  Callers = {p1, p2}
  Dialers = {}
  DialAddrs = {}
  Closable = {c1}
  Datagrams <- StunMsgs
  NewAddrBuffer = 0
  CloseForgets = FALSE
PROPERTIES EveryPeerUpgraded
CHECK_DEADLOCK FALSE
