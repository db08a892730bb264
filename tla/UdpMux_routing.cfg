SPECIFICATION Spec
CONSTANTS
  u1 = u1
  u2 = u2
  Data = Data
  Short = Short
  None = None
  Addrs = {a1}
  Ufrags = {u1, u2}
  BadHex = {}
  Conns = {c1, c2}
  Callers = {p1}
  Datagrams <- OneStun
  NewAddrBuffer = 0
  CloseForgets = FALSE
INVARIANTS TypeOK RoutesAccounted ListedWatched
PROPERTIES ReportOnce RoutedToOwner ImplementsService
SYMMETRY ConnSymmetry
