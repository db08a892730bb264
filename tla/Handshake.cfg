SPECIFICATION Spec
CONSTANTS
  None = None
  Unspecified = "unspecified"
  p = p
  q = q
  r = r
  Dials = {d1}
  Upgrades = {u1, u2}
  Peers = {p, q}
  Relays = {r}
  Owner <- OwnerOf
  Addrs <- DialAddrs
INVARIANTS TypeOK AuthenticatedEnd PeerNotRefused
PROPERTIES FutureEnds ExchangeEnds PeerFollows
CHECK_DEADLOCK FALSE
