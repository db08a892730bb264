SPECIFICATION Spec
CONSTANTS
  None = None
  SocketIP = ip0
  Capacity = 1
  Listeners = {l1, l2}
  Droppable = {l2}
  Bindings = {"one", "any"}
  OwnIPs = {v4}
  OtherIPs = {v6}
  Addrs = {a1}
  MaxEvents = 2
  MaxFaults = 2
INVARIANTS TypeOK AnnouncesInterfaces WakersLeft NoAddressStranded
PROPERTIES ErrorsPause AddressUpgraded WorkerEndEndsStreams
CHECK_DEADLOCK FALSE
