SPECIFICATION Spec
CONSTANTS
  None = None
  SocketIP = ip0
  Capacity = 2
  Listeners = {l1, l2}
  Droppable = {l2}
  Bindings = {"one"}
  OwnIPs = {}
  OtherIPs = {}
  Addrs = {a1}
  MaxEvents = 0
  MaxFaults = 0
PROPERTIES EveryListenerAccepts
CHECK_DEADLOCK FALSE
