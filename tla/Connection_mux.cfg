SPECIFICATION Spec
CONSTANTS
  None = None
  Inbound = {c1}
  Outbound = {o1, o2}
  Ids = {i1, i2}
INVARIANTS TypeOK LockOwner
PROPERTIES CloseShutsSubstreams LockObtained
CHECK_DEADLOCK FALSE
