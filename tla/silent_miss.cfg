\* A second subscription while events wait.
SPECIFICATION Spec
CONSTANTS
  k1 = k1
  k2 = k2
  Key = {k1, k2}
  Requests <- SubscribeAndRead
  None = None
  Capacity = 2
  OutCap = 1
  MaxRequests = 2
  MaxEvents = 1
INVARIANT NoSilentMiss
CHECK_DEADLOCK FALSE
