\* A request in two pieces with an event between them.
SPECIFICATION FairSpec
CONSTANTS
  k1 = k1
  k2 = k2
  Key = {k1, k2}
  Requests <- SubscribeAndRead
  None = None
  Capacity = 1
  OutCap = 1
  MaxRequests = 2
  MaxEvents = 1
PROPERTY EveryRequestAnswered
CHECK_DEADLOCK FALSE
