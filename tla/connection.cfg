\* Every kind of request, subscriptions that replace each other, a channel that
\* overflows and a client that reads slowly.
SPECIFICATION FairSpec
CONSTANTS
  k1 = k1
  k2 = k2
  Key = {k1, k2}
  Requests <- AllKinds
  None = None
  Capacity = 1
  OutCap = 1
  MaxRequests = 2
  MaxEvents = 2
INVARIANTS TypeOK UpdatesInOrder RepliesInOrder LagAddsUp
PROPERTIES WholeRequestsAnswered EventsDelivered ShutdownEnds
CHECK_DEADLOCK FALSE
