\* Payloads that fit, that the limit refuses and that wrap around in the header.
SPECIFICATION FairSpec
CONSTANTS
  LenModulus = 4
  MAX_MESSAGE_BYTES = 2
  Buffer = 2
  MaxSize = 6
INVARIANTS TypeOK OnlyWholeMerged
PROPERTIES ImplementsDelivery SendEnds HandlerEnds
CHECK_DEADLOCK FALSE
