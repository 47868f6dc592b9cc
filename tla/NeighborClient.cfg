SPECIFICATION FairSpec
CONSTANTS
  NumPaths = 2
  MaxRequests = 2
  Faults = {"refuse", "close", "split", "order", "raise"}
INVARIANTS TypeOK InStep
PROPERTIES GoesOn ExchangeSafety
CHECK_DEADLOCK FALSE
