SPECIFICATION FairSpec
CONSTANTS
  SvrTimeout = 1
  Fall = 4
  Windows = {1, 3}
  Prompt = TRUE
  ShortTrips = TRUE
  NumPorts = 2
  MaxPkt = 4
  MaxMsgs = 3
INVARIANTS TypeOK AckSafe
PROPERTIES Progress Reconnects
