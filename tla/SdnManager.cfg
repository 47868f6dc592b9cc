SPECIFICATION FairSpec
CONSTANTS
  Addresses = {a1, a2, a3}
  Texts = TRUE
  MaxQueue = 1
INVARIANTS TypeOK OneReceive RepliesMatch TimerAlive
PROPERTIES Reconnects AskedAgain
CHECK_DEADLOCK FALSE
