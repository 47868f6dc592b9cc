SPECIFICATION Spec
CONSTANTS
  Addresses = {a1}
  Texts = FALSE
  MaxQueue = 2
INVARIANTS ConnectedUsable
CHECK_DEADLOCK FALSE
