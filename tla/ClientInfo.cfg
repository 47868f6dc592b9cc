SPECIFICATION Spec
CONSTANTS
  NS_QUEUE_SIZE = 3
  Switches = 2
  MaxIdx = 4
  MaxEpoch = 3
INVARIANTS TypeOK OnceInOrder NoneSkipped
