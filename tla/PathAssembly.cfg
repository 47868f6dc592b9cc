SPECIFICATION Spec
CONSTANTS
  First = 1
  Last = 3
  NS_QUEUE_SIZE = 1
  NB_QUEUE_SIZE = 2
  MaxIdx = 5
  MaxSlips = 1
INVARIANTS TypeOK HopOrder FreshEnough
PROPERTIES NeverOlder
CHECK_DEADLOCK FALSE
