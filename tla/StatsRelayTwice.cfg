SPECIFICATION Spec
CONSTANTS
  NS_QUEUE_SIZE = 3
  NB_QUEUE_SIZE = 3
  MaxIdx = 3
  MaxOutstanding = 2
PROPERTIES
  OnlyUnseen
