SPECIFICATION FairSpec
CONSTANTS
  NS_QUEUE_SIZE = 2
  NB_QUEUE_SIZE = 2
  MaxIdx = 3
  MaxOutstanding = 2
INVARIANTS
  TypeOK
  ListsIncreasing
  NumEntriesPositive
  PollCovered
PROPERTIES
  FeedSafety
  Freshness
