SPECIFICATION Spec
CONSTANTS
  NumPaths = 2
  MaxRequests = 2
  Faults = {"raise"}
INVARIANTS OwnAnswers
