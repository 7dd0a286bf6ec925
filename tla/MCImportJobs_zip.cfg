SPECIFICATION MCSpec
CONSTANTS
  b1 = b1
  b2 = b2
  LastFile = 2
  Batches = {b1, b2}
  content <- TwoFiles
  MaxDeliveries = 2
  Faults = {"start", "rows", "crash", "dies", "redelivery"}
INVARIANTS TypeOK CompletedMeansAccepted
PROPERTY ImportEnds
CHECK_DEADLOCK FALSE
