SPECIFICATION MCSpec
CONSTANTS
  Subs = {s1, s2}
  Parent = task
  MaxDeliveries = 2
  MaxConcurrency = 2
  a1 = a1
  a2 = a2
  Aggregators = {a1, a2}
  Faults = {"error", "dies"}
INVARIANTS TypeOK CompletedMeansAllRan
PROPERTY TaskReportsItsEnd
CHECK_DEADLOCK FALSE
