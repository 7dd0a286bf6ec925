SPECIFICATION Spec
CONSTANTS
  MaxVersion = 3
  Dds = dds
  Handlers = {dds, custom}
  Callers = {"async","sync"}
  Faults = {}
INVARIANT NobodyWaitsForFinished
CHECK_DEADLOCK FALSE
