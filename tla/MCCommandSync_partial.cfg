SPECIFICATION Spec
CONSTANTS
  MaxVersion = 3
  Dds = dds
  Handlers = {dds, custom}
  Callers = {"async","partial"}
  Faults = {}
INVARIANT NoCommandSkipped
CHECK_DEADLOCK FALSE
