SPECIFICATION Spec
CONSTANTS
  MaxVersion = 3
  Dds = dds
  Handlers = {dds, custom}
  Callers = {"async"}
  Faults = {}
PROPERTY ReadModelsMoveForward
CHECK_DEADLOCK FALSE
