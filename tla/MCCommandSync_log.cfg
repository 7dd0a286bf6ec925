SPECIFICATION Spec
CONSTANTS
  MaxVersion = 2
  Dds = dds
  Handlers = {dds, custom}
  Callers = {"async", "partial", "duplicate", "sync"}
  Faults = {"error", "timeout", "stale", "retry", "lost_resume", "late_end"}
INVARIANTS TypeOK
PROPERTIES AppendOnlyLog
CHECK_DEADLOCK FALSE
