SPECIFICATION Spec
CONSTANTS
  MaxVersion = 3
  Dds = dds
  Handlers = {dds, custom}
  Callers = {"async", "sync"}
  Faults = {"error", "timeout", "stale"}
INVARIANTS FinishMeansSynced NoLostWakeup TokenKept HandshakeInv
PROPERTY DataInOrder
CHECK_DEADLOCK FALSE
