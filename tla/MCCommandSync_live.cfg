SPECIFICATION FairSpec
CONSTANTS
  MaxVersion = 3
  Dds = dds
  Handlers = {dds, custom}
  Callers = {"async"}
  Faults = {}
INVARIANTS HistoryComplete
PROPERTIES EveryCommandSucceeds ImplementsAggregateLog
CHECK_DEADLOCK FALSE
