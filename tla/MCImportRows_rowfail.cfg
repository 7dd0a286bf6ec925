SPECIFICATION MCSpec
CONSTANTS
  Items = {"a", "b"}
  Clients <- MCClients
  MaxVersion <- MCVersions
  MaxCommands = 8
  Messages <- MCMessages
  Single = {"row1", "row2", "row3"}
  Children = {"row1", "row2"}
  content <- MCContent
  MaxDeliveries = 2
  Redelivered = {"row3", "batch"}
  RowFaults = {"strategy", "sync"}

PROPERTY ParentIsTold
CHECK_DEADLOCK FALSE
