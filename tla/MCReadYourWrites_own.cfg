SPECIFICATION Spec
CONSTANTS
  Users = {"me", "other"}
  Items = {"a"}
  MaxVersion = 2
  Faults = {"lost_session"}
INVARIANTS TypeOK PendingIsPrivate
PROPERTIES GetSeesOwnWrites ListSeesOwnWrites TotalIsListed
CHECK_DEADLOCK FALSE
