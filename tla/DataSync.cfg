SPECIFICATION FairSync
CONSTANTS
  Hours = 2
  Horizon <- MCHorizon
  SPH = 2
  DATA_CHECK_DELAY = 0
  MAX_ERRORS = 1
  DATA_REQUEST_QUEUE_SIZE = 1
  Windows = {1, 2}
  MaxWire <- MCMaxWire
  Links = {"hub", "viewer"}
INVARIANTS SyncTypeOK ConsumerBehind
PROPERTIES ImplementsReplica RequestLeaves ChecksRepair
CHECK_DEADLOCK FALSE
