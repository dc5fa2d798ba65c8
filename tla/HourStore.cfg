SPECIFICATION FairStore
CONSTANTS
  Hour <- MCHour
  Path <- MCHour
  PathOf <- MCPathOf
  Sample = {0}
  Value = {20, 21}
  EMPTY = EMPTY
  NOT_MEASURED = NOT_MEASURED
  ABSENT = ABSENT
  TORN = TORN
  HOUR_BUFFER_SIZE = 2
  IsProvided = TRUE
  SaveOutcome = {"ok"}
  LoadOutcome = {"ok"}
  MayCrash = FALSE
INVARIANT StoreTypeOK
PROPERTIES ImplementsStore LogBecomesDurable
