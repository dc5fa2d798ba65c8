SPECIFICATION StoreSpec
CONSTANTS
  Hour <- MCHour
  Path <- MCHour
  PathOf <- MCPathOf
  Sample = {0}
  Value = {20}
  EMPTY = EMPTY
  NOT_MEASURED = NOT_MEASURED
  ABSENT = ABSENT
  TORN = TORN
  HOUR_BUFFER_SIZE = 2
  IsProvided = TRUE
  SaveOutcome = {"ok", "open_failed", "write_failed", "close_failed"}
  LoadOutcome = {"ok", "access_failed", "read_failed"}
  MayCrash = TRUE
INVARIANTS NoDuplicateHours CleanHourOnDisk ValueProvenance
