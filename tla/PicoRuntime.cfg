SPECIFICATION PicoSpec
CONSTANTS
  SecondsPerLog = 2
  LogsPerHour = 2
  CountSize = 3
  Clocks = {5, 8}
  MaxTime = 13
  MaxTips = 5
  MaxReboots = 1
INVARIANTS PicoTypeOK RainConserved
PROPERTIES DropJustified SlotLoggedOnce
CHECK_DEADLOCK FALSE
