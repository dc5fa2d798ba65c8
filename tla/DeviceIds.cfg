SPECIFICATION IdSpec
CONSTANTS
  IdSpace = 8
  RESERVED_DEVICE_IDS = 3
  DEVICE_ID = 1
  ROUTING_TABLE_SIZE = 3
INVARIANT IdTypeOK
PROPERTY FreshUntilWrap
