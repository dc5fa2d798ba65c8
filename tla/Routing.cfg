SPECIFICATION FairRouting
CONSTANTS
  Device = {1, 2, 3, 4, 5}
  DEVICE_ID = 1
  Watched = 2
  Interface = {usb, tcp}
  INTERFACES_MAX = 2
  ROUTING_TABLE_SIZE = 3
  ROUTING_ENTRY_TIMEOUT = 0
  PACKET_MAX_TTL = 3
INVARIANTS RoutingTypeOK RoutesUnique RouteAsHeard
PROPERTIES RouteLossJustified NoRouteLeftBehind SilentRouteGoes
