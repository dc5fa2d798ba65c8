SPECIFICATION FairConnected
CONSTANTS
  Client = {c1, c2}
  MaxFd = 2
  CLIENTS_MAX = 2
  INTERFACES_MAX = 3
  DUMMY_READ = 16
  MaxConnects = 2
  USB = USB
  NoOne = NoOne
PROPERTIES ClientServed LateClientGoes ShutdownEnds
CHECK_DEADLOCK FALSE
