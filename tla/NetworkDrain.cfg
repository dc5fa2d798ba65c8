SPECIFICATION FairNet
CONSTANTS
  Addr = {n1, n2}
  NULL = NULL
  Item <- Packet
  Capacity = 2
  Device = {1, 2, 3}
  DEVICE_ID = 1
  BROADCAST = 65535
  NOBODY = 0
  Interface = {usb}
  INTERFACES_MAX = 1
  ROUTING_TABLE_SIZE = 2
  ROUTING_ENTRY_TIMEOUT = 0
  PACKET_MAX_TTL = 2
  Inbound <- MCLiveMessages
  LocalTargets = {65535}
  RX_QUEUE_SIZE = 1
  PACKET_DELETE_TIMEOUT = 1
  SendResult = {"ZEJF_OK", "ZEJF_ERR_IO", "ZEJF_ERR_SEND_UNABLE"}
INVARIANTS NetTypeOK TxForeign
PROPERTY QueueDrains
