SPECIFICATION MCKeysSpec
CONSTANTS
  Devices = {k1, k2}
  ExDevices = {k1, k2}
  Requests <- MCRequests
  ToggleRequest <- MCToggleRequest
  AllocUnit = 1
  NoHandle = NoHandle
  k1 = k1
  k2 = k2
  MaxKeys <- MCMaxKeys
  ReadCalls = {"ReadKeyStroke", "ReadKeyStrokeEx"}
  Failures = {{}, {k1}}
INVARIANTS
  QueueInBuffer
  InOrderOnce
  NoFullKeyLost
PROPERTIES
  KeyDelivered
CHECK_DEADLOCK FALSE
