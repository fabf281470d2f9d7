SPECIFICATION Spec
CONSTANTS
  Devices = {k1, k2, s1}
  ExDevices = {k1, k2}
  Requests <- MCRequests
  ToggleRequest <- MCToggleRequest
  AllocUnit = 1
  NoHandle = NoHandle
SYMMETRY MCSymmetry
INVARIANTS
  BuffersCoverLists
  EachConsoleOnce
  NotifiedEverywhere
  SlotsInUseWritten
PROPERTIES
  NothingLeftRegistered
