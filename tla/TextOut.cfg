SPECIFICATION TextOutSpec
CONSTANTS
  screen = screen
  small = small
  term = term
  Devices = {screen, small, term}
  Modes <- MCModes
  DevicesOf <- MCDevicesOf
  NoDevice = NoDevice
  AllocUnit = 2
INVARIANTS
  RowsAgree
PROPERTIES
  SyncedAfterStart
  ImplementsModes
CHECK_DEADLOCK FALSE
