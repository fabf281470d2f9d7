SPECIFICATION I2cSpec
CONSTANTS
  Bits = 4
  DevAddrs <- mcDevAddrs
  Regs <- mcRegs
  Values <- mcValues
  Address <- mcAddress
  FirstRegisters <- mcFirstRegisters
INVARIANTS
  WritesArrive
  ReadsRegister
  BusReleased
