SPECIFICATION Spec
CONSTANTS
  NS = 3
  P = 2
  MemoryMaps <- mcMaps
  Watched <- mcWatched
  Requests <- mcRequests
  MaxCalls = 2
  NoRequest = NoRequest
INVARIANTS
  Identity
  TlbCurrent
  MappedAsDeclared
PROPERTY
  ImplementsMemoryMap
CHECK_DEADLOCK FALSE
