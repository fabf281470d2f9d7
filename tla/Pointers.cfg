SPECIFICATION PointerSpec
CONSTANTS
  m1 = m1
  m2 = m2
  s1 = s1
  s2 = s2
  Mice <- MCMice
  Screens <- MCScreens
  Populations <- MCPopulations
  Resolution <- MCResolution
  AbsoluteMin <- MCAbsoluteMin
  AbsoluteMax <- MCAbsoluteMax
  Virtual = 4
  Int32 = 8
  AllocUnit = 1
  MaxMoves = 2
  MaxFailures = 1
INVARIANTS
  MovementOnce
  AbsoluteInRange
PROPERTIES
  NewsRead
