SPECIFICATION Spec
CONSTANTS
  GopModes <- mcGopModes
  Resolutions <- mcResolutions
  RequiredSize <- mcRequired
  ModeZero <- mcModeZero
  ModeOne <- mcModeOne
  Predefined <- mcPredefined
  PreferredSizes <- mcPreferred
  Attributes = {"black", "blue"}
  Black = "black"
  Strings <- mcStrings
  Failures <- mcFailures
INVARIANTS
  CursorDrawnOnce
  TextModesFit
PROPERTY
  ImplementsTerminal
CONSTRAINT
  Followed
