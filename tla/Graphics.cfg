SPECIFICATION Spec
CONSTANTS
  Consoles = {"a", "b", "c", "t"}
  ModesOf <- mcModesOf
  Fallback = "800x600"
  Undefined = "undefined"
  Word = 8
INVARIANTS
  ModesShared
  ScreensAgree
  FrameBufferAlone
