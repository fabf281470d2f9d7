SPECIFICATION BltSpec
CONSTANTS
  Screens <- MCScreens
  PixelFormat <- MCPixelFormat
  PixelInformation <- MCPixelInformation
  PixelsPerScanLine <- MCPixelsPerScanLine
  Width = 2
  Height = 3
  ColorBits = 2
  BltBufferSize = 6
  FirstBltBuffer <- MCFirstBltBuffer
  Requests <- MCRequests
  TimerRequests <- MCTimerRequests
  MaxCalls = 3
INVARIANTS
  ScreensShowOnePicture
PROPERTIES
  BltAsAsked
CHECK_DEADLOCK FALSE
