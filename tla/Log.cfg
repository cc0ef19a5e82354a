CONSTANTS
  Char <- MCChar
  ITOA_CELLS = 6
  OUTBUFFER_SIZE = 14
  WIDTH = 8
  HEIGHT = 9
  FONT_WIDTH = 2
  FONT_HEIGHT = 2
  FramebufferBytes = {0, 64}
  LINE_SIZE = 15
  Modes = {0, 1, 2}
  Messages <- MCMessages
  Banner <- MCBanner
  Lines <- MCLines
  Devices <- MCDevices
  CALLS = 2
SPECIFICATION Spec
INVARIANTS
  LogTypeOK
  PointerKept
  ScreenShowsText
  LineExact
  DescriptionsOwn
  
PROPERTY LogEnds
\* Calls are bounded, and the log may be lost.
CHECK_DEADLOCK FALSE
