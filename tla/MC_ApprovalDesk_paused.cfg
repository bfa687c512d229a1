SPECIFICATION Spec
CONSTANTS
  MaxFrames = 1
  MaxAsks = 1
PROPERTY
  PausedWhilePrompting
CHECK_DEADLOCK FALSE
