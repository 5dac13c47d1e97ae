SPECIFICATION SdkSpec
CONSTANTS
  MaxStarts = 2
  MaxLines = 2
  MaxReplaces = 1
  MaxPending = 1
  HasCallback = FALSE
  WritesFail = FALSE
INVARIANTS
  ObjectTracksDaemon
PROPERTIES SdkProgress
CHECK_DEADLOCK FALSE
