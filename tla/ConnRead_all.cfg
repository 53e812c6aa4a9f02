\* Polite and rude clients; messages read, dropped or abandoned; everything fails.
SPECIFICATION Spec
CONSTANTS
  Frames <- AllFrames
  MaxMessageSize = 3
  ReaderMaxFragments = 2
  MaxControl = 2
  Settings <- Connections
  MaxFrames = 6
INVARIANT TypeOK
INVARIANT InSyncButJSON
INVARIANT ReaderFollowsStream
INVARIANT OnlyIllegalIsRefused
INVARIANT OnlyExcessIsRefused
CHECK_DEADLOCK FALSE
