CONSTANTS
  Size = 4
  Patience = 3
  MaxKeys = 9
SPECIFICATION FairSpec
PROPERTIES
  FifoIfStoredOnce
  NoKeystrokeLost
  KeysAreTaken
CHECK_DEADLOCK FALSE
