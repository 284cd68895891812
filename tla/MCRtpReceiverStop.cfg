CONSTANTS
  NFrames = 1
  MaxFrames = 0
  None = None
SPECIFICATION FairSpec
PROPERTY
  StopReachesDecoder
CHECK_DEADLOCK FALSE
