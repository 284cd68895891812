CONSTANTS
  NFrames = 4
  MaxFrames = 2
  None = None
SPECIFICATION FairSpec
INVARIANTS
  TypeOK
  FramesAccounted
  PipelineInOrder
  NoFrameSleptOver
  LimitIsExact
PROPERTIES
  FramesReachDecoder
  LimitStopsReceiver
CHECK_DEADLOCK FALSE
