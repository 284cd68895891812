CONSTANTS
  Tokens <- Pieces
  Streams <- SinglePacketHeader
  SeqMod = 8
  Base = 5
  LateJoin = TRUE
  Gap = 3
  Lag = 2
  MaxOld = 2
SPECIFICATION Spec
INVARIANTS
  TypeOK
  EmittedIsComplete
  EveryFrameAccounted
PROPERTY
  IntactFramesArrive
CHECK_DEADLOCK FALSE
