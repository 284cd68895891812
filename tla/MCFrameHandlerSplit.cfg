CONSTANTS
  Tokens <- Pieces
  Streams <- SplitHeader
  SeqMod = 8
  Base = 5
  LateJoin = FALSE
  Gap = 0
  Lag = 0
  MaxOld = 0
SPECIFICATION Spec
INVARIANT
  EmittedIsComplete
CHECK_DEADLOCK FALSE
