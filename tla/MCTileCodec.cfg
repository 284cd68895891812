SPECIFICATION CodecSpec
CONSTANTS
  Bufs <- TileBufs
  Cols = {1, 2}
  Shapes <- Tiles
  PoolShapes <- PoolTiles
  MinStripRows = 2
  Pictures = 2
  Main = main
  Workers = {w1, w2}
  Jobs <- LineJobs
  PoolJobs <- TilesForPool
  EncWorkers = {e1, e2}
  EncCols = {1}
  DecodeTiles <- ReadTiles
  EncodeTiles <- PlainTiles
  HeaderStreams <- Streams
  ByteBits = 4
INVARIANTS
  TypeOK
  ReadsSettled
  BlocksReadFinishedRows
  EveryBlockCodedOnce
  RowsComeOut
  PacketsInOrder
  HeadersAgree
PROPERTIES
  BufSpec
  ImplementsLineSource
  EncodeEnds
\* Both sides end: the last picture is delivered, the last tile encoded.
CHECK_DEADLOCK FALSE
