SPECIFICATION LineSpec
CONSTANTS
  Bufs <- TileBufs
  Cols = {1, 2}
  Shapes <- NoPictures
  PoolShapes = {}
  MinStripRows = 2
  Pictures = 1
  Main = main
  Workers = {w1, w2}
  Jobs <- TwoTiles
  PoolJobs <- TwoTiles
  EncWorkers = {e1, e2}
  EncCols = {1}
INVARIANT PoolsNotShared
CHECK_DEADLOCK FALSE
