CONSTANTS
  NoTask = NoTask
  Workers = {w1, w2}
  Externals = {main, helper}
  Owner = main
  Task = {t1, t2, t3}
  RingCap = 2
  Batch = 2
SPECIFICATION FairSpec
INVARIANTS
  TypeOK
  TaskInOnePlace
  JoinedMeansDrained
  NoStrandedWork
PROPERTIES
  ImplementsTaskQueue
  AcceptedTasksRun
  ShutdownCompletes
CHECK_DEADLOCK FALSE
