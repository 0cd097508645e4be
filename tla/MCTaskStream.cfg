\* One client with up to two lost connections, two neighbours that may push the
\* streamed task out of the log, queues that never overflow.
CONSTANTS
  Client = {c1}
  Task = {t1, t2, t3}
  Observed = t1
  MaxEventsPerTask = 2
  MaxTasks = 2
  MaxBytesTotal = 4
  Size <- SmallEvents
  QueueSize = 3
  AsyncBackends = TRUE
  MaxSequence = 3
  MaxNoise = 1
  MaxDrops = 2
SPECIFICATION Spec
INVARIANTS TypeOK AccountingHonest CeilingsKept HistoryContiguous NoSilentGapWhileRetained FreshStreamInformed
PROPERTIES IdsNeverGoBack StreamEnds
CHECK_DEADLOCK FALSE
