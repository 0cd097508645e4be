\* A suspending store whose saves may fail: two tasks, one permit.
CONSTANTS
  Task = {t1, t2}
  Caller = {c1}
  MaxConcurrency = 1
  MaxAttempts = 2
  MaxCancels = 2
  AsyncBackends = TRUE
  SaveFails = TRUE
  Reporting = {t1}
  NoTask = NoTask
SPECIFICATION Spec
INVARIANTS TypeOK PermitsConserved ClosedStoreIsQuiet
PROPERTIES NoDispatchAfterCancel FailedAndCancelledAreFinal EveryTaskEnds
CHECK_DEADLOCK FALSE
