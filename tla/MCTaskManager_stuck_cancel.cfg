\* In-memory defaults: a cancel that arrives before the target is invoked.
CONSTANTS
  Task = {t1, t2}
  Caller = {c1}
  MaxConcurrency = 1
  MaxAttempts = 2
  MaxCancels = 1
  AsyncBackends = FALSE
  SaveFails = FALSE
  Reporting = {}
  NoTask = NoTask
SPECIFICATION Spec
INVARIANT AcknowledgedCancelEndsRecord
CHECK_DEADLOCK FALSE
