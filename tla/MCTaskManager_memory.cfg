\* In-memory store and event log: two tasks compete for one permit.
CONSTANTS
  Task = {t1, t2}
  Caller = {c1}
  MaxConcurrency = 1
  MaxAttempts = 2
  MaxCancels = 2
  AsyncBackends = FALSE
  SaveFails = FALSE
  Reporting = {t1}
  NoTask = NoTask
SPECIFICATION Spec
INVARIANTS OutcomeAnnouncedOnce
PROPERTIES ImplementsLifecycle RunningCancelTakesEffect ShutdownCompletes
CHECK_DEADLOCK FALSE
