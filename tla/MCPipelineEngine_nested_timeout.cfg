\* A sub-pipeline step times out; the pipeline's own timeout never fires.
CONSTANTS
  StepCount = 2
  Pipelines <- NestedPipeline
  MaxAttempts = 1
  TimesOut = FALSE
SPECIFICATION Spec
INVARIANT FailedStepIsCompensated
CHECK_DEADLOCK FALSE
