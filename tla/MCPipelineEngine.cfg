\* Every pipeline of MCPipelines, with the pipeline's timeout at any await.
CONSTANTS
  StepCount = 3
  Pipelines <- MCPipelines
  MaxAttempts = 2
  TimesOut = TRUE
SPECIFICATION Spec
INVARIANTS TypeOK OrderIsLeastTopological ContinueLeavesNoStepOut StatusIsHonest RollbackUnwinds
PROPERTY NoStepAfterFailedUpstream
CHECK_DEADLOCK FALSE
