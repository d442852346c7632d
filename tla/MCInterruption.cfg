SPECIFICATION Spec
CONSTANTS
  MaxCalls = 2
  Fixtures = {"short", "long"}
  Given <- MCGiven
  CheckpointStep <- MCCheckpointStep
  RequestedSteps <- MCRequestedSteps
INVARIANTS
  RecoveryExact
  NothingRunsOn
VIEW MCView
PROPERTIES
  CallEnds
CHECK_DEADLOCK FALSE
