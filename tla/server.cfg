SPECIFICATION Spec
CONSTANTS
  Connections = {c1, c2, c3}
  Nil = Nil
  max_connections = 2
  kMaxAcceptErrors = 1
  MaxBacklog = 2
CHECK_DEADLOCK FALSE
INVARIANT WorkersBounded
INVARIANT NothingRunsAfterStop
PROPERTY RejectedOnlyWhenFull
PROPERTY ShutdownCompletes
PROPERTY BacklogDrains
