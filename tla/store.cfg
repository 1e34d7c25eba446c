SPECIFICATION Spec
CONSTANTS
  Nil = Nil
  MaxIntents = 4
  max_records = 6
  compact_threshold_records = 4
  WriteFailures = {"Nothing", "Partial", "Gap", "Whole"}
  MaxShutdowns = 1
CHECK_DEADLOCK FALSE
INVARIANT AcknowledgedSurvives
INVARIANT AppliedIsLogged
INVARIANT RefusedOnlyBuriedOrFull
PROPERTY ImplementsDurableLog
