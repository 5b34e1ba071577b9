SPECIFICATION NativeSpec
CONSTANTS
  MaxWork = 3
  MaxItems = 3
  MaxOrphans = 1
  MaxMs = 3
  NsPerMs = 2
  Durations <- MCDurations
  MaxParams = 3
  MaxRows = 3
  Tables = {"go_t", "goxt"}
  Siblings <- MCSiblings
  Cols = {"a", "b"}
INVARIANTS
  NativeTypeOK
  OutcomeAsTold
  LedgerIsLog
  HandlesReleased
  ParamsAsAsked
  OutValuesOwn
  ResultsAreRows
  LookupsExact
