CONSTANTS
  j1 = j1
  c1 = c1
  c2 = c2
  c3 = c3
  Jobs <- MCJobs
  Callers <- MCCallers
  MaxRetries = 1
SYMMETRY Symmetry
SPECIFICATION Spec
INVARIANTS
  TypeOK
  CompletedHasResult
  CountedOnce
  FinishedRowsExpire
PROPERTIES
  OverwritesAreStale
  LedgerSpec
  RecordSpec
CHECK_DEADLOCK FALSE
