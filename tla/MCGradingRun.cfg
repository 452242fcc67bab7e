CONSTANTS
  j1 = j1
  s1 = s1
  w1 = w1
  w2 = w2
  u1 = u1
  Jobs <- MCJobs
  Slots <- MCSlots
  Sweepers <- MCSweepers
  Requests <- MCRequests
  Callers <- MCCallers
  Artifacts = {"results", "payload"}
  MaxRetries = 1
SPECIFICATION FairRunSpec
INVARIANTS
  RunTypeOK
  GradedWasUploaded
PROPERTIES
  Spec
  EveryJobSettles
CHECK_DEADLOCK FALSE
