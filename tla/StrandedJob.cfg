CONSTANTS
  j1 = j1
  s1 = s1
  w1 = w1
  w2 = w2
  u1 = u1
  Jobs <- MCJobs
  Slots <- MCSlots
  Sweepers <- TwoSweepers
  Requests <- MCRequests
  Callers <- TwoSweeperCallers
  Artifacts = {"results"}
  MaxRetries = 3
SYMMETRY Symmetry
SPECIFICATION RunSpec
INVARIANT
  AbandonedJobIsSeen
CHECK_DEADLOCK FALSE
