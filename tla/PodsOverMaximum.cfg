CONSTANTS
  j1 = j1
  j2 = j2
  j3 = j3
  Jobs <- MCJobs
  Limits = {2}
  Default = 2
SPECIFICATION Spec
PROPERTY
  PodsWithinMaximum
CHECK_DEADLOCK FALSE
