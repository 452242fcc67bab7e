CONSTANTS
  j1 = j1
  u1 = u1
  s1 = s1
  p1 = p1
  r1 = r1
  Jobs <- MCJobs
  Parts = 2
  MaxRetries = 1
  Requests <- MCRequests
  Slots <- MCSlots
  Processes <- MCProcesses
  Readers <- MCReaders
SPECIFICATION FairSpec
INVARIANTS
  TypeOK
  SubmissionIsWhole
  RecordedPayloadIsThere
PROPERTIES
  DeletedPayloadIsGone
  RecordSpec
  EveryDirectoryGoes
CHECK_DEADLOCK FALSE
