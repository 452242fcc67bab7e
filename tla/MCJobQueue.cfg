CONSTANTS
  j1 = j1
  j2 = j2
  i1 = i1
  c1 = c1
  a1 = a1
  r1 = r1
  Jobs <- MCJobs
  Images <- MCImages
  Defaults = {1, 2}
  Runtimes = {0, 3}
  MaxRetries = 1
  MaxNow = 3
  Clients <- MCClients
  Admins <- MCAdmins
  Readers <- MCReaders
SYMMETRY Symmetry
SPECIFICATION Spec
INVARIANTS
  TypeOK
  AverageIsMean
  PositionsAgree
PROPERTIES
  NoUnfairOvertaking
  StatusMissesNoJob
CHECK_DEADLOCK FALSE
