CONSTANTS
  j1 = j1
  d1 = d1
  r1 = r1
  r2 = r2
  Jobs <- OneJob
  ValidUrls <- OneJob
  Immediates <- MCImmediates
  Retriers <- MCRetriers
  MaxAttempts = 3
SPECIFICATION FairSpec
INVARIANTS
  TypeOK
  LogIsNumbered
  DeliveredByLastAttempt
  DeliveredWasReceived
  AttemptsNearBudget
PROPERTIES
  ContractSpec
  EveryCallbackConcludes
CHECK_DEADLOCK FALSE
