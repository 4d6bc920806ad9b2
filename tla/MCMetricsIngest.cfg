SPECIFICATION Spec
CONSTANTS
  MaxRequests = 3
  Senders <- MCSenders
  Bodies <- MCBodies
  Limited = {1}
  Burst = 2
  EnforceRoles = TRUE
  Nobody = Nobody
  NoError = NoError
  Reasons = {"name", "time"}
  MaxArrival = 1
INVARIANTS
  TypeOK
  
  PublishIsPaid
  ResponseIsExact
CHECK_DEADLOCK FALSE
