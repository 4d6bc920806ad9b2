SPECIFICATION FairSpec
CONSTANTS
  Requests = {r1, r2}
  Inputs <- MCInputs
  Configs <- MCConfigs
  Accounts <- MCAccounts
  InstanceMap <- MCInstanceMap
  AdminKey = 10
  NoKey = 0
  ApiKeyName = 0
  None = None
  MaxTime = 16
  Now = 12
  Day = 3
  TimerangeLimit = 3
INVARIANTS TypeOK  AttemptsAreWhole  CountsAreExact
 
CHECK_DEADLOCK FALSE
