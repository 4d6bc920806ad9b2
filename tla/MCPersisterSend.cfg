SPECIFICATION FairSpec
CONSTANTS
  Large = large
  NumRows = 2
  Payloads = {small, large}
  Bad = {}
  None = None
  Unknown = Unknown
  Gohai <- Gohais
  MaxBuffer = 2
  Handlers = {h1}
  Faults = {"store"}
INVARIANTS SendIsComplete RestartRestores
PROPERTIES RepeatedlySent RequestsAnswered
