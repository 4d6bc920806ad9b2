SPECIFICATION FairSpec
CONSTANTS
  Large = large
  NumRows = 2
  Payloads = {large}
  Bad = {}
  None = None
  Unknown = Unknown
  Gohai <- Gohais
  MaxBuffer = 2
  Handlers = {h1}
  Faults = {"push"}
PROPERTY RepeatedlySent
