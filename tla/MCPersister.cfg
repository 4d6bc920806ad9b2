SPECIFICATION Spec
CONSTANTS
  Large = large
  NumRows = 2
  Payloads = {small}
  Bad = {bad}
  None = None
  Unknown = Unknown
  Gohai <- Gohais
  MaxBuffer = 2
  Handlers = {h1, h2}
  Faults = {"store", "retrieve", "push"}
INVARIANTS TypeOK AnswersAreDurable
PROPERTY MapStaysInStep
SYMMETRY Symmetry
