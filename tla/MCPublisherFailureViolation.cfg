SPECIFICATION Spec
CONSTANTS
  Publishers = {w1}
  Keys <- MCKeys
  NoId = NoId
  Setups <- FailingSetups
INVARIANT PointsFollowDefinition
