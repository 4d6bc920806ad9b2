SPECIFICATION FairSpec
CONSTANTS
  Publishers = {w1, w2}
  Keys <- MCKeys
  NoId = NoId
  Setups <- MCSetups
INVARIANTS TypeOK PointsFollowDefinition PayloadIsExact OrgsRestored
PROPERTY DefinitionArrives
