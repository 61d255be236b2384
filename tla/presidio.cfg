\* All actions and thresholds over two entity types.
CONSTANTS
  EntityTypes <- MCEntityTypes
  Scores = {1, 2}
  Text = {"t1", "t2"}
  Bodies <- MCBodies
  ActionMaps <- MCAloneMaps
  ThresholdMaps <- MCThresholdMaps
  Unparsable = Unparsable
  NaN = NaN
  NoText = NoText
SPECIFICATION Spec
\* The inspection ends with its verdict.
CHECK_DEADLOCK FALSE
INVARIANTS
  PassedIsClean
PROPERTIES
  ImplementsPolicy
