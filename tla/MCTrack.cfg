SPECIFICATION Spec
CONSTANTS
  Train = {t1, t2}
  NoTrain = NoTrain
  Layout <- MCLayout
  FirstLayout = "b"
  Group <- MCGroup
  Distance = {300}
  Switch = {14}
SYMMETRY MCSymmetry
INVARIANTS
  OwnersAgree
  GrantedIsHeld
  PredictedSensorsCount
PROPERTIES
  DryRunChangesNothing
CHECK_DEADLOCK FALSE
