CONSTANTS
  Cameras = {c1, c2}
  Lights = 3
  MaxFailures = 2
  DrainSettles = TRUE
  MaxSeats = 3
SPECIFICATION FairSpec
INVARIANTS
  TypeOK
  BundleFaithful
  NothingLeftBehind
  FailingCameraIsRestarted
PROPERTIES
  EveryJobEnds
CHECK_DEADLOCK FALSE
