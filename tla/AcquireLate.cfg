CONSTANTS
  Cameras = {c1, c2}
  Lights = 2
  MaxFailures = 2
  DrainSettles = FALSE
  MaxSeats = 2
SPECIFICATION Spec
INVARIANT BundleFaithful
CHECK_DEADLOCK FALSE
