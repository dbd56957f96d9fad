CONSTANTS
  Cameras = {c1, c2}
  Lights = 2
  MaxFailures = 2
  DrainSettles = TRUE
  MaxSeats = 2
SPECIFICATION Spec
PROPERTY ResetAfterRepeatedFailures
CHECK_DEADLOCK FALSE
