SPECIFICATION Spec
CONSTANTS
  Absent = Absent
  Installations <- MCFixedOnly
  Edits <- MCEdits
  Disturbances <- MCDisturbances
  Losses <- MCLosses
  Observations <- MCObservations
  MaxFaults = 0
INVARIANTS SafetyNetNotAbsorbed
