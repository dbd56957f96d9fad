SPECIFICATION Spec
CONSTANTS
  Absent = Absent
  Installations <- MCInstallations
  Edits <- MCEdits
  Disturbances <- MCDisturbances
  Losses <- MCLosses
  Observations <- MCObservations
  MaxFaults = 1
INVARIANTS
  TypeOK
  VerdictAcceptable
  JudgedInFull
  OneShot
  LightsInRegister
  SuspicionNotDropped
  RejectedForACause
  CandidatesAccountedFor
  DefectsInRegion
  SoundJobJudged
