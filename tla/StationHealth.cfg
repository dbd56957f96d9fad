CONSTANTS
  SlotCount = 1
  Tags = {t1}
  NoTag = zero
  PipelineVerdicts <- MCVerdicts
  WarningSetting = 3
  CriticalSetting = 5
  ManualTrigger = TRUE
  MaxJobs = 6
  MaxTriggerFaults = 2
SPECIFICATION FairSpec
INVARIANTS
  TypeOK
  AlarmFollowsStreak
  AlarmMatchesState
  JobsAccounted
PROPERTIES
  AlarmEases
  FaultRecovers
CHECK_DEADLOCK FALSE
