SPECIFICATION FairSpec
CONSTANTS
  SlotCount = 2
  Tags = {t1}
  NoTag = NoTag
  PipelineVerdicts <- MCOneVerdict
  MaxUnits = 3
  MaxCrashes = 1
  MaxRestarts = 1
  AcquisitionCodes <- MCCodes
  FrameFaults <- MCNoDamage
  ResultFaults = FALSE
  ResetOnStart = FALSE
  PosixMemory = FALSE
INVARIANTS FrameSlotsAccounted
PROPERTIES EveryTriggerAnswered
