SPECIFICATION Spec
CONSTANTS
  SlotCount = 2
  Tags = {t1}
  NoTag = NoTag
  PipelineVerdicts <- MCTwoVerdicts
  MaxUnits = 2
  MaxCrashes = 0
  MaxRestarts = 0
  AcquisitionCodes <- MCCodes
  FrameFaults <- MCNoDamage
  ResultFaults = FALSE
  ResetOnStart = TRUE
  PosixMemory = TRUE
INVARIANTS SpoiledResultReported
