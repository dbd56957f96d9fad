SPECIFICATION Spec
CONSTANTS
  SlotCount = 2
  Tags = {t1, t2}
  NoTag = NoTag
  PipelineVerdicts <- MCOneVerdict
  MaxUnits = 3
  MaxCrashes = 0
  MaxRestarts = 0
  AcquisitionCodes <- MCCodes
  FrameFaults <- MCDamage
  ResultFaults = TRUE
  ResetOnStart = TRUE
  PosixMemory = TRUE
SYMMETRY MCTagSymmetry
INVARIANTS ConservativeAnswer ResultRoom
