SPECIFICATION Spec
CONSTANTS
  SlotCount = 2
  Tags = {t1}
  NoTag = NoTag
  PipelineVerdicts <- MCDoubtfulVerdicts
  MaxUnits = 3
  MaxCrashes = 1
  MaxRestarts = 1
  AcquisitionCodes <- MCCodes
  FrameFaults <- MCNoDamage
  ResultFaults = FALSE
  ResetOnStart = TRUE
  PosixMemory = TRUE
INVARIANTS TypeOK ConservativeAnswer FrameUnderInspection FrameSlotsAccounted ResultSlotsAccounted
PROPERTIES PublishedFramesKept ImplementsSeatInspection
