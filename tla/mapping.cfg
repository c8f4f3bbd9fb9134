SPECIFICATION FilesSpec
CONSTANTS
  MaxNodes = 4
  MaxChains = 2
  BufferSize = 2
  MaxFrames = 2
  MaxSaves = 2
  MaxFaults = 1
INVARIANTS SavesTrail FirstLoopHolds UnsolvedScansStay ArchivesTellAll
PROPERTIES KeyframesAreKept SavedSessionsAgree
