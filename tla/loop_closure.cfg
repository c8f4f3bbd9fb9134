SPECIFICATION FilesSpec
CONSTANTS
  MaxNodes = 5
  MaxChains = 1
  BufferSize = 2
  MaxFrames = 1
  MaxSaves = 1
  MaxFaults = 0
INVARIANT LoopsStayBound
