SPECIFICATION Spec
CONSTANTS
  Sizes <- MCWholeLines
  Buffers <- MCBuffers
INVARIANT LinesCarryData
