SPECIFICATION Spec
CONSTANTS
  Sizes <- MCSizes
  Buffers <- MCBuffers
INVARIANTS
  TypeOK
  LinesCarryData
  ReadBackIsData
  FirstBlockIsValid
  ChecksumFound
