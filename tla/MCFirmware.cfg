SPECIFICATION Spec
CONSTANTS
  Heap = 24
  Size <- MCSize
INVARIANTS
  TypeOK
  HandsOver
  FailureKeepsOnlyTheFile
  LossIsKnown
