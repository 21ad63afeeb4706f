SPECIFICATION Spec
CONSTANT MaxFaults = 8
INVARIANT TypeOK
PROPERTIES
  DoneMeansListening
  MistakeTakesSix
  FoundAgain
