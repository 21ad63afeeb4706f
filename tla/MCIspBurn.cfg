SPECIFICATION FairSpec
CONSTANTS
  d0 = d0
  d1 = d1
  d2 = d2
  id = id
  Blank = Blank
  Garbage = Garbage
  LastBlock = 3
  UidSector = {2, 3}
  UidBlock = 2
  Contents <- MCContents
  Checksum <- MCChecksum
  BinFiles <- MCBinFiles
  UidBlocks = {id}
  MaxFaults = 2
INVARIANTS
  TypeOK
  SuccessIsVerified
  
PROPERTIES
  AbstractBurn
  JobEnds
