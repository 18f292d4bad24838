SPECIFICATION FairSpec
CONSTANTS
  Known <- KnownPaths
  New <- NewPaths
  Folders <- FolderPaths
  Texts <- SmallTexts
  Block = 2
  PathSize = 2
  InitDisks <- SmallDisks
  MaxTexts = 2
INVARIANTS
  TypeOK
  InStep
  UpdateWhole
  FileWhole
  RestsAfter
PROPERTIES
  TurnEnds
CHECK_DEADLOCK FALSE
