SPECIFICATION FairSpec
CONSTANTS
  Clients = {"a", "b"}
  InitFolders <- AFolderEach
  Editors = {"a", "b"}
  MaxEdits = 2
  MaxFaults = 1
  WriteFails = {"signal", "error"}
PROPERTIES
  EditsKept
  Settles
CHECK_DEADLOCK FALSE
