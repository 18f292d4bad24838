SPECIFICATION Spec
CONSTANTS
  Clients = {"a", "b"}
  InitFolders <- OneFolder
  Editors = {"a"}
  MaxEdits = 2
  MaxFaults = 0
  WriteFails = {}
CHECK_DEADLOCK FALSE
INVARIANT OwnEditStays
