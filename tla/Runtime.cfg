SPECIFICATION MCSpec
CONSTANTS
  Apps = {"usim", "isd"}
  AppsWithoutFs = {"isd"}
  Profile <- MCProfile
  Card <- MCCard
  Channels = {0, 1, 2}
  Names <- MCNames
  NamePaths <- MCNamePaths
  Refusable <- MCRefusable
  CreateIn <- MCCreateIn
  NewFid = "new"
  MaxProbed = 2
  None = None
  Size = 3
  RecordLength = 2
  Records = 1
  max_cmd_len = 2
  Byte = {0, 1}
  ff = 1
  Lettered = {1}
  Data <- MCData
  Offsets = {0, 1, 4}
  Lengths = {1, 3}
  MaxFaults = 1
CONSTRAINTS
  OnCourse
  Few
INVARIANTS
  SelectedOnCard
  NotTrapped
  ReadIsContent
  UpdateKept
  WritesOnlyWhatDiffers
PROPERTIES
  FailedGoesBack
CHECK_DEADLOCK FALSE
