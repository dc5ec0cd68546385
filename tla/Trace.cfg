SPECIFICATION Spec
CONSTANTS
  File <- MCFile
  MF = "MF"
  App <- MCApp
  EF <- MCEF
  Profile <- MCProfile
  OnCard <- MCOnCard
  Parent <- MCParent
  Fid <- MCFid
  USIM = "usim"
  Fci = {"isdr"}
  Paths <- MCPaths
  Channel = {0, 1, 2}
  MaxCommands = 4
  MaxFaults = 2
INVARIANTS SelectedFollows ChannelsFollow ShownAsSent
PROPERTIES StopsOnlyUnhandled
CHECK_DEADLOCK FALSE
