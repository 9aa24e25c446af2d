CONSTANTS
  None = None
  Newest = 3
  Flavours = {"WinInstalled", "WinPortable", "AppImage", "LinuxBinary", "Unknown"}
  Patience = 2
  Drain = 3
  DiskFills = FALSE
  RemoveFails = FALSE
SPECIFICATION FairSpec
INVARIANTS
  ProgramIsThere
  NoticeIsTrue
PROPERTIES
  NeverDowngrades
  ComesBack
