CONSTANTS
  ring = ring
  map = map
  junk = junk
  None = None
  Clips <- TwoClips
  Items <- OneItem
  Maps <- NoMap
  MaxData = 0
  StatusMarker = FALSE
  WmManages = TRUE
  Controls <- ChecksAndReport
SPECIFICATION FairSpec
INVARIANTS
  ReportIsThere
PROPERTIES
  CheckEnds
  GameGivenBack
