CONSTANTS
  ring = ring
  map = map
  junk = junk
  None = None
  Clips <- MapAndJunk
  Items <- OneMap
  Maps <- OneMap
  MaxData = 1
  StatusMarker = TRUE
  WmManages = TRUE
  Controls <- AllButReport
SPECIFICATION Spec
INVARIANTS
  HandoverOwned
  NoStalePanel
  PlanIsPinned
PROPERTIES
  KeyboardReturned
