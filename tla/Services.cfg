CONSTANTS
  Body <- Economy
  Checked <- AsPrinted
  Ttl = 2
  Keep = 2
  MaxNow = 3
  MaxAsks = 2
  MaxKills = 1
  PushFails = TRUE
  Digests <- Hours
  Leagues <- XLeagues
  Ids <- XIds
  StepBack = 3
  KeepHours = 2
  MaxHour = 5
  MaxLookups = 3
  MaxRestarts = 1
  LosesPush = TRUE
  LeagueTtl = 2
  Cooldown = 1
  MaxTime = 4
  MaxAsked = 3
  MaxStarts = 1
  FullQueue = TRUE
  Urls = {"chaos", "divine"}
  Thread = "idle"
  MaxEnds = 1
  Everything = {"ninja", "exchange", "leagues", "icons"}
SPECIFICATION ServicesSpec
INVARIANTS
  PricedAsItself
  EveryListAsked
  TornIsReplaced
  HourIsPublished
PROPERTIES
  ServicesEnd
CHECK_DEADLOCK FALSE
