SPECIFICATION Spec
CONSTANTS
  None = None
  Texts <- TextsMC
  After <- AfterMC
  Bundles <- BundlesMC
  Item <- ItemMC
  GameData <- GameDataMC
  Match <- MatchMC
  Typable = {2, 30}
  MaxMoves = 3
INVARIANTS
  MatchesItself
  NothingSilentlyDropped
  PlanIsOfItem
  CrossedOnlyByEscape
CHECK_DEADLOCK FALSE
