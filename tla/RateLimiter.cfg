CONSTANTS
  searches = searches
  None = None
  Workers <- OneWorker
  Seeded <- TwoLimits
  Published <- ThreeLimits
  Longest = 4
  Lockout = 4
  Margin = 0
  MaxWait = 3
  Others = TRUE
  MaxLog = 4
SPECIFICATION Spec
PROPERTIES
  HonoursRestriction
  NeverOurDoing
