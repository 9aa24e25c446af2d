CONSTANTS
  ring = ring
  jewel = jewel
  orb = orb
  Standard = Standard
  Hardcore = Hardcore
  None = None
  Items <- RareAndOrb
  Searchable <- OnlyRing
  Leagues <- BothLeagues
  Batch = 2
  Want = 2
  MaxHashes = 3
  MaxGen = 2
  MaxSearches = 2
  MaxData = 1
  AutoSearch = TRUE
  PushFails = TRUE
SPECIFICATION FairSpec
INVARIANTS
  ResultsMatch
  ParsedIsOfRow
PROPERTIES
  KeepsPromise
  SearchEnds
