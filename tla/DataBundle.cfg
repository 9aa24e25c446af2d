CONSTANTS
  first = first
  second = second
  stats = stats
  items = items
  None = None
  Versions <- Two
  Files <- TwoFiles
  Opens <- OnlyFirst
SPECIFICATION FairSpec
INVARIANTS
  CurrentIsWhole
  UpToDateIsTrue
PROPERTIES
  ReadyIsTaken
  NextCheckDelivers
