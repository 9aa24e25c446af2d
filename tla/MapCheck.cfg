CONSTANTS
  None = None
  Bundles <- TwoBundles
  Maps <- TwoMaps
  NameOrder <- Profiles
  DefaultName = "Default"
  Searches <- TwoSearches
  MaxInputs = 3
  MaxFaults = 1
  MaxRuns = 2
SPECIFICATION MCSpec
INVARIANTS
  SavedOrPending
  RowsAgree
  HoldsLastSaved
PROPERTIES
  AcceptWritesTheList
  RelaunchKeeps
