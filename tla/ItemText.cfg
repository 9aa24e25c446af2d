SPECIFICATION ReadSpec
CONSTANTS
  Absent = Absent
  Texts <- AllTexts
  Bundles <- TwoBundles
INVARIANTS
  ReadsAsPrinted
  NamesTheItem
PROPERTIES
  AffixesKept
CHECK_DEADLOCK FALSE
