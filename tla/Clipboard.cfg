SPECIFICATION Spec
CONSTANTS
  None = None
  Windows = {"game", "browser"}
  Offers <- OffersMC
  MaxLog = 3
  MaxMoves = 2
  MaxPastes = 1
INVARIANTS
  ReadIsOfThisCheck
  PasteIsThePut
CHECK_DEADLOCK FALSE
