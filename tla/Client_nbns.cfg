SPECIFICATION Spec
CONSTANTS
  Options <- MCOptions
  Protocols = {"anyconnect"}
  FirstOffers <- MCFirstOffers
  LaterOffers <- MCLaterOffers
  MaxTries = 0
  MaxSignals = 0
  MaxLosses = 0
INVARIANTS
  NbnsFiltered
CHECK_DEADLOCK FALSE
