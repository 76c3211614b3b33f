SPECIFICATION Spec
CONSTANTS
  Options <- MCOptions
  Protocols = {"anyconnect", "nc", "f5"}
  FirstOffers <- MCFirstOffers
  LaterOffers <- MCLaterOffers
  MaxTries = 1
  MaxSignals = 2
  MaxLosses = 1
INVARIANTS
  ScriptPaired
  ToldTruth
  PidTruth
  LoopHears
  RoutesNumbered
