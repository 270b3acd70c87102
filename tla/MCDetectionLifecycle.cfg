SPECIFICATION FairSpec
CONSTANTS
  Signatures = {s1}
  Unknown = unknown
  Weights <- EndpointHeavyWeights
  SignalInputs <- UncoveredHost
  DarkScores <- AtDarkThreshold
  DarkDecay <- ThirtyDayDarkDecay
  DecayFactor <- ThirtyDayDecay
  Window = 2
  One = 10
  MaxAge = 1
  MaxRows = 2
  MaxReports = 1
INVARIANTS TypeOK OnlyNewestActive SuppressedToolIsQuiet InventoryMatchesRegistered StaleBelowThreshold
PROPERTIES ClosedDetectionsFrozen ImplementsRegister ReportsAreSettled DetectableToolIsDetected
