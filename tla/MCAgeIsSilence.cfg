SPECIFICATION Spec
CONSTANTS
  Signatures = {s1}
  Unknown = unknown
  Weights <- EndpointHeavyWeights
  SignalInputs <- CoveredHost
  DarkScores <- AtDarkThreshold
  DarkDecay <- TwentyDayDarkDecay
  DecayFactor <- LlmDecay
  Window = 2
  One = 100
  MaxAge = 2
  MaxRows = 2
  MaxReports = 0
INVARIANT AgeIsSilence
