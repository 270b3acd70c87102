SPECIFICATION Spec
CONSTANTS
  Hosts = {h1}
  KnownHosts = {}
  HostMarks <- Relay
  Signals <- Samples
  Days = {d1, d2}
  MaxCandidates = 3
  MaxDetections = 4
  MaxReopened = 1
  MaxAuditFailures = 1
  MaxCrashes = 1
INVARIANTS
  OneOpenCase
  NeverCountedTwice
  LinkedUnlessCrash
PROPERTIES
  ReviewsStick
