SPECIFICATION Spec
CONSTANTS
  Orgs = {o1, o2}
  NoOrg = none
  Hosts = {h1}
  Requests = {r1}
  Nightly = nightly
  Threshold = 3
  LastDay = 1
  MaxSignatures = 1
  MaxAuditFailures = 1
SYMMETRY Symmetry
INVARIANTS
  CountIsBacked
  ThresholdDecides
