CONSTANTS
  Providers = {okta}
  Requests = {r1}
  Job = job
  Window = 1
  DayLength = 2
  PageLimit = 2
  MaxTime = 4
  MaxConnections = 1
  MaxAuditFailures = 1
SPECIFICATION Spec
INVARIANTS
  CompletedIsStored
  NoHole
  StatusAgreesWithConsent
