SPECIFICATION FairSpec
CONSTANTS
  Tools = {t1}
  Hosts = {h1}
  NoTool = none
  Requests = {r1}
  Nightly = nightly
  Evidence <- Texts
  MaxTexts = 2
  Bands <- High
  Seeds <- SeedProfiles
  LastVersion = 2
  MaxFaults = 1
INVARIANTS
  ObligationsAreMatched
  SummaryAgrees
PROPERTIES
  CurrentInTheEnd
