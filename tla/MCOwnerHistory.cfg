SPECIFICATION HistorySpec
CONSTANTS
  Actors = {a1, a2}
  Nobody = Nobody
  Providers = {p1}
  Reports = {a1, a2, Nobody}
  Requests = {r1}
  Nightly = nightly
  Lookback = 2
  MaxDetections = 1
  MaxEscalations = 1
SYMMETRY Symmetric
INVARIANTS
  OwnersWereMeasured
