SPECIFICATION VendorSpec
CONSTANTS
  Vendors = {v1}
  Requests = {r1, r2}
  Findings <- Telemetry
  Mentions <- Scans
SYMMETRY Symmetric
INVARIANTS
  AgreementIsAssessed
  SignalsAddUp
