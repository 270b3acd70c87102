----------------------- MODULE MCVendorContamination ------------------------
EXTENDS VendorContamination, TLC

Telemetry == {[tools |-> 0, high |-> FALSE], [tools |-> 3, high |-> TRUE]}

\* A scan that finds many; a request without a scan has the neutral score.
Scans == {4}

Symmetric == Permutations(Requests)
=============================================================================
