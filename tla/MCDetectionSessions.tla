------------------------ MODULE MCDetectionSessions -------------------------
EXTENDS DetectionSessions, TLC

SessionSymmetry == Permutations(Sessions)
=============================================================================
