------------------------- MODULE MCFederatedNetwork -------------------------
EXTENDS FederatedNetwork, TLC

Symmetry == Permutations(Orgs)
=============================================================================
