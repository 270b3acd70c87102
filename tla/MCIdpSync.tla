----------------------------- MODULE MCIdpSync ------------------------------
EXTENDS IdpSync
=============================================================================
