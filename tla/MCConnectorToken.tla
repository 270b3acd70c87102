-------------------------- MODULE MCConnectorToken --------------------------
EXTENDS ConnectorToken, TLC

=============================================================================
