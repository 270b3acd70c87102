------------------------ MODULE MCConnectorDelivery -------------------------
EXTENDS ConnectorDelivery
=============================================================================
