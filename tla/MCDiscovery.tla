----------------------------- MODULE MCDiscovery -----------------------------
EXTENDS Discovery
=============================================================================
