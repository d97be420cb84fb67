--------------------- MODULE MCDefaultNetworkListener ---------------------
EXTENDS DefaultNetworkListener, TLC
=============================================================================
