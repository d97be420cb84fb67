-------------------------- MODULE MCTrafficMonitor --------------------------
EXTENDS TrafficMonitor, TLC
=============================================================================
