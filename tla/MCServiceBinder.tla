--------------------------- MODULE MCServiceBinder ---------------------------
EXTENDS ServiceBinder, TLC
=============================================================================
