----------------------------- MODULE MCTcpClient -----------------------------
EXTENDS TcpClient, TLC
=============================================================================
