----------------------- MODULE MCGuardedProcessPool -----------------------
EXTENDS GuardedProcessPool, TLC
=============================================================================
