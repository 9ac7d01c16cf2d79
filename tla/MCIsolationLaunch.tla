------------------------- MODULE MCIsolationLaunch --------------------------
EXTENDS IsolationLaunch
=============================================================================
