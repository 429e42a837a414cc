------------------------- MODULE MCWatchRefresh -------------------------
EXTENDS WatchRefresh, TLC

CONSTANTS u1, u2, p1
=============================================================================
