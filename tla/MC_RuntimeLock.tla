--------------------------- MODULE MC_RuntimeLock ---------------------------
\* TLC instances of RuntimeLock, the single-instance lock: the constants are in the .cfg files of its runs.
EXTENDS RuntimeLock
=============================================================================
