------------------------- MODULE MC_TrainingCycle -------------------------
\* TLC instances of TrainingCycle: the constants are in the .cfg files of its runs.
EXTENDS TrainingCycle
=============================================================================
