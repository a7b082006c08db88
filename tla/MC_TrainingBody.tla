-------------------------- MODULE MC_TrainingBody --------------------------
\* TLC instances of TrainingBody, training runs: the constants are in the .cfg files of its runs.
EXTENDS TrainingBody
=============================================================================
