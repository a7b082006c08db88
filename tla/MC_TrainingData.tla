-------------------------- MODULE MC_TrainingData --------------------------
\* TLC instance of TrainingData: two stocks over three days.
EXTENDS TrainingData

Filed(c, report, publish) == [code |-> c, report |-> report, publish |-> publish]
\* The annual and the first quarterly report of stock 1 come out on the same day
MCReports == {Filed(1, 1, 3), Filed(1, 2, 3), Filed(1, 1, 0)}
=============================================================================
