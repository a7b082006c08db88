SPECIFICATION ConfigSpec
CONSTANTS
  w1 = w1
  w2 = w2
  Workers = {w1, w2}
  Training = {"a", "b"}
  Public = {"p"}
  Secret = {"k"}
  Values = {"v", "w"}
  Overlap = TRUE
  MaxPatches = 2
  MaxRaises = 0
INVARIANTS AcknowledgedIsStored
CHECK_DEADLOCK FALSE
