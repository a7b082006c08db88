CONSTANTS
  Pid = {1, 2}
  MaxCrash = 1
  SerialStart = FALSE
SPECIFICATION Spec
INVARIANTS SingleInstance
