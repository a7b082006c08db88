CONSTANTS
  Process = {p1}
  User = {u1}
  MaxRounds = 1
  MaxTotal = 2
  None = None
SPECIFICATION BodySpec
INVARIANTS SerialInProcess
CHECK_DEADLOCK FALSE
