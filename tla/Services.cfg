CONSTANTS
  Pid = {1, 2, 3}
  MaxCrash = 2
  SerialStart = TRUE
  Process = {p1}
  User = {u1, u2}
  MaxRounds = 2
  MaxTotal = 4
  None = None
  Msg = {1, 2, 3}
  MaxFaults = 1
  Job = {j1, j2}
  Api = {a1}
  Loop = loop
  MaxTicks = 2
SPECIFICATION ServicesSpec
INVARIANTS SingleInstance RunShown CountersAddUp HandledOnce NoRunSkipped
PROPERTIES ImplementsInstanceLock AutopilotSurvives RunsEnd BridgeAnswers DueJobRuns
CHECK_DEADLOCK FALSE
