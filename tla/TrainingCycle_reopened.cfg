CONSTANTS
  Models = {m1, m2}
  MaxAttempts = 4
  MaxLosses = 3
  MaxPending = 2
  MaxPendingCandidates = 1
  EffectWindow = 2
  FreezeTotal = 2
SPECIFICATION CycleSpec
INVARIANTS
  ResolvedStaysResolved
