CONSTANTS
  Emitter = {e1, e2}
  Client = {c1, c2}
  BufferLimit = 2
  HistoryLimit = 2
  MaxEvents = 5
  Nobody = Nobody
  Stream = {s1}
  Text = {t1, t2}
  QueueLimit = 2
  MaxPackets = 5
  Unset = Unset
SPECIFICATION StreamsSpec
INVARIANTS EventsKeepOrder StoryIsTold
PROPERTIES CatchesUp SubscriptionEnds
CHECK_DEADLOCK FALSE
