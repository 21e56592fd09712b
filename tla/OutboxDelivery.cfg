SPECIFICATION Spec
CONSTANTS
  NumEvents = 2
  Channels <- TwoChannels
  FanOut = {2}
  Workers = {w1, w2}
  Queueless = {w2}
  Runners = {r1}
  MaxAttempts = 2
  MaxCrashes = 1
  MaxErrors = 1
  None = None
CHECK_DEADLOCK FALSE
CONSTRAINT OverlapOnOneEvent
INVARIANTS ProcessedMeansQueued DeliveredWasSent
PROPERTIES ReopenedOnlyByHolder
