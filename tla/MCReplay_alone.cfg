\* One replay request at a time, two replays; every kind of fault once.
SPECIFICATION ReplaySpec
CONSTANTS
  d1 = d1
  p1 = p1
  w0 = w0
  o1 = o1
  Deliveries = {d1}
  Unrouted = {}
  Processes = {p1}
  Durables = {w0}
  MaxPublish = 3
  MaxAttempts = 1
  MaxDeliver = 2
  Limit <- OneOfEach
  Callers = {o1}
  MaxReplays = 2
INVARIANTS
  OneReplayIsSafe
  QueuedIsOffered
CHECK_DEADLOCK FALSE
