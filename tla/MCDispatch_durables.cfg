\* One worker container with two durable consumers; every kind of fault once.
SPECIFICATION Spec
CONSTANTS
  d1 = d1
  d2 = d2
  p1 = p1
  p2 = p2
  w0 = w0
  w1 = w1
  Deliveries = {d1}
  Unrouted = {}
  Processes = {p1}
  Durables = {w0, w1}
  MaxPublish = 1
  MaxAttempts = 2
  MaxDeliver = 3
  Limit <- OneOfEach
INVARIANTS
  TypeOK
  ClaimExclusive
  EffectivelyOnce
  OutcomeAgrees
  DLQHasAttempt
  
  NotAbandoned
PROPERTY ImplementsLifecycle
CHECK_DEADLOCK FALSE
