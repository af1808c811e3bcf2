\* Two interrupted ticks beside one publisher and an immediate delivery.
SPECIFICATION SchedulerSpec
CONSTANTS
  d1 = d1
  d2 = d2
  d3 = d3
  a1 = a1
  a2 = a2
  s1 = s1
  Deliveries = {d1, d2, d3}
  Immediate = {d3}
  Scheduled <- D1D2
  Publishers = {a1}
  Schedulers = {s1}
  Batch = 2
  DueBatch = 2
  Limit <- SchedulerFaults
INVARIANTS
  RetiredHasRow
  OneRowPerDelivery
CHECK_DEADLOCK FALSE
