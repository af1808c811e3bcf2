\* Two API instances; publisher, store and broker fail once each, the scheduler does not.
SPECIFICATION FairSchedulerSpec
CONSTANTS
  d1 = d1
  d2 = d2
  d3 = d3
  a1 = a1
  a2 = a2
  s1 = s1
  Deliveries = {d1, d3}
  Immediate = {d3}
  Scheduled <- D1
  Publishers = {a1, a2}
  Schedulers = {s1}
  Batch = 2
  DueBatch = 1
  Limit <- PublisherFaults
INVARIANTS
  PublishedIsSent
  
PROPERTIES
  DueIsPublished
  RowsAreRetired
CHECK_DEADLOCK FALSE
