\* One delivery, one replay, one outage, three changes of selection or settings.
SPECIFICATION FairSpec
CONSTANTS
  d1 = d1
  u1 = u1
  Deliveries = {d1}
  Unknown = {u1}
  MaxReplays = 1
  MaxOutages = 1
  MaxSwitches = 3
  None = None
  NoData = NoData
INVARIANTS
  
  ReplayShown
PROPERTIES
  StripAdvances
  PaneConverges
CHECK_DEADLOCK FALSE
