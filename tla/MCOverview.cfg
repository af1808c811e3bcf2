\* Up to two deliveries, a window of two rows, one outage, one edit.
SPECIFICATION FairSpec
CONSTANTS
  Window = 2
  MaxDeliveries = 2
  MaxOutages = 1
  MaxEdits = 1
  NoData = NoData
INVARIANTS
  NoDoubleSend
  SentIsShown
  CountedIsListed
PROPERTIES
  OverviewConverges
