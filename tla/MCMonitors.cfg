\* Half-second ticks; polls every 2 s and 2.5 s; alarm after 2 s; one failed count.
SPECIFICATION Spec
CONSTANTS
  Second = 2
  SummaryEvery = 4
  HealthEvery = 5
  AlertAfter = 2
  MaxBacklog = 2
  MaxGlitches = 1
  NoData = NoData
INVARIANTS
  AlarmIsTrue
  AlarmIsRaised
  BannerInTime
