\* Three requests, two workers; 0 and 2.5 typed into the number boxes; one edit.
SPECIFICATION FairSpec
CONSTANTS
  AllChannels <- MCChannels
  AllPriorities <- MCPriorities
  CountInputs = {0, 5}
  MaxConcurrency = 4
  Defaults <- MCDefaults
  MaxEdits = 1
  None = None
INVARIANTS
  EachIndexOnce
  ReportAddsUp
  ServerAgrees
  ScenarioKept
PROPERTIES
  RunEnds
