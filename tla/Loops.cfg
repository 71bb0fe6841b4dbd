CONSTANTS
  b1 = b1
  b2 = b2
  b3 = b3
  FLOOD_FRAME = flood
SPECIFICATION FairSpec
INVARIANTS
  RefsExact
  TmIsolated
  StartsSound
  LaunchSound
  RssTogether
PROPERTIES
  Returned
  TmKeepsProcessing
