CONSTANTS
  IndexRange = 3
  MaxTime = 3
  k1 = k1
  k2 = k2
  k3 = k3
  a1 = a1
  a2 = a2
SYMMETRY Twins
SPECIFICATION LibvigSpec
INVARIANTS
  OneListEach
  TableCoherent
  DmapTwoWays
  LpmLongestPrefix
  StandInsCover
PROPERTIES
  AllocatorSpec
  TableExpiringMap
  PacketBytes
