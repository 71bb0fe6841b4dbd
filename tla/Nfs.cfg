CONSTANTS
  Indexes = {0, 1}
  Hosts = {h1}
  Peers = {p1, p2}
  Prots = {tcp, udp}
  Lan = {lan, lan2}
  wan_device = wan
  expiration_time = 1
  MaxTime = 3
  h1 = h1
  h2 = h2
  m1 = m1
  m2 = m2
  m3 = m3
  f1 = f1
  f2 = f2
  ip1 = ip1
  ip2 = ip2
  ip3 = ip3
  lan = lan
SPECIFICATION NfsSpec
INVARIANTS
  Coherent
  NatRoundTrip
  BridgeKnowsTheHeard
  ChtSpreads
PROPERTIES
  OnlyLiveFlowsEnter
  NatPortKept
  LbSticky
  LbServedByLive
  EverySpecPy
  PoliFwBothHold
SYMMETRY Symmetry
