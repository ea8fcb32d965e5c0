CONSTANTS
  b1 = b1
  b2 = b2
  u1 = u1
  u2 = u2
  u3 = u3
  r1 = r1
  r2 = r2
  Bridge = {b1}
  Uplink = {u1, u2, u3}
  Resolvable = {u1, u3}
  Numa <- ZeroZeroOne
  Resource = {r1}
  NoResource = NoResource
  Unborn = Unborn
  Gone = Gone
  Label = {"dpdk", "plain", "spare"}
  Clusters <- OnlyAlone
  Initial <- FirstOnB1
  QueueSize = 2
  MaxChanges = 2
  MaxFaults = 1
  MayStop = FALSE
SPECIFICATION FairSpec
INVARIANT TopologyInvariant
PROPERTY TopologyConverges
