CONSTANTS
  b1 = b1
  b2 = b2
  u1 = u1
  u2 = u2
  u3 = u3
  r1 = r1
  r2 = r2
  Bridge = {b1}
  Uplink = {u1, u3}
  Resolvable = {u1, u3}
  Numa <- ZeroOneNone
  Resource = {r1, r2}
  NoResource = NoResource
  Unborn = Unborn
  Gone = Gone
  Label = {"dpdk", "plain", "spare"}
  Clusters <- OneBridge
  Initial <- FirstOnB1
  QueueSize = 2
  MaxChanges = 2
  MaxFaults = 1
  MayStop = TRUE
SPECIFICATION Spec
INVARIANT SliceIsCurrent
INVARIANT NoTopologyConflict
INVARIANT TopologyIsTrue
INVARIANT StoppedForGood
CHECK_DEADLOCK FALSE
