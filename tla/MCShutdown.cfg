CONSTANTS
  c1 = c1
  c2 = c2
  p1 = p1
  q1 = q1
  b1 = b1
  s1 = s1
  Claim = {c1, c2}
  Pod = {p1}
  Request = {q1}
  Bridge = {b1}
  Share = {s1}
  DriverName = "ovsdpdk"
  Allocation <- Results
  UIDPrefix <- Own
  ClaimName <- Own
  PodLocalName <- NoAnnotations
  Users <- OnePod
  NoAnnotation = NoAnnotation
  ClaimConfigs <- BadVlan
  Nil = Nil
  Config = {k1}
  NoConfig = NoConfig
  Absent = Absent
  MTU = {1500}
  NoPort = NoPort
  MaxFaults = 1
  MaxAccepted = 2
  NoClaim = NoClaim
  NoPod = NoPod
  NoDevice = NoDevice
SPECIFICATION FairStopSpec
INVARIANT PreparedIsBacked
INVARIANT ConfigInv
INVARIANT PortsAreAsRequested
INVARIANT LeaksAreExplained
PROPERTY StopIsClean
PROPERTY WorkAdvances
PROPERTY StopEnds
