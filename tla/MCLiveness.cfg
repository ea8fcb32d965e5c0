CONSTANTS
  c1 = c1
  c2 = c2
  c3 = c3
  p1 = p1
  p2 = p2
  p3 = p3
  q1 = q1
  q2 = q2
  b1 = b1
  s1 = s1
  s2 = s2
  Claim = {c1, c2}
  Pod = {p1}
  Request = {q1}
  Bridge = {b1}
  Share = {s1, s2}
  DriverName = "ovsdpdk"
  Allocation <- OneEach
  UIDPrefix <- Own
  ClaimName <- Own
  PodLocalName <- NoAnnotations
  Users <- AllPods
  NoAnnotation = NoAnnotation
  ClaimConfigs <- Unconfigured
  Nil = Nil
  Config = {k1}
  NoConfig = NoConfig
  Absent = Absent
  MTU = {1500}
  NoPort = NoPort
  MaxFaults = 1
  NoClaim = NoClaim
  NoPod = NoPod
  NoDevice = NoDevice
SPECIFICATION FairSpec
PROPERTY UnprepareConverges
PROPERTY PrepareConverges
PROPERTY PreparedWithKeptConfig
