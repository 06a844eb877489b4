SPECIFICATION Spec
CONSTANTS
  d1 = d1
  d2 = d2
  g1 = g1
  g2 = g2
  Devices = {d1, d2}
  NoDevice = NoDevice
  Ports = {0, 1, 2}
  NoPort = 9
  Groups = {g1, g2}
  NoGroup = NoGroup
  Masks <- MCMasks
  SinglePorts = {2}
  SingleMasks <- MCSingleMasks
  Uses <- OneDevice
  MaxFailures = 1
INVARIANTS
  TypeOK
  GroupIsolated
  PairsKnown
