SPECIFICATION Spec
CONSTANTS
  m1 = m1
  m2 = m2
  m3 = m3
  p = p
  A = A
  Macs = {m1, m3}
  NoMac = NoMac
  Ways = 1
  HashNum = 1
  Cols = 2
  Way <- MCWay
  FidOf <- MCFidOf
  Ports = {p}
  Masks = {A, Free}
  GroupNum = 2
  ByNumber = {1}
  Free = Free
  Wanted <- TableWanted
  Clears <- AllClears
  NoSlot = NoSlot
  NoWhere = NoWhere
  MaxFailures = 2
INVARIANTS
  TypeOK
  NeverElsewhere
  ClearComplete
PROPERTIES
  DynamicKeepsStatic
