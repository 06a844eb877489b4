SPECIFICATION Spec
CONSTANTS
  m1 = m1
  m2 = m2
  m3 = m3
  p = p
  A = A
  Macs = {m1, m2, m3}
  NoMac = NoMac
  Ways = 2
  HashNum = 2
  Cols = 1
  Way <- MCWay
  FidOf <- MCFidOf
  Ports = {p}
  Masks = {A}
  GroupNum = 1
  ByNumber = {}
  Free = Free
  Wanted <- StaticWanted
  Clears <- FewClears
  NoSlot = NoSlot
  NoWhere = NoWhere
  MaxFailures = 0
INVARIANTS
  StaticKept
