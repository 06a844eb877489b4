SPECIFICATION Spec
CONSTANTS
  Ports = {0, 2, 3, 10}
  Slots = 5
  Factors = {0, 1}
  Faulty = FALSE
INVARIANTS
  TypeOK
  TablesAgree
  OneEgress
  EqualShares
PROPERTIES
  KeepsPartition
