SPECIFICATION Spec
CONSTANTS
  MaxChipNum = 2
  Chips = {0, 1}
  Drivers = {0}
  NoDriver = 99
  StaticCompat <- TwoStaticDevices
  Faults <- AllFaults
  StateSet = TRUE
  MaxRef = 2
  RefMod = 4
INVARIANTS
  TypeOK
  OpsLeakFree
