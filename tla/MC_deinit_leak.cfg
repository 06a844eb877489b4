SPECIFICATION Spec
CONSTANTS
  MaxChipNum = 1
  Chips = {0}
  Drivers = {0}
  NoDriver = 99
  StaticCompat <- NoStaticDevices
  Faults <- NoFaults
  StateSet = FALSE
  MaxRef = 2
  RefMod = 4
INVARIANTS
  DeinitReleasesDrivers
