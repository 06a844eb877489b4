SPECIFICATION Spec
CONSTANTS
  MaxChipNum = 3
  Chips = {0, 1, 2}
  Drivers = {0, 1}
  NoDriver = 99
  StaticCompat <- TwoStaticDevices
  Faults <- FaultsBeforeRelease
  StateSet = FALSE
  MaxRef = 2
  RefMod = 4
INVARIANTS
  OpsWhileReferenced
  RefCoversHolders
  DevicesServable
PROPERTIES
  OthersUndisturbed
  FailedCreateRollsBack
