SPECIFICATION Spec
CONSTANTS
  Ports = {a, b}
  NoPort = NoPort
  QueueNum = 2
  Masks = {{0, 1}, {1}}
  Maps <- MCMaps
  PointerNum = 3
  FwXon <- MCFwXon
  Floor = 5
  NoLimit = NoLimit
  PortCells = 2
  Budget = 3
  Tries = 2
  MaxFailures = 1
INVARIANTS
  TypeOK
  LimitsKept
  OutOfService
  BudgetKept
PROPERTIES
  ChangedEmpty
SYMMETRY MCPorts
