SPECIFICATION Spec
CONSTANTS
  MAX_BUSES = 2
  MAX_SLOTS = 2
  MAX_FUNCS = 2
  DirEntries = 5
  TableEntries = 6
  IoEntry = 4
  starter_pt <- StarterPage
  io_pt <- IoPage
  Pool <- PoolPages
  Leftovers <- Memory
  Ports = {0, 1, 2}
  PortsPerPage = 2
  Machines <- AllMachines
  FirmwarePorts <- PortStates
INVARIANTS
  WalkComplete
  MapIsExact
  FindsFirstDisk
  InterruptsHaveHandler
  DmaInState
PROPERTIES
  PortRulesKept
  
CHECK_DEADLOCK FALSE
