SPECIFICATION Spec
CONSTANTS
  MaxSlots = 3
  i1 = i1
  i2 = i2
  Iface <- MCIface
  NoIface = NoIface
  Name <- MCName
  NoName = NoName
  Job <- MCJob
  MaxRuns = 2
  MaxFaults = 1
  MaxMoves = 1
SYMMETRY MCSymmetry
INVARIANTS
  SuccessMeansEquipped
  OneManagementInterface
  ManagementIsOwn
  UndisturbedRunSucceeds
PROPERTIES
  ImplementsLifecycle
