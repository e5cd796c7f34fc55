SPECIFICATION Spec
CONSTANTS
  b1 = b1
  b2 = b2
  b3 = b3
  Buffers = {b1, b2, b3}
  Executables <- ThreeExecutables
  Contexts = {x1, x2, x3, x4, x5}
  NoContext = NoContext
  NoPdi = "none"
  Scripts <- BarrieredLists
  CmdChainModes = {TRUE}
  KernelRuns = 1
  ReconfigureRuns = 1
  ChainBytes = 24
  ArgCapacity = 64
  MaxFaults = 0
SYMMETRY ContextSymmetry
INVARIANTS
  RecordedOrder
\* The script ends, and the worker with it.
CHECK_DEADLOCK FALSE
