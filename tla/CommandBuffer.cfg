SPECIFICATION Spec
CONSTANTS
  b1 = b1
  b2 = b2
  b3 = b3
  Buffers = {b1, b2, b3}
  Executables <- ThreeExecutables
  Contexts = {x1, x2, x3, x4}
  NoContext = NoContext
  NoPdi = "none"
  Scripts <- ManyLists
  CmdChainModes = {TRUE, FALSE}
  KernelRuns = 2
  ReconfigureRuns = 2
  ChainBytes = 24
  ArgCapacity = 14
  MaxFaults = 1
INVARIANTS
  TypeOK
  ChainedOrder
  HostSeesResults
  RunsOnItsImage
  OnlyRealErrors
PROPERTY
  AllOperationsEnd
\* The script ends, and the worker with it.
CHECK_DEADLOCK FALSE
