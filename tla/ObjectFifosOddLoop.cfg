\* The odd loop: the objects reach the shim as the design computes them.
SPECIFICATION Spec
CONSTANTS
  Designs <- OddLoop
  Shim = Shim
  LocksPerTile <- MCLocks
  DimConfig <- MCDimConfig
INVARIANT DataInOrder
CHECK_DEADLOCK FALSE
