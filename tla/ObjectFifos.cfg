\* The data path of compiled designs, in every interleaving of its engines.
SPECIFICATION FairSpec
CONSTANTS
  Designs <- MCDesigns
  Shim = Shim
  LocksPerTile <- MCLocks
  DimConfig <- MCDimConfig
INVARIANTS
  DataInOrder
  BufferExclusive
  ReadsOldest
PROPERTIES
  CompilesInStep
  ActsAsQueue
  AllDelivered
CHECK_DEADLOCK FALSE
