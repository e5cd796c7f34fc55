SPECIFICATION Spec
CONSTANTS
  in1 = in1
  in2 = in2
  out1 = out1
  out2 = out2
  Conns = {in1, in2, out1, out2}
  Tiles = {0, 1}
  NumBdIds = 4
  MaxQueueSize = 2
  ArraySlack = 2
  Programs <- ControlCodes
INVARIANTS
  TransfersInOrder
  EndWaitsForAll
  QueueWithinLimit
  PacketOrder
  BarrierSeparates
PROPERTIES
  Completes
