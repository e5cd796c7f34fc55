SPECIFICATION Spec
CONSTANTS
  c1 = c1  c2 = c2
  o1 = o1  o2 = o2  o3 = o3
  s1 = s1  s2 = s2
  w1 = w1  w2 = w2
  Clients = {c1, c2}
  Ops = {o1}
  Sems = {s1, s2}
  Waits = {w1, w2}
  WaitOp <- JoinWaitOp
  WaitSem <- JoinWaitSem
  WaitVal <- JoinWaitVal
  SignalList <- JoinSignalList
  HostSems = {s1, s2}
  MaxValue = 2
  Topology = {"assign", "clear"}
  Worker = Worker
  Null = Null
SYMMETRY ClientSymmetry
INVARIANTS
  TypeOK
  WaitCountIsHeld
  NoUseAfterFree
  ArmedIsLinked
  RunsOnlyAfterWaits
  NoLostWakeup
PROPERTIES
  KeepsContract
