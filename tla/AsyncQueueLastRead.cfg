SPECIFICATION Spec
CONSTANTS
  c1 = c1  c2 = c2
  o1 = o1  o2 = o2  o3 = o3
  s1 = s1  s2 = s2
  w1 = w1  w2 = w2
  Clients = {c1, c2}
  Ops = {o1}
  Sems = {s1, s2}
  Waits = {w1}
  WaitOp <- OneWaitOp
  WaitSem <- OneWaitSem
  WaitVal <- OneWaitVal
  SignalList <- OneSignalList
  HostSems = {s1}
  MaxValue = 1
  Topology = {}
  Worker = Worker
  Null = Null
SYMMETRY ClientSymmetry
INVARIANTS
  WaitListUsedWhileLive
