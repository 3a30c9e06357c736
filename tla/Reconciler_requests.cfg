SPECIFICATION FairSpec
CONSTANTS
  Nodes = {n1, n2}
  Procs = {p1}
  Coros = {c1}
  Threads = {t1}
  NoProc = NoProc
  NoNode = NoNode
  NoWorker = NoWorker
  MaxAttempts = 2
  MaxPending = 1
  MaxAsked = 1
  MaxFaults = 1
  Faults = {"stall"}
INVARIANT FailureReachesDeployment
PROPERTY DeploymentSettles
\* A purged node is the end: nothing is left to do for it.
CHECK_DEADLOCK FALSE
