SPECIFICATION FairSpec
CONSTANTS
  Deps = {d1, d2}
  CpuOnly = {}
  Nodes = {n1}
  Tasks = {t1, t2}
  NoDep = NoDep
  NoNode = NoNode
  GpuTotal = 2
  MaxNodes = 1
  MaxAsked = 1
  MaxFaults = 1
  Faults = {"place", "enqueue", "cancel", "load", "drop", "crash"}
PROPERTY DeploymentsSettle
\* With every request served, a pool may rest.
CHECK_DEADLOCK FALSE
