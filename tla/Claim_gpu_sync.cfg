SPECIFICATION Spec
CONSTANTS
  Deps = {d1, d2}
  CpuOnly = {}
  Nodes = {n1, n2}
  Tasks = {t1, t2}
  NoDep = NoDep
  NoNode = NoNode
  GpuTotal = 2
  MaxNodes = 2
  MaxAsked = 1
  MaxFaults = 1
  Faults = {"load"}
INVARIANT GpuInSync
\* With every request served, a pool may rest.
CHECK_DEADLOCK FALSE
