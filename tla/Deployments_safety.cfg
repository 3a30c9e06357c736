SPECIFICATION Spec
CONSTANTS
  Deps = {d1, d2}
  CpuOnly = {}
  Nodes = {n1, n2}
  Tasks = {t1, t2}
  NoDep = NoDep
  NoNode = NoNode
  GpuTotal = 1
  MaxNodes = 2
  MaxAsked = 2
  MaxFaults = 1
  Faults = {"load", "crash"}
SYMMETRY Symmetry
INVARIANT TypeOK
INVARIANT GpuWithinCapacity
INVARIANT RoomHeld
INVARIANT BindingSound
\* With every request served, a pool may rest.
CHECK_DEADLOCK FALSE
