SPECIFICATION Spec
CONSTANTS
  Nodes = {n1}
  Procs = {p1}
  Coros = {c1, c2}
  Threads = {t1, t2}
  NoProc = NoProc
  NoNode = NoNode
  NoWorker = NoWorker
  MaxAttempts = 2
  MaxPending = 1
  MaxAsked = 1
  MaxFaults = 0
  Faults = {}
INVARIANT LostLeaseCancels
\* A purged node is the end: nothing is left to do for it.
CHECK_DEADLOCK FALSE
