SPECIFICATION FairSpec
CONSTANTS
  Nodes = {n1}
  Procs = {p1}
  Coros = {c1, c2}
  Threads = {t1}
  NoProc = NoProc
  NoNode = NoNode
  NoWorker = NoWorker
  MaxAttempts = 2
  MaxPending = 1
  MaxAsked = 1
  MaxFaults = 1
  Faults = {"crash", "stop", "lock", "db", "aws", "rejoin", "stall"}
INVARIANT TypeOK
INVARIANT LeakHasCause
PROPERTY Lifecycle
PROPERTY TeardownCompletes
\* A purged node is the end: nothing is left to do for it.
CHECK_DEADLOCK FALSE
