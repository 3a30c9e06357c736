SPECIFICATION FairSpec
CONSTANTS
  Parts = {"pools", "allocations", "autoscaler", "engine_ami", "registration", "cleanup", "configuration"}
  Pools = {p1}
  Nodes = {n1, n2}
  Tasks = {t1, t2}
  NoPool = NoPool
  Kinds = {"aws", "depin", "cluster"}
  Faults = {"crash", "destroy", "depin", "enqueue", "cluster"}
  MaxFaults = 1
  Ledger = {l1}
  Spot = {l1}
  Total = 2
  Sizes = {1, 2}
  Priorities = {1, 2}
  MaxAllocs = 3
  Replicas = {r1, r2}
  MaxNodes = 2
  MaxExtra = 1
  Routes = {"reconciler", "direct_adapter"}
  Bakes = {1, 2}
  Workers = {w1, w2}
  Stored = {w1}
  Names = {m1, m2}
  CloudPools = {q1, q2}
  MaxPolls = 1
  MaxLost = 2
  Keys = {"key"}
  Tokens = {}
  Fields = {"aws"}
  Gateways = {g1}
  Calls = {k1, k2}
  Ops = {"add", "update", "delete", "legacy", "form"}
  MaxCalls = 2
  MaxVal = 2
INVARIANT PoolsKept
 
INVARIANT ScalingSound
INVARIANT ImagesSound
INVARIANT EnrolmentSound
 
PROPERTY EvictionsJustified
PROPERTY SavesJustified
PROPERTY ProvisioningSettles
\* Most components come to rest when everything asked of them is done.
CHECK_DEADLOCK FALSE
