--------------------------- MODULE MCProvisioning ----------------------------
(***************************************************************************)
(* The components that make, count and take away nodes, checked together:  *)
(* node pools, the allocation ledger, the autoscaler, engine images, the   *)
(* registration of workers, and the credentials of the providers: the      *)
(* configuration that holds them and what deleting one takes along.  They  *)
(* share no state that their modules model, so a behaviour of the sum is a *)
(* behaviour of one of them; `part` says of which.  Registration and the   *)
(* credentials, their properties and the proofs are in ProvisioningProofs. *)
(***************************************************************************)
EXTENDS ProvisioningProofs, FiniteSets

CONSTANTS
  Parts,                                         \* the components to check
  Pools, Nodes, Tasks, NoPool, Kinds, Faults,    \* Pools
  MaxFaults,                                     \* Pools, Autoscaler, EngineAmi
  Ledger, Spot, Total, Sizes, Priorities, MaxAllocs,  \* Allocations
  Replicas, MaxNodes, MaxExtra, Routes,          \* Autoscaler
  Bakes                                          \* EngineAmi

VARIABLE part   \* the component that runs

\* Node pools (Pools)
VARIABLES
  poolPool, poolNode, ext, task, asked, raced, lost, poolFaults
Pool == INSTANCE Pools WITH
  pool <- poolPool, node <- poolNode, faults <- poolFaults
poolVars ==
  <<poolPool, poolNode, ext, task, asked, raced, lost, poolFaults>>

\* The allocation ledger of the nodes (Allocations)
VARIABLES
  state, used, rows, made, drifted
Alloc == INSTANCE Allocations WITH
  Nodes <- Ledger
allocVars ==
  <<state, used, rows, made, drifted>>

\* The autoscaler (Autoscaler)
VARIABLES
  scaleAt, cur, route, replica, scaleNode, started, extra, cool, poolCool,
  scaleFaults, scaleExcused
Scale == INSTANCE Autoscaler WITH
  at <- scaleAt, node <- scaleNode, faults <- scaleFaults,
  excused <- scaleExcused
scaleVars ==
  <<scaleAt, cur, route, replica, scaleNode, started, extra, cool, poolCool,
  scaleFaults, scaleExcused>>

\* Baking and using engine images (EngineAmi)
VARIABLES
  step, known, builder, old, pulled, image, created, record, inUse, cached,
  launch, amiFaults, amiExcused
Ami == INSTANCE EngineAmi WITH
  faults <- amiFaults, excused <- amiExcused
amiVars ==
  <<step, known, builder, old, pulled, image, created, record, inUse, cached,
  launch, amiFaults, amiExcused>>

\* Workers enrolling in a pool (Registration)
regVars ==
  <<regPool, ask, given, name, token, regRow, regAt, admitted, spoiled,
  regFaults>>

\* Deleting a cloud credential (CredentialCleanup)
cleanVars ==
  <<cred, cleanPool, deps, cleanAt, todo, now, polls, cause, cleanFaults>>

\* Provider configuration (Configuration)
confVars ==
  <<confRow, db, mem, poll, form, call, confExcused, begun, next>>

\* The parts that do not run rest in their initial states.
Rest(p) ==
  /\ UNCHANGED part
  /\ IF p = "pools" THEN TRUE ELSE UNCHANGED poolVars
  /\ IF p = "allocations" THEN TRUE ELSE UNCHANGED allocVars
  /\ IF p = "autoscaler" THEN TRUE ELSE UNCHANGED scaleVars
  /\ IF p = "engine_ami" THEN TRUE ELSE UNCHANGED amiVars
  /\ IF p = "registration" THEN TRUE ELSE UNCHANGED regVars
  /\ IF p = "cleanup" THEN TRUE ELSE UNCHANGED cleanVars
  /\ IF p = "configuration" THEN TRUE ELSE UNCHANGED confVars

vars == <<part, poolVars, allocVars, scaleVars, amiVars, regVars, cleanVars,
          confVars>>

\* One initial state is enough for a part that does not run.
Resting ==
  /\ part # "autoscaler" => route = "reconciler"
  /\ part # "engine_ami" => inUse
  /\ part # "registration" => name \in [Workers -> {CHOOSE n \in Names : TRUE}] /\ regRow \in [Names -> {"none"}]
  /\ part # "cleanup" => cleanPool \in [CloudPools -> {"none"}] /\ now = CHOOSE p \in CloudPools : TRUE
  /\ part # "configuration" => ~confRow

Init ==
  /\ part \in Parts
  /\ Pool!Init
  /\ Alloc!Init
  /\ Scale!Init
  /\ Ami!Init
  /\ Reg!Init
  /\ Clean!Init
  /\ Conf!Init
  /\ Resting

Next ==
  \/ part = "pools" /\ Pool!Next /\ Rest("pools")
  \/ part = "allocations" /\ Alloc!Next /\ Rest("allocations")
  \/ part = "autoscaler" /\ Scale!Next /\ Rest("autoscaler")
  \/ part = "engine_ami" /\ Ami!Next /\ Rest("engine_ami")
  \/ part = "registration" /\ Reg!Next /\ Rest("registration")
  \/ part = "cleanup" /\ Clean!Next /\ Rest("cleanup")
  \/ part = "configuration" /\ Conf!Next /\ Rest("configuration")

Spec == Init /\ [][Next]_vars

\* The fairness of each component, for the part that runs.
Fairness ==
  /\ \A t \in Tasks : WF_poolVars(part = "pools" /\ Pool!Step(t))
  /\ \A n \in Nodes : WF_poolVars(part = "pools" /\ \E t \in Tasks : Pool!Destroy(t, n))
  /\ \A n \in Nodes : WF_poolVars(part = "pools" /\ Pool!ReapNode(n))
  /\ \A p \in Pools : WF_poolVars(part = "pools" /\ \E t \in Tasks : Pool!ReapFind(t, p))
  /\ WF_scaleVars(part = "autoscaler" /\ Scale!Tick)
  /\ WF_scaleVars(part = "autoscaler" /\ Scale!Provisioning)
  /\ \A b \in Bakes : WF_amiVars(part = "engine_ami" /\ Ami!Thread(b))
  /\ \A b \in Bakes : WF_amiVars(part = "engine_ami" /\ Ami!Aws(b))
  /\ WF_amiVars(part = "engine_ami" /\ Ami!ReapStaleBuilders)
  /\ \A w \in Workers : WF_regVars(part = "registration" /\ Reg!Step(w))
  /\ WF_cleanVars(part = "cleanup" /\ Clean!Cleanup)
  /\ \A k \in Calls : WF_confVars(part = "configuration" /\ Conf!Handler(k))
  /\ \A g \in Gateways : WF_confVars(part = "configuration" /\ Conf!LoadConfig(g))
  /\ \A g \in Gateways : SF_confVars(part = "configuration" /\ Conf!PollOnce(g))

FairSpec == Spec /\ Fairness

-----------------------------------------------------------------------------
\* Node pools: an instance outlives its row, and a pool goes away unasked,
\* only for a known reason; no node or job row outlives its pool; and a
\* recorded cluster is gone before its pool reads terminated.
PoolsKept ==
  /\ Pool!TypeOK
  /\ Pool!OrphanHasCause
  /\ Pool!PoolLossHasCause
  /\ Pool!NoStrayRows
  /\ Pool!ClusterReleased


\* The autoscaler: a pool grows past max_nodes only while an earlier node is
\* not ready, and a placeholder nothing will turn into a node has a fault or
\* a pool without a spec behind it.
ScalingSound ==
  /\ Scale!TypeOK
  /\ Scale!OvershootHasCause
  /\ Scale!PlaceholderHasCause

\* Engine images: a node is launched from the stock image or a complete one,
\* a bake that reports success left an image preflight can find, and an image
\* nobody finds has a failed call or a restart behind it.
ImagesSound ==
  /\ Ami!TypeOK
  /\ Ami!LaunchIsSound
  /\ Ami!SuccessIsAvailable
  /\ Ami!LostImageHasCause

\* Evictions are for a higher priority on a spot node, and no more than
\* needed.
EvictionsJustified == [][Alloc!EvictionJustified]_vars

\* A deleted AWS pool goes away unless one of its rows is held; a waiting
\* replica gets its node or fails unless a fault lost the work; every builder
\* is terminated by its bake or by the reaper; a worker no fault has hit and
\* whose name is free is enrolled, and one with a signed token is enrolled in
\* the end; the deletion of a credential ends; and every gateway's copy of
\* the configuration ends up agreeing with the row.
ProvisioningSettles ==
  /\ part = "pools" => Pool!DeleteCompletes
  /\ part = "autoscaler" => Scale!ReplicaSettles
  /\ part = "engine_ami" => Ami!BuilderReclaimed
  /\ part = "registration" => Reg!WorkerEnrols
  /\ part = "registration" => Reg!RetryEnrols
  /\ part = "cleanup" => Clean!DeletionEnds
  /\ part = "configuration" => Conf!CopiesConverge
=============================================================================
