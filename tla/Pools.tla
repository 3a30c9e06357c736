------------------------------- MODULE Pools --------------------------------
(***************************************************************************)
(* The life of a compute pool: create, stop, the two delete requests, the  *)
(* finalizer that runs behind the purge of a node, and the reaper's passes *)
(* over stuck nodes and pools.  Each of these is a coroutine of the control*)
(* plane that commits several times, so each is a task with a step.        *)
(*                                                                         *)
(* Simplifications: the destroy of one node (ReconcilerLoop)               *)
(* is a single step that succeeds or fails, and a placeholder and its job  *)
(* commit together or without the job; the rows of a pool's deployments    *)
(* follow those of the pool.  A pool that is gone never comes back: a pool *)
(* of the same name has another id.                                        *)
(***************************************************************************)
EXTENDS Naturals, FiniteSets

CONSTANTS
    Pools,      \* ids of pools
    Nodes,      \* ids of nodes
    Tasks,      \* coroutines of the control plane
    NoPool,     \* no pool
    Kinds,      \* kinds of pools that are created
    MaxFaults,  \* how many faults happen
    Faults      \* which ones may: "crash", "destroy", "depin", "enqueue", "cluster"

VARIABLES
    pool,    \* compute_pools: kind, lifecycle_state ("none" before, "gone" after the row), is_active, cluster
    node,    \* compute_inventory with its provisioning job
    ext,     \* does the paid instance, or DePIN job, of a node exist?
    task,    \* the coroutines
    asked,   \* history: what was accepted for a pool, "stop" or "delete"
    raced,   \* history: nodes inserted behind the back of a delete or a finalizer
    lost,    \* history: nodes whose provider refused the deprovision
    faults   \* faults so far

vars == <<pool, node, ext, task, asked, raced, lost, faults>>

Idle == [pool |-> NoPool, at |-> "idle", todo |-> {}]

At(t, p, at, todo) == [task EXCEPT ![t] = [pool |-> p, at |-> at, todo |-> todo]]
Goto(t, at) == task' = [task EXCEPT ![t].at = at]
Done(t) == task' = [task EXCEPT ![t] = Idle]

\* A coroutine has no name of its own: it takes the first one that is free.
Start(t, p, at, todo) ==
    /\ task[t] = Idle /\ t = CHOOSE u \in Tasks : task[u] = Idle
    /\ task' = At(t, p, at, todo)

Fault(f) == f \in Faults /\ faults < MaxFaults /\ faults' = faults + 1

Row(n) == node[n].st \in {"live", "terminated"}
In(p) == {n \in Nodes : Row(n) /\ node[n].pool = p}
Unterminated(p) == {n \in In(p) : node[n].st # "terminated"}
Exists(p) == pool[p].st \notin {"none", "gone"}

Init ==
    /\ pool = [p \in Pools |-> [kind |-> "aws", st |-> "none", active |-> FALSE,
                                cluster |-> "none"]]
    /\ node = [n \in Nodes |-> [pool |-> NoPool, st |-> "absent", flag |-> FALSE,
                                job |-> "none"]]
    /\ ext = [n \in Nodes |-> FALSE]
    /\ task = [t \in Tasks |-> Idle]
    /\ asked = [p \in Pools |-> {}]
    /\ raced = {}
    /\ lost = {}
    /\ faults = 0

-----------------------------------------------------------------------------
(* Creation and use *)

\* A new row; a name, provider or credential that is refused changes nothing.
Insert(p, k) ==
    /\ pool[p].st = "none"
    /\ pool' = [pool EXCEPT ![p] = [kind |-> k, st |-> "running", active |-> TRUE,
                                    cluster |-> "none"]]
    /\ UNCHANGED <<node, ext, asked, raced, lost, faults>>

\* create_pool provisions nothing: "cluster" is a pool whose provider has
\* provisioned one for it, which only RegisterPool asks for.
CreatePool(p, k) ==
    /\ k # "cluster"
    /\ Insert(p, k)
    /\ UNCHANGED task

\* RegisterPool of a provider with clusters (AWS excepted) inserts the row and
\* leaves _provision_cluster_task behind; of others it is a create_pool.
RegisterPool(t, p) ==
    /\ "cluster" \in Kinds
    /\ Insert(p, "cluster")
    /\ Start(t, p, "provision", {})

\* The cluster is up, then its id is recorded, whatever the pool has become
\* ("late" when it is no longer running).
ProvisionCluster(t) ==
    LET p == task[t].pool IN
    /\ task[t].at = "provision"
    /\ pool' = [pool EXCEPT ![p].cluster = "unrecorded"]
    /\ Goto(t, "record")
    /\ UNCHANGED <<node, ext, asked, raced, lost, faults>>

RecordCluster(t) ==
    LET p == task[t].pool IN
    /\ task[t].at = "record"
    /\ pool' = IF Exists(p)
               THEN [pool EXCEPT ![p].cluster = IF pool[p].st = "running" THEN "recorded"
                                                                          ELSE "late"]
               ELSE pool
    /\ Done(t)
    /\ UNCHANGED <<node, ext, asked, raced, lost, faults>>

\* A deploy that needs a node: the pool is validated first, the placeholder is
\* inserted later.  The foreign key refuses only a pool whose row is gone.
DeployCheck(t, p) ==
    /\ pool[p].active /\ pool[p].st = "running" /\ pool[p].kind # "cluster"
    /\ Cardinality({n \in Nodes : node[n].st = "absent"}) >
       Cardinality({u \in Tasks : task[u].at = "place"})
    /\ Start(t, p, "place", {})
    /\ UNCHANGED <<pool, node, ext, asked, raced, lost, faults>>

\* Is the pool no longer running, is a delete past its list of nodes, or a
\* finalizer past its count?
Behind(p) ==
    \/ pool[p].st # "running"
    \/ \E t \in Tasks : task[t].pool = p /\ task[t].at \in
          {"deprov", "finalize", "finDelete", "reapDelete"}

Place(t, n) ==
    LET p == task[t].pool IN
    /\ task[t].at = "place" /\ Exists(p)
    /\ n = CHOOSE m \in Nodes : node[m].st = "absent"   \* a new id
    /\ \E job \in {"live", "none"} :
          /\ node' = [node EXCEPT ![n] = [pool |-> p, st |-> "live", flag |-> FALSE,
                                          job |-> job]]
          /\ \/ pool[p].kind = "aws" /\ job = "live" /\ UNCHANGED faults
             \/ pool[p].kind = "aws" /\ job = "none" /\ Fault("enqueue")
             \/ pool[p].kind = "depin" /\ job = "none" /\ UNCHANGED faults
    /\ raced' = IF Behind(p) THEN raced \cup {n} ELSE raced
    /\ Done(t)
    /\ UNCHANGED <<pool, ext, asked, lost>>

PlaceRefused(t) ==
    /\ task[t].at = "place" /\ ~Exists(task[t].pool)
    /\ Done(t)
    /\ UNCHANGED <<pool, node, ext, asked, raced, lost, faults>>

\* The instance of a node appears: pulumi up of its job, or the DePIN job.
Launch(n) ==
    /\ node[n].st = "live" /\ ~ext[n]
    /\ \/ node[n].job = "live"
       \/ node[n].job = "none" /\ pool[node[n].pool].kind = "depin"
    /\ ext' = [ext EXCEPT ![n] = TRUE]
    /\ UNCHANGED <<pool, node, task, asked, raced, lost, faults>>

-----------------------------------------------------------------------------
(* Helpers of the teardown *)

\* UPDATE provisioning_jobs ... WHERE phase NOT IN ('cancelling','terminated')
Cancelled(job) == IF job \in {"live", "failed"} THEN "cancelling" ELSE job

ForceCancelPool(p) ==
    [n \in Nodes |-> IF n \in In(p) THEN [node[n] EXCEPT !.job = Cancelled(@)]
                                    ELSE node[n]]

\* purge_node: the row and its job.  The pool stays as the tag of the instance.
Purged(n) == [node[n] EXCEPT !.st = "purged", !.flag = FALSE, !.job = "none"]

\* A mutant: the row of the pool goes, nothing hangs on it.
FinalizePoolRow(p) ==
    /\ pool' = IF Exists(p) THEN [pool EXCEPT ![p].st = "gone", ![p].active = FALSE]
                            ELSE pool
    /\ UNCHANGED node

\* finalize_pool_delete: the row goes, and with it (ON DELETE CASCADE) every
\* inventory row of the pool and, from there, every job.
FinalizePoolDelete(p) ==
    /\ pool' = IF Exists(p) THEN [pool EXCEPT ![p].st = "gone", ![p].active = FALSE]
                            ELSE pool
    /\ node' = [n \in Nodes |-> IF n \in In(p) THEN Purged(n) ELSE node[n]]

-----------------------------------------------------------------------------
(* POST /stoppool: read, mark, and _terminate_pool_background *)

StopPool(t, p) ==
    /\ pool[p].active /\ pool[p].st = "running"
    /\ Start(t, p, "mark", {})
    /\ UNCHANGED <<pool, node, ext, asked, raced, lost, faults>>

StopMark(t) ==
    LET p == task[t].pool IN
    /\ task[t].at = "mark"
    /\ pool' = IF pool[p].active THEN [pool EXCEPT ![p].st = "terminating"] ELSE pool
    /\ asked' = IF pool[p].active THEN [asked EXCEPT ![p] = @ \cup {"stop"}] ELSE asked
    /\ Goto(t, "read")
    /\ UNCHANGED <<node, ext, raced, lost, faults>>

\* A mutant: only the jobs are cancelled.
TerminateReadJobs(t) ==
    LET p == task[t].pool IN
    /\ task[t].at = "read"
    /\ IF ~pool[p].active \/ pool[p].st # "terminating" THEN Done(t) ELSE Goto(t, "jobs")
    /\ UNCHANGED <<pool, node, ext, asked, raced, lost, faults>>

TerminateRead(t) ==
    LET p == task[t].pool IN
    /\ task[t].at = "read"
    /\ IF ~pool[p].active \/ pool[p].st # "terminating" THEN Done(t)
       ELSE Goto(t, IF pool[p].cluster \in {"recorded", "late"} THEN "cluster"
               ELSE "jobs")
    /\ UNCHANGED <<pool, node, ext, asked, raced, lost, faults>>

TerminateCluster(t) ==
    /\ task[t].at = "cluster"
    /\ \/ /\ pool' = [pool EXCEPT ![task[t].pool].cluster = "none"]
          /\ Goto(t, "jobs")
          /\ UNCHANGED faults
       \/ Fault("cluster") /\ Goto(t, "rollback") /\ UNCHANGED pool
    /\ UNCHANGED <<node, ext, asked, raced, lost>>

TerminateJobs(t) ==
    /\ task[t].at = "jobs"
    /\ node' = ForceCancelPool(task[t].pool)
    /\ Goto(t, "stopped")
    /\ UNCHANGED <<pool, ext, asked, raced, lost, faults>>

\* The last write: terminated, or running again after an exception.
TerminateEnd(t) ==
    LET p == task[t].pool IN
    /\ task[t].at \in {"stopped", "rollback"}
    /\ pool' = IF ~pool[p].active THEN pool
               ELSE [pool EXCEPT ![p].st = IF task[t].at = "stopped" THEN "terminated"
                                                                     ELSE "running"]
    /\ Done(t)
    /\ UNCHANGED <<node, ext, asked, raced, lost, faults>>

-----------------------------------------------------------------------------
(* DELETE /pool: delete_pool_rest *)

DeletePoolRest(t, p) ==
    /\ pool[p].active
    /\ IF pool[p].kind = "depin" THEN Start(t, p, "deprov", Unterminated(p))
                                 ELSE Start(t, p, "cascade", {})
    /\ UNCHANGED <<pool, node, ext, asked, raced, lost, faults>>

\* One node of a DePIN pool: stopped at the provider, then terminated in the
\* inventory whether or not the provider agreed.
Deprovision(t, n) ==
    /\ task[t].at = "deprov" /\ n \in task[t].todo
    /\ task' = [task EXCEPT ![t].todo = @ \ {n}]
    /\ \/ ext' = [ext EXCEPT ![n] = FALSE] /\ UNCHANGED <<lost, faults>>
       \/ Fault("depin") /\ lost' = lost \cup {n} /\ UNCHANGED ext
    /\ node' = IF Row(n) THEN [node EXCEPT ![n].st = "terminated"] ELSE node
    /\ UNCHANGED <<pool, asked, raced>>

\* One transaction: the deployments and jobs, the flags, the pool.
DeleteCascade(t) ==
    LET p == task[t].pool IN
    /\ task[t].at \in {"deprov", "cascade"} /\ task[t].todo = {}
    /\ node' = [n \in Nodes |->
                  IF n \in Unterminated(p)
                  THEN [node[n] EXCEPT !.job = Cancelled(@), !.flag = TRUE]
                  ELSE IF n \in In(p) THEN [node[n] EXCEPT !.job = Cancelled(@)]
                  ELSE node[n]]
    /\ pool' = IF Exists(p)
               THEN [pool EXCEPT ![p].st = "terminating", ![p].active = FALSE]
               ELSE pool
    /\ asked' = [asked EXCEPT ![p] = @ \cup {"delete"}]
    /\ Goto(t, "count")
    /\ UNCHANGED <<ext, raced, lost, faults>>

\* The empty pool is finalized in the request; terminated rows do not count.
DeleteCount(t) ==
    /\ task[t].at = "count"
    /\ IF Unterminated(task[t].pool) = {} THEN Goto(t, "finalize") ELSE Done(t)
    /\ UNCHANGED <<pool, node, ext, asked, raced, lost, faults>>

DeleteFinalize(t) ==
    /\ task[t].at = "finalize"
    /\ FinalizePoolDelete(task[t].pool)
    /\ Done(t)
    /\ UNCHANGED <<ext, asked, raced, lost, faults>>

-----------------------------------------------------------------------------
(* POST /deletepool: DeletePool of a stopped pool *)

DeletePool(t, p) ==
    /\ pool[p].active /\ pool[p].st = "terminated"
    /\ Start(t, p, IF pool[p].kind = "aws" THEN "cancel" ELSE "soft", {})
    /\ UNCHANGED <<pool, node, ext, asked, raced, lost, faults>>

DeletePoolCancel(t) ==
    /\ task[t].at = "cancel"
    /\ node' = ForceCancelPool(task[t].pool)
    /\ Goto(t, "flag")
    /\ UNCHANGED <<pool, ext, asked, raced, lost, faults>>

DeletePoolFlag(t) ==
    /\ task[t].at = "flag"
    /\ node' = [n \in Nodes |-> IF n \in In(task[t].pool)
                                THEN [node[n] EXCEPT !.flag = TRUE] ELSE node[n]]
    /\ Goto(t, "life")
    /\ UNCHANGED <<pool, ext, asked, raced, lost, faults>>

\* set_pool_lifecycle_state matches an active row only.
DeletePoolLifecycle(t) ==
    LET p == task[t].pool IN
    /\ task[t].at = "life"
    /\ pool' = IF pool[p].active THEN [pool EXCEPT ![p].st = "terminating"] ELSE pool
    /\ Goto(t, "soft")
    /\ UNCHANGED <<node, ext, asked, raced, lost, faults>>

SoftDeletePool(t) ==
    LET p == task[t].pool IN
    /\ task[t].at = "soft"
    /\ pool' = [pool EXCEPT ![p].active = FALSE]
    /\ asked' = [asked EXCEPT ![p] = @ \cup {"delete"}]
    /\ IF pool[p].kind = "aws" THEN Goto(t, "countall") ELSE Done(t)
    /\ UNCHANGED <<node, ext, raced, lost, faults>>

DeletePoolCount(t) ==
    /\ task[t].at = "countall"
    /\ IF In(task[t].pool) = {} THEN Goto(t, "finalize") ELSE Done(t)
    /\ UNCHANGED <<pool, node, ext, asked, raced, lost, faults>>

-----------------------------------------------------------------------------
(* Nodes: DELETE /nodes, the reconciler's teardown and the pool finalizer *)

\* A jobless node is deprovisioned where that applies and soft-deleted, one
\* whose job is over is purged, any other is cancelled and flagged.
DeleteNode(n) ==
    /\ node[n].st = "live" /\ ~node[n].flag
    /\ \/ /\ node[n].job = "none"
          /\ \/ ext' = [ext EXCEPT ![n] = FALSE] /\ UNCHANGED <<lost, faults>>
             \/ ext[n] /\ Fault("depin") /\ lost' = lost \cup {n} /\ UNCHANGED ext
          /\ node' = [node EXCEPT ![n].st = "terminated"]
       \/ /\ node[n].job = "terminated"
          /\ node' = [node EXCEPT ![n] = Purged(n)]
          /\ UNCHANGED <<ext, lost, faults>>
       \/ /\ node[n].job \in {"live", "failed", "cancelling"}
          /\ node' = [node EXCEPT ![n].job = Cancelled(@), ![n].flag = TRUE]
          /\ UNCHANGED <<ext, lost, faults>>
    /\ UNCHANGED <<pool, task, asked, raced>>

\* The CancelHandler of the node's job: the instance is destroyed, and the
\* same coroutine goes on to purge the node and to look at its pool.
Destroy(t, n) ==
    /\ node[n].job = "cancelling"
    /\ \/ /\ ext' = [ext EXCEPT ![n] = FALSE]
          /\ node' = [node EXCEPT ![n].job = "terminated"]
          /\ Start(t, node[n].pool, "purge", {n})
          /\ UNCHANGED faults
       \/ /\ Fault("destroy")
          /\ node' = [node EXCEPT ![n].job = "failed"]
          /\ UNCHANGED <<ext, task>>
    /\ UNCHANGED <<pool, asked, raced, lost>>

Purge(t, n) ==
    /\ task[t].at = "purge" /\ task[t].todo = {n}
    /\ node' = IF Row(n) THEN [node EXCEPT ![n] = Purged(n)] ELSE node
    /\ task' = At(t, task[t].pool, "look", {})
    /\ UNCHANGED <<pool, ext, asked, raced, lost, faults>>

\* _finalize_pool_if_empty: the state, the count and the delete are three
\* transactions.  The sweep by pool tag follows.
FinalizerLook(t) ==
    /\ task[t].at = "look"
    /\ IF pool[task[t].pool].st = "terminating" THEN Goto(t, "finCount") ELSE Done(t)
    /\ UNCHANGED <<pool, node, ext, asked, raced, lost, faults>>

FinalizerCount(t) ==
    /\ task[t].at = "finCount"
    /\ IF In(task[t].pool) = {} THEN Goto(t, "finDelete") ELSE Done(t)
    /\ UNCHANGED <<pool, node, ext, asked, raced, lost, faults>>

FinalizerDelete(t) ==
    /\ task[t].at = "finDelete"
    /\ FinalizePoolDelete(task[t].pool)
    /\ Goto(t, "finSweep")
    /\ UNCHANGED <<ext, asked, raced, lost, faults>>

\* sweep_pool_instances: every instance that carries the tag of the pool.
FinalizerSweep(t) ==
    /\ task[t].at = "finSweep"
    /\ ext' = [n \in Nodes |-> ext[n] /\ node[n].pool # task[t].pool]
    /\ Done(t)
    /\ UNCHANGED <<pool, node, asked, raced, lost, faults>>

-----------------------------------------------------------------------------
(* The reaper *)

\* A mutant: a job that failed counts as still being driven.
ReapNodeLive(n) ==
    /\ Row(n) /\ node[n].flag /\ node[n].job \notin {"cancelling", "failed"}
    /\ IF node[n].job = "live"
       THEN node' = [node EXCEPT ![n].job = "cancelling"] /\ UNCHANGED ext
       ELSE /\ node' = [node EXCEPT ![n] = Purged(n)]
            /\ ext' = IF pool[node[n].pool].kind = "aws" THEN [ext EXCEPT ![n] = FALSE]
                                                         ELSE ext
    /\ UNCHANGED <<pool, task, asked, raced, lost, faults>>

\* A mutant: a flagged node is purged, whatever its job.
ReapNodePurges(n) ==
    /\ Row(n) /\ node[n].flag /\ node[n].job # "cancelling"
    /\ node' = [node EXCEPT ![n] = Purged(n)]
    /\ UNCHANGED <<pool, ext, task, asked, raced, lost, faults>>

\* _reap_one_node: a job that can be re-armed is, else sweep and purge.
ReapNode(n) ==
    /\ Row(n) /\ node[n].flag /\ node[n].job # "cancelling"
    /\ IF node[n].job \in {"live", "failed"}
       THEN node' = [node EXCEPT ![n].job = "cancelling"] /\ UNCHANGED ext
       ELSE /\ node' = [node EXCEPT ![n] = Purged(n)]
            /\ ext' = IF pool[node[n].pool].kind = "aws" THEN [ext EXCEPT ![n] = FALSE]
                                                         ELSE ext
    /\ UNCHANGED <<pool, task, asked, raced, lost, faults>>

\* A mutant: any empty pool is finalized.
ReapFindEmpty(t, p) ==
    /\ Exists(p) /\ In(p) = {}
    /\ Start(t, p, "reapDelete", {})
    /\ UNCHANGED <<pool, node, ext, asked, raced, lost, faults>>

\* _find_stuck_pools, and finalize_pool_delete for what it found.
ReapFind(t, p) ==
    /\ pool[p].st = "terminating" /\ In(p) = {}
    /\ Start(t, p, "reapDelete", {})
    /\ UNCHANGED <<pool, node, ext, asked, raced, lost, faults>>

ReapFinalize(t) ==
    /\ task[t].at = "reapDelete"
    /\ FinalizePoolDelete(task[t].pool)
    /\ Done(t)
    /\ UNCHANGED <<ext, asked, raced, lost, faults>>

\* The control plane dies, with every coroutine.
Crash ==
    /\ Fault("crash")
    /\ task' = [t \in Tasks |-> Idle]
    /\ UNCHANGED <<pool, node, ext, asked, raced, lost>>

-----------------------------------------------------------------------------
Request(t) ==
    \/ \E p \in Pools :
          \/ \E k \in Kinds : CreatePool(p, k)
          \/ RegisterPool(t, p)
          \/ DeployCheck(t, p) \/ StopPool(t, p)
          \/ DeletePoolRest(t, p) \/ DeletePool(t, p)
    \/ \E n \in Nodes : DeleteNode(n)

Step(t) ==
    \/ ProvisionCluster(t) \/ RecordCluster(t) \/ PlaceRefused(t)
    \/ StopMark(t) \/ TerminateRead(t) \/ TerminateCluster(t)
    \/ TerminateJobs(t) \/ TerminateEnd(t)
    \/ DeleteCascade(t) \/ DeleteCount(t) \/ DeleteFinalize(t)
    \/ DeletePoolCancel(t) \/ DeletePoolFlag(t) \/ DeletePoolLifecycle(t)
    \/ SoftDeletePool(t) \/ DeletePoolCount(t)
    \/ FinalizerLook(t) \/ FinalizerCount(t) \/ FinalizerDelete(t)
    \/ FinalizerSweep(t) \/ ReapFinalize(t)
    \/ \E n \in Nodes : Place(t, n) \/ Deprovision(t, n) \/ Purge(t, n)

Next ==
    \/ \E t \in Tasks : Request(t) \/ Step(t)
    \/ \E t \in Tasks, n \in Nodes : Destroy(t, n)
    \/ \E n \in Nodes : Launch(n) \/ ReapNode(n)
    \/ \E t \in Tasks, p \in Pools : ReapFind(t, p)
    \/ Crash

Spec == Init /\ [][Next]_vars

\* A coroutine that has started goes on; the reconciler drives every job that
\* is cancelling and the reaper passes again and again.
FairSpec ==
    /\ Spec
    /\ \A t \in Tasks : WF_vars(Step(t))
    /\ \A n \in Nodes : WF_vars(\E t \in Tasks : Destroy(t, n))
    /\ \A n \in Nodes : WF_vars(ReapNode(n))
    /\ \A p \in Pools : WF_vars(\E t \in Tasks : ReapFind(t, p))

-----------------------------------------------------------------------------
(* Properties *)

Places == {"idle", "provision", "record", "place", "mark", "read", "cluster",
           "jobs", "stopped", "rollback", "deprov", "cascade", "count",
           "finalize", "cancel", "flag", "life", "soft", "countall", "purge",
           "look", "finCount", "finDelete", "finSweep", "reapDelete"}

\* Types of the tables and of the coroutines.
TypeOK ==
    /\ pool \in [Pools -> [kind : {"aws", "depin", "cluster"},
                          st : {"none", "running", "terminating", "terminated", "gone"},
                          active : BOOLEAN,
                          cluster : {"none", "unrecorded", "recorded", "late"}]]
    /\ node \in [Nodes -> [pool : Pools \cup {NoPool},
                          st : {"absent", "live", "terminated", "purged"},
                          flag : BOOLEAN,
                          job : {"none", "live", "cancelling", "failed", "terminated"}]]
    /\ ext \in [Nodes -> BOOLEAN]
    /\ task \in [Tasks -> [pool : Pools \cup {NoPool}, at : Places,
                          todo : SUBSET Nodes]]
    /\ asked \in [Pools -> SUBSET {"stop", "delete"}]
    /\ raced \subseteq Nodes /\ lost \subseteq Nodes
    /\ faults \in Nat

\* The paid instance of a node outlives its inventory row only when the node
\* was inserted behind a delete or a finalizer that had already counted, or
\* when the provider refused to stop it.
OrphanHasCause ==
    \A n \in Nodes : node[n].st = "purged" /\ ext[n] => n \in raced \cup lost

\* A pool that nobody asked to stop or to delete keeps its row, whatever
\* finalizers and reaper passes are under way on what they read before.
PoolLossHasCause ==
    \A p \in Pools : pool[p].st = "gone" => asked[p] # {}

\* No row outlives its pool, in the inventory or in the queue: everything hangs
\* on the pool by a cascade.
NoStrayRows ==
    \A n \in Nodes : Row(n) => Exists(node[n].pool)

\* A cluster whose id was recorded while the pool was running is terminated
\* before the pool is reported as terminated.
ClusterReleased ==
    \A p \in Pools : pool[p].st = "terminated" => pool[p].cluster # "recorded"

\* What keeps a deleted pool from going away: a node placed behind the cascade,
\* the terminated row that a soft delete leaves for ever, or a second stop that
\* wrote its "terminated" between the two last writes of DeletePool.
Held(p) ==
    \/ \E n \in In(p) : n \in raced \/ node[n].st = "terminated"
    \/ pool[p].st = "terminated"

\* A deleted AWS pool goes away, row and nodes, through failed destroys and
\* crashes, unless a row is held.
DeleteCompletes ==
    \A p \in Pools : "delete" \in asked[p] /\ pool[p].kind = "aws"
                        ~> pool[p].st = "gone" \/ Held(p)
=============================================================================
