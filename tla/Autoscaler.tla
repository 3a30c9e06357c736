------------------------------ MODULE Autoscaler ------------------------------
(***************************************************************************)
(* The autoscaler (orchestration/scheduling/autoscaler.py and its worker): *)
(* one pool with a scaling policy and one deployment with automatic        *)
(* replicas in it.  A tick scales the pool by its CPU load, then the       *)
(* deployment by its tokens per second.  A scale-out writes a replica, a   *)
(* placeholder node, the binding, a provisioning job and a time stamp in   *)
(* five statements; the tick's exceptions end it where it is.              *)
(*                                                                         *)
(* Node provisioning itself is the subject of Reconciler and Depin; here a *)
(* started node becomes ready or fails.  The classes are in the source,    *)
(* but no process of the repository starts the worker.                     *)
(***************************************************************************)
EXTENDS Naturals, FiniteSets

CONSTANTS
    Replicas,   \* replica deployments, each with the node made for it
    MaxNodes,   \* max_nodes of the pool, and of its policy
    MaxExtra,   \* nodes the pool tick may ask for in a behaviour
    Routes,     \* "reconciler", "direct_adapter"
    MaxFaults   \* statements that fail, process stops

VARIABLES
    at,       \* the step of the running tick
    cur,      \* the replica being created
    route,    \* the provisioning route of the pool
    replica,  \* state of the replica deployments
    node,     \* their nodes
    started,  \* replicas whose node has a job or a background task
    extra,    \* nodes the pool tick provisioned
    cool,     \* the parent's last scaling is younger than the cooldown
    poolCool, \* the pool's, from autoscaler_state
    faults,
    excused

vars == <<at, cur, route, replica, node, started, extra, cool, poolCool, faults, excused>>

TypeOK ==
    /\ at \in {"pool", "provision", "record", "reset", "replica", "create", "placeholder",
               "bind", "start", "stamp", "scale_in"}
    /\ cur \subseteq Replicas /\ Cardinality(cur) <= 1
    /\ route \in Routes
    /\ replica \in [Replicas -> {"none", "CREATED", "PENDING_NODE", "RUNNING", "FAILED"}]
    /\ node \in [Replicas -> {"none", "placeholder", "ready", "gone"}]
    /\ started \subseteq Replicas /\ extra \in 0..MaxExtra
    /\ cool \in BOOLEAN /\ poolCool \in BOOLEAN
    /\ faults \in 0..MaxFaults /\ excused \subseteq {"unready", "fault", "no spec"}

Init ==
    /\ at = "pool" /\ cur = {} /\ route \in Routes
    /\ replica = [r \in Replicas |-> "none"] /\ node = [r \in Replicas |-> "none"]
    /\ started = {} /\ extra = 0 /\ cool = FALSE /\ poolCool = FALSE
    /\ faults = 0 /\ excused = {}

(* _pool_ready_nodes: the parent's own node, and what has become ready. *)
ReadyNodes == 1 + extra + Cardinality({r \in Replicas : node[r] = "ready"})
NodeCount == ReadyNodes + Cardinality({r \in Replicas : node[r] = "placeholder"})

Early == IF NodeCount > ReadyNodes THEN {"unready"} ELSE {}

Fault == faults < MaxFaults /\ faults' = faults + 1
Raises(step) == Fault /\ at' = step /\ excused' = excused \union {"fault"}
Fine == UNCHANGED <<faults, excused>>
Parent == <<replica, node, started, cur, route, cool>>

-----------------------------------------------------------------------------
(* _pool_tick: nothing to do, or a node more.  A scale-down asks the       *)
(* repository for an idle node with a method it does not have; the         *)
(* exception is logged and the tick goes on.                               *)
PoolDecide ==
    /\ at = "pool"
    /\ \/ at' = "replica" /\ UNCHANGED excused
       \/ /\ ~poolCool /\ ReadyNodes < MaxNodes /\ extra < MaxExtra
          /\ at' = "provision" /\ excused' = excused \union Early
    /\ UNCHANGED <<Parent, extra, poolCool, faults>>

ProvisionNode ==
    /\ at = "provision"
    /\ \/ extra' = extra + 1 /\ at' = "record" /\ Fine
       \/ Raises("replica") /\ UNCHANGED extra
    /\ UNCHANGED <<Parent, poolCool>>

RecordScale ==
    /\ at = "record"
    /\ \/ poolCool' = TRUE /\ at' = "reset" /\ Fine
       \/ Raises("replica") /\ UNCHANGED poolCool
    /\ UNCHANGED <<Parent, extra>>

ResetFailures ==
    /\ at = "reset" /\ at' = "replica"
    /\ UNCHANGED <<Parent, extra, poolCool, faults, excused>>

-----------------------------------------------------------------------------
(* A mutant of HasRoom: one node too many. *)
HasRoomInclusive == ReadyNodes <= MaxNodes

(* The capacity check of a scale-out counts nodes that are ready. *)
HasRoom == ReadyNodes < MaxNodes

(* _auto_replica_tick: outside the cooldown, with enough recent requests,  *)
(* slow answers ask for a replica and fast ones for one less.              *)
ReplicaDecide ==
    /\ at = "replica"
    /\ \/ at' = "pool" /\ UNCHANGED <<cur, excused>>
       \/ /\ ~cool /\ HasRoom
          /\ at' = "create" /\ excused' = excused \union Early
          /\ \E r \in Replicas : replica[r] = "none" /\ node[r] = "none" /\ cur' = {r}
       \/ ~cool /\ ReadyNodes > 1 /\ at' = "scale_in" /\ UNCHANGED <<cur, excused>>
    /\ UNCHANGED <<replica, node, started, route, cool, extra, poolCool, faults>>

(* One statement of _scale_out_replica. *)
Statement(step, next, effect) ==
    /\ at = step
    /\ \/ effect /\ at' = next /\ Fine /\ cur' = IF next = "pool" THEN {} ELSE cur
       \/ Raises("pool") /\ cur' = {} /\ UNCHANGED <<replica, node, started, cool>>
    /\ UNCHANGED <<route, extra, poolCool>>

CreateReplica ==
    Statement("create", "placeholder",
        \E r \in cur : /\ replica' = [replica EXCEPT ![r] = "CREATED"]
                       /\ UNCHANGED <<node, started, cool>>)

(* The placeholder holds the replica's GPUs from the start. *)
CreatePlaceholder ==
    Statement("placeholder", "bind",
        \E r \in cur : /\ node' = [node EXCEPT ![r] = "placeholder"]
                       /\ UNCHANGED <<replica, started, cool>>)

BindToNode ==
    Statement("bind", "start",
        \E r \in cur : /\ replica' = [replica EXCEPT ![r] = "PENDING_NODE"]
                       /\ UNCHANGED <<node, started, cool>>)

(* A mutant of StartNode: no job is enqueued. *)
StartNothing ==
    Statement("start", "stamp", UNCHANGED <<replica, node, started, cool>>)

(* enqueue, or a background task of provision_direct_node. *)
StartNode ==
    Statement("start", "stamp", started' = started \union cur /\ UNCHANGED <<replica, node, cool>>)

(* _build_pool_spec finds no instance type or region: the replica fails,   *)
(* its node stays, and the parent gets no time stamp.                      *)
NoSpec ==
    /\ at = "start" /\ route = "reconciler"
    /\ \E r \in cur : replica' = [replica EXCEPT ![r] = "FAILED"]
    /\ at' = "pool" /\ cur' = {} /\ excused' = excused \union {"no spec"}
    /\ UNCHANGED <<node, started, cool, route, extra, poolCool, faults>>

Stamp ==
    Statement("stamp", "pool", cool' = TRUE /\ UNCHANGED <<replica, node, started>>)

(* _scale_in_replica calls terminate_deployment_core without a pool        *)
(* repository; the call raises before it changes anything.                 *)
ScaleIn ==
    /\ at = "scale_in" /\ at' = "pool"
    /\ UNCHANGED <<Parent, extra, poolCool, faults, excused>>

-----------------------------------------------------------------------------
NodeReady(r) ==
    /\ r \in started /\ node[r] = "placeholder"
    /\ \/ node' = [node EXCEPT ![r] = "ready"] /\ replica' = [replica EXCEPT ![r] = "RUNNING"]
       \/ node' = [node EXCEPT ![r] = "gone"] /\ replica' = [replica EXCEPT ![r] = "FAILED"]
    /\ UNCHANGED <<at, cur, route, started, extra, cool, poolCool, faults, excused>>

(* Ten minutes, or the policy's cooldown, have passed. *)
CooldownEnds ==
    /\ cool \/ poolCool
    /\ \/ cool' = FALSE /\ UNCHANGED poolCool
       \/ poolCool' = FALSE /\ UNCHANGED cool
    /\ UNCHANGED <<at, cur, route, replica, node, started, extra, faults, excused>>

(* The process stops: a background task dies with it, a job does not. *)
Restart ==
    /\ Fault /\ at' = "pool" /\ cur' = {}
    /\ started' = IF route = "direct_adapter"
                  THEN started \ {r \in started : node[r] = "placeholder"} ELSE started
    /\ excused' = excused \union {"fault"}
    /\ UNCHANGED <<route, replica, node, extra, cool, poolCool>>

Tick ==
    \/ PoolDecide \/ ProvisionNode \/ RecordScale \/ ResetFailures
    \/ ReplicaDecide \/ CreateReplica \/ CreatePlaceholder \/ BindToNode
    \/ StartNode \/ NoSpec \/ Stamp \/ ScaleIn

Provisioning == \E r \in Replicas : NodeReady(r)

Next == Tick \/ CooldownEnds \/ Restart \/ Provisioning

Spec == Init /\ [][Next]_vars

(* The worker's loop ticks for ever; provisioning ends one way or the other. *)
FairSpec == Spec /\ WF_vars(Tick) /\ WF_vars(Provisioning)

-----------------------------------------------------------------------------
(* The pool grows past max_nodes only by scaling again while the node of   *)
(* an earlier scaling was not ready yet: the capacity checks of both ticks *)
(* read ready nodes (autoscaler.py:_pool_ready_nodes, pool_stats).         *)
OvershootHasCause == NodeCount > MaxNodes => "unready" \in excused

(* A placeholder that nothing will turn into a node, and its GPUs, are     *)
(* left behind only by a failed statement, a restart or a pool without a   *)
(* complete spec.                                                          *)
PlaceholderHasCause ==
    \A r \in Replicas :
        node[r] = "placeholder" /\ r \notin started /\ r \notin cur
            => excused \intersect {"fault", "no spec"} # {}

(* A replica that waits for its node gets it or fails, unless a failed     *)
(* statement or a restart lost the work.                                   *)
ReplicaSettles ==
    \A r \in Replicas :
        replica[r] = "PENDING_NODE" ~> replica[r] # "PENDING_NODE" \/ "fault" \in excused
=============================================================================
