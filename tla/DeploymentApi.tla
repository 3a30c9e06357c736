--------------------------- MODULE DeploymentApi ----------------------------
(***************************************************************************)
(* The state behind placement: the model_deployments rows, the inventory   *)
(* rows of one pool with their GPU accounting, and the requests and linker *)
(* tasks of the control plane; the repository statements they share; and  *)
(* the deployment requests: deploy, terminate, start and delete, each a    *)
(* task that commits several transactions.  What a request read before one *)
(* of them may be stale in the next.                                       *)
(*                                                                         *)
(* A node's provisioning (Reconciler) is abstracted to the fate of its     *)
(* job.  One pool, routed through the reconciler; a deployment needs one   *)
(* GPU or none; a booted instance reports the pool's gpu_count.            *)
(***************************************************************************)
EXTENDS Integers, FiniteSets

CONSTANTS
    Deps,      \* deployment ids
    CpuOnly,   \* the deployments whose gpu_per_replica is 0
    Nodes,     \* ids of the nodes that may be created; never reused
    Tasks,     \* coroutines: requests and linker tasks
    NoDep, NoNode,
    GpuTotal,  \* compute_pools.gpu_count
    MaxNodes,  \* compute_pools.max_nodes
    MaxAsked,  \* bound: terminate, start and delete requests of users
    MaxFaults, \* bound: how many kinds of failure are injected, each once
    Faults     \* which failures the environment may inject

\* "place": a statement of the placement transaction raises.  "enqueue": the
\* insert of the job raises.  "cancel": force_cancel raises.  "load": a load
\* fails on the worker.  "drop": a worker loses its channel.  "crash": the
\* control plane dies with all its tasks.
FaultKinds == {"place", "enqueue", "cancel", "load", "drop", "crash"}

ASSUME DeploymentConstants ==
    /\ CpuOnly \subseteq Deps
    /\ NoDep \notin Deps
    /\ NoNode \notin Nodes
    /\ GpuTotal \in Nat \ {0}
    /\ MaxNodes \in Nat
    /\ MaxAsked \in Nat
    /\ MaxFaults \in Nat
    /\ Faults \subseteq FaultKinds

VARIABLES
    dep,      \* model_deployments: state and target_node_id
    inv,      \* compute_inventory, and the fate of the node's job and agent
    task,     \* the control plane's coroutines
    asked,    \* requests made by users
    injected  \* failures injected so far

vars == <<dep, inv, task, asked, injected>>

Terminal == {"TERMINATED", "FAILED"}
Live == {"PENDING_NODE", "DEPLOYING", "RUNNING"}

DepRecord == [state : Terminal \cup Live \cup {"none", "CREATED", "deleted"},
              node : Nodes \cup {NoNode}]

NodeRecord ==
    [state : {"absent", "provisioning", "ready", "failed", "terminated",
              "purged"},
     terminating : BOOLEAN, alloc : Nat,
     job : {"none", "live", "reporting", "done", "cancelling"},
     agent : {"none", "registered", "connected"}]

TaskRecord ==
    [pc : {"idle", "decide", "bind", "cold", "abort", "enqueue", "load",
           "link", "drive", "terminate", "destroy", "cancel", "flag", "reset",
           "delete", "drop_row"},
     dep : Deps \cup {NoDep}, node : Nodes \cup {NoNode},
     saw : {"none", "ready", "provisioning", "warm", "fresh", "orphan"}
           \cup Terminal \cup Live \cup {"CREATED"},
     todo : SUBSET Deps, driven : SUBSET Deps, deleting : BOOLEAN]

Free == [pc |-> "idle", dep |-> NoDep, node |-> NoNode, saw |-> "none",
         todo |-> {}, driven |-> {}, deleting |-> FALSE]

\* Every variable keeps its type: the rows, the tasks and the counters.
TypeOK ==
    /\ dep \in [Deps -> DepRecord]
    /\ inv \in [Nodes -> NodeRecord]
    /\ task \in [Tasks -> TaskRecord]
    /\ asked \in 0 .. MaxAsked
    /\ injected \subseteq Faults

Init ==
    /\ dep = [d \in Deps |-> [state |-> "none", node |-> NoNode]]
    /\ inv = [n \in Nodes |-> [state |-> "absent", terminating |-> FALSE,
                               alloc |-> 0, job |-> "none", agent |-> "none"]]
    /\ task = [k \in Tasks |-> Free]
    /\ asked = 0
    /\ injected = {}

Inject(f) ==
    /\ f \in Faults \ injected
    /\ Cardinality(injected) < MaxFaults
    /\ injected' = injected \cup {f}

Ask ==
    /\ asked < MaxAsked
    /\ asked' = asked + 1

Goto(k, pc) == task' = [task EXCEPT ![k].pc = pc]
Finish(k) == task' = [task EXCEPT ![k] = Free]
Begin(k, t) == task[k].pc = "idle" /\ task' = [task EXCEPT ![k] = t]

Gpus(d) == IF d \in CpuOnly THEN 0 ELSE 1

Stored(d) == dep[d].state \notin {"none", "deleted"}
Present(n) == n \in Nodes /\ inv[n].state \notin {"absent", "purged"}

(* A mutant: rows are selected without FOR UPDATE. *)
NeverLocked(n) == FALSE

\* The placer's SELECT ... FOR UPDATE holds the row until its transaction
\* ends; every other UPDATE of the row waits for that.
Locked(n) == \E k \in Tasks : task[k].pc = "bind" /\ task[k].node = n

\* An UPDATE of a deployment that has been deleted matches no row.
SetDep(d, state, n) ==
    dep' = IF Stored(d)
           THEN [dep EXCEPT ![d] = [state |-> state, node |-> n]] ELSE dep

SetState(d, state) == SetDep(d, state, dep[d].node)

Usable(n) == inv[n].state \in {"ready", "provisioning"} /\ ~inv[n].terminating

\* allocate_gpu: without room nothing is allocated.
HasRoom(n, count) == Usable(n) /\ inv[n].alloc + count <= GpuTotal

Allocate(n, count) ==
    inv' = IF HasRoom(n, count)
           THEN [inv EXCEPT ![n].alloc = @ + count] ELSE inv

\* release_gpu: an underflow changes nothing and never asks for a destroy.
CanRelease(n, count) == Present(n) /\ inv[n].alloc >= count

(* A mutant: no floor at zero. *)
ReleaseBlindly(n, count) ==
    /\ ~Locked(n)
    /\ inv' = IF Present(n) THEN [inv EXCEPT ![n].alloc = @ - count] ELSE inv

Release(n, count) ==
    /\ ~Locked(n)
    /\ inv' = IF CanRelease(n, count)
              THEN [inv EXCEPT ![n].alloc = @ - count] ELSE inv

\* release_gpu's verdict: the last reference is gone, and no live deployment
\* other than the one just terminated targets the node.
ShouldDestroy(n, d) ==
    /\ CanRelease(n, Gpus(d))
    /\ inv[n].alloc = Gpus(d)
    /\ \A e \in Deps \ {d} : dep[e].node = n => dep[e].state \notin Live

\* The count that terminate and delete make before they destroy the node of a
\* deployment that is already terminal.
Others(n, d) ==
    {e \in Deps \ {d} : dep[e].node = n /\ dep[e].state \in Live \cup {"CREATED"}}

(* A mutant: terminal deployments keep their purged node. *)
PurgeLiveDeps(n) ==
    dep' = [d \in Deps |->
              IF dep[d].node # n \/ dep[d].state \in Terminal THEN dep[d]
              ELSE [state |-> "FAILED", node |-> NoNode]]

\* purge_node: bound deployments are failed unless terminal, all are unbound.
PurgeDeps(n) ==
    dep' = [d \in Deps |->
              IF dep[d].node # n THEN dep[d]
              ELSE [state |-> IF dep[d].state \in Terminal THEN dep[d].state
                                                           ELSE "FAILED",
                    node |-> NoNode]]

-----------------------------------------------------------------------------
(* The requests.                                                            *)

\* POST /deploy inserts the row in CREATED and goes on to place it.
Deploy(k, d) ==
    /\ dep[d].state = "none"
    /\ Begin(k, [Free EXCEPT !.pc = "decide", !.dep = d])
    /\ dep' = [dep EXCEPT ![d].state = "CREATED"]
    /\ UNCHANGED <<inv, asked, injected>>

(* A mutant: the lock on a row is not respected. *)
CandidatesUnlocked(d) == {n \in Nodes : HasRoom(n, Gpus(d))}

Candidates(d) == {n \in Nodes : HasRoom(n, Gpus(d)) /\ ~Locked(n)}

\* ORDER BY ready first, then the fewest free GPUs.
Better(n, m) ==
    \/ inv[n].state = "ready" /\ inv[m].state # "ready"
    \/ inv[n].state = inv[m].state /\ inv[n].alloc > inv[m].alloc

Best(d) == {n \in Candidates(d) : \A m \in Candidates(d) : ~Better(m, n)}

\* PoolPlacer.place: lock a node with room, skipping the rows other placers
\* have locked; failing that, start a new node unless the pool is full.  The
\* count and the insert that follows it hold no lock.
Decide(k) ==
    /\ task[k].pc = "decide"
    /\ LET d == task[k].dep
       IN \/ \E n \in Best(d) :
               task' = [task EXCEPT ![k].pc = "bind", ![k].node = n,
                                    ![k].saw = inv[n].state]
          \/ /\ Candidates(d) = {}
             /\ Goto(k, IF Cardinality({n \in Nodes : Usable(n)}) < MaxNodes
                        THEN "cold" ELSE "abort")
    /\ UNCHANGED <<dep, inv, asked, injected>>

\* BindToReady and CoWaitOnProvisioning: allocate, bind and set the state,
\* without looking at the deployment's current state.  The code's second try
\* when allocate_gpu finds no room is left out: RoomHeld says it never runs.
Bind(k) ==
    /\ task[k].pc = "bind"
    /\ LET d == task[k].dep
           n == task[k].node
       IN /\ Allocate(n, Gpus(d))
          /\ \/ /\ task[k].saw = "ready"
                /\ SetDep(d, "DEPLOYING", n)
                /\ task' = [task EXCEPT ![k].pc = "load", ![k].saw = "warm"]
             \/ /\ task[k].saw = "provisioning"
                /\ SetDep(d, "PENDING_NODE", n)
                /\ Finish(k)
    /\ UNCHANGED <<asked, injected>>

\* ColdStart: a placeholder with the GPUs already allocated.
CreatePlaceholder(k, n) ==
    /\ task[k].pc = "cold"
    /\ inv[n].state = "absent"
    /\ inv' = [inv EXCEPT ![n].state = "provisioning",
                          ![n].alloc = Gpus(task[k].dep)]
    /\ SetDep(task[k].dep, "PENDING_NODE", n)
    /\ task' = [task EXCEPT ![k].pc = "enqueue", ![k].node = n]
    /\ UNCHANGED <<asked, injected>>

\* A statement of the transaction raises: it is rolled back.
PlaceRaises(k) ==
    /\ Inject("place")
    /\ task[k].pc \in {"decide", "bind", "cold"}
    /\ task' = [task EXCEPT ![k].pc = "abort", ![k].node = NoNode]
    /\ UNCHANGED <<dep, inv, asked>>

\* PoolAtCapacity, or any exception of the placement; a bound of the model:
\* the insert of a placeholder raises once all of Nodes have been used.
Abort(k) ==
    /\ \/ task[k].pc = "abort"
       \/ task[k].pc = "cold" /\ \A n \in Nodes : inv[n].state # "absent"
    /\ SetState(task[k].dep, "FAILED")
    /\ Finish(k)
    /\ UNCHANGED <<inv, asked, injected>>

EnqueueJob(k) ==
    /\ task[k].pc = "enqueue"
    /\ Present(task[k].node)
    /\ ~Locked(task[k].node)
    /\ inv' = [inv EXCEPT ![task[k].node].job = "live"]
    /\ Finish(k)
    /\ UNCHANGED <<dep, asked, injected>>

\* The insert raises, by itself or because the row is gone: the GPU is
\* released and the deployment failed; the placeholder stays.
EnqueueFails(k) ==
    /\ task[k].pc = "enqueue"
    /\ \/ Present(task[k].node) /\ Inject("enqueue")
       \/ ~Present(task[k].node) /\ UNCHANGED injected
    /\ Release(task[k].node, Gpus(task[k].dep))
    /\ SetState(task[k].dep, "FAILED")
    /\ Finish(k)
    /\ UNCHANGED asked

\* The warm path awaits the worker's load: RUNNING, whatever the deployment
\* has become during it.  The endpoint it then publishes is a value of the
\* node's row.
WarmLoadSucceeds(k) ==
    /\ task[k].pc = "load" /\ task[k].saw = "warm"
    /\ inv[task[k].node].agent = "connected"
    /\ SetState(task[k].dep, "RUNNING")
    /\ Finish(k)
    /\ UNCHANGED <<inv, asked, injected>>

\* The worker reports a failure, or load_model raises for want of a channel.
WarmLoadFails(k) ==
    /\ task[k].pc = "load" /\ task[k].saw = "warm"
    /\ \/ inv[task[k].node].agent = "connected" /\ Inject("load")
       \/ inv[task[k].node].agent # "connected" /\ UNCHANGED injected
    /\ Release(task[k].node, Gpus(task[k].dep))
    /\ SetState(task[k].dep, "FAILED")
    /\ Finish(k)
    /\ UNCHANGED asked

\* terminate_deployment_core reads the row, and for a loaded model awaits the
\* worker's unload before it goes on.
Terminate(k, d) ==
    /\ Ask
    /\ Stored(d)
    /\ Begin(k, [Free EXCEPT !.pc = "terminate", !.dep = d,
                             !.node = dep[d].node, !.saw = dep[d].state])
    /\ UNCHANGED <<dep, inv, injected>>

\* The deployment was terminal: destroy the node that only it may still own.
TerminateTerminal(k) ==
    /\ task[k].pc = "terminate"
    /\ task[k].saw \in Terminal
    /\ \/ /\ Present(task[k].node)
          /\ Others(task[k].node, task[k].dep) = {}
          /\ Goto(k, "destroy")
       \/ /\ \/ ~Present(task[k].node)
             \/ Others(task[k].node, task[k].dep) # {}
          /\ Finish(k)
    /\ UNCHANGED <<dep, inv, asked, injected>>

\* Otherwise TERMINATED is claimed from the state read before; the winner
\* unbinds, and releases the GPU on the node read before.
TerminateClaim(k) ==
    /\ task[k].pc = "terminate"
    /\ task[k].saw \notin Terminal
    /\ LET d == task[k].dep
           n == task[k].node
       IN \/ /\ dep[d].state = task[k].saw
             /\ SetDep(d, "TERMINATED", NoNode)
             /\ \/ /\ n \in Nodes /\ Gpus(d) > 0
                   /\ Release(n, Gpus(d))
                   /\ IF ShouldDestroy(n, d) THEN Goto(k, "destroy")
                                             ELSE Finish(k)
                \/ /\ n = NoNode \/ Gpus(d) = 0
                   /\ Finish(k)
                   /\ UNCHANGED inv
          \/ /\ dep[d].state # task[k].saw
             /\ Finish(k)
             /\ UNCHANGED <<dep, inv>>
    /\ UNCHANGED <<asked, injected>>

SetFlag(n, flag) ==
    /\ ~Locked(n)
    /\ inv' = IF Present(n) THEN [inv EXCEPT ![n].terminating = flag] ELSE inv

\* _initiate_node_destroy: the flag, then force_cancel.
InitiateDestroy(k) ==
    /\ task[k].pc = "destroy"
    /\ SetFlag(task[k].node, TRUE)
    /\ Goto(k, "cancel")
    /\ UNCHANGED <<dep, asked, injected>>

Cancelled(n) ==
    IF inv[n].job = "none" THEN inv
    ELSE [inv EXCEPT ![n].job = "cancelling"]

\* What a request does once its node's destroy has been started.
AfterDestroy(k) ==
    IF task[k].deleting THEN Goto(k, "drop_row") ELSE Finish(k)

ForceCancel(k) ==
    /\ task[k].pc = "cancel"
    /\ inv' = Cancelled(task[k].node)
    /\ AfterDestroy(k)
    /\ UNCHANGED <<dep, asked, injected>>

\* force_cancel raises: the flag is stripped.
ForceCancelFails(k) ==
    /\ Inject("cancel")
    /\ task[k].pc = "cancel"
    /\ SetFlag(task[k].node, FALSE)
    /\ AfterDestroy(k)
    /\ UNCHANGED <<dep, asked>>

\* DELETE /nodes/{id} cancels first and flags afterwards; a node without a
\* job is only marked terminated.
DeleteNode(k, n) ==
    /\ Ask
    /\ Present(n) /\ ~Locked(n)
    /\ \/ /\ inv[n].job # "none"
          /\ inv' = Cancelled(n)
          /\ Begin(k, [Free EXCEPT !.pc = "flag", !.node = n])
       \/ /\ inv[n].job = "none"
          /\ inv' = [inv EXCEPT ![n].state = "terminated"]
          /\ UNCHANGED task
    /\ UNCHANGED <<dep, injected>>

MarkTerminating(k) ==
    /\ task[k].pc = "flag"
    /\ SetFlag(task[k].node, TRUE)
    /\ Finish(k)
    /\ UNCHANGED <<dep, asked, injected>>

\* POST /start: only a terminal deployment, as read here.
Start(k, d) ==
    /\ Ask
    /\ dep[d].state \in Terminal
    /\ Begin(k, [Free EXCEPT !.pc = "reset", !.dep = d])
    /\ UNCHANGED <<dep, inv, injected>>

\* ... is unbound and reset to CREATED, whatever it has become.
StartReset(k) ==
    /\ task[k].pc = "reset"
    /\ SetDep(task[k].dep, "CREATED", NoNode)
    /\ Goto(k, "decide")
    /\ UNCHANGED <<inv, asked, injected>>

\* DELETE /delete/{id}: a terminal deployment, or one not yet placed.
Delete(k, d) ==
    /\ Ask
    /\ \/ dep[d].state \in Terminal
       \/ dep[d].state = "CREATED" /\ dep[d].node = NoNode
    /\ Begin(k, [Free EXCEPT !.pc = "delete", !.dep = d,
                             !.node = dep[d].node, !.deleting = TRUE])
    /\ UNCHANGED <<dep, inv, injected>>

\* The node goes first, unless another deployment needs it.
DeleteTeardown(k) ==
    /\ task[k].pc = "delete"
    /\ \/ /\ Present(task[k].node)
          /\ Others(task[k].node, task[k].dep) = {}
          /\ Goto(k, "destroy")
       \/ /\ \/ ~Present(task[k].node)
             \/ Others(task[k].node, task[k].dep) # {}
          /\ Goto(k, "drop_row")
    /\ UNCHANGED <<dep, inv, asked, injected>>

\* The row is dropped without looking at its state again.
DropRow(k) ==
    /\ task[k].pc = "drop_row"
    /\ SetDep(task[k].dep, "deleted", NoNode)
    /\ Finish(k)
    /\ UNCHANGED <<inv, asked, injected>>
=============================================================================
