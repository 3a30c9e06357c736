---------------------------- MODULE Deployments -----------------------------
(***************************************************************************)
(* Placement, loading and termination of deployments on the nodes of a     *)
(* pool: a node's life as placement sees it, the linker task that every    *)
(* worker channel starts, and load_model, awaited by the linker and by a   *)
(* warm placement, composed with the requests of DeploymentApi; and what   *)
(* must hold of them.                                                      *)
(***************************************************************************)
EXTENDS DeploymentApi, TLC

\* The agent registers: upsert_worker replaces the row's metadata, and with
\* it the terminating flag.
Register(n) ==
    /\ inv[n].job # "none" /\ inv[n].agent = "none"
    /\ ~Locked(n)
    /\ inv' = [inv EXCEPT ![n].agent = "registered", ![n].terminating = FALSE]
    /\ UNCHANGED <<dep, task, asked, injected>>

\* worker_channel: refused on a terminated row; mark_ready_worker, then the
\* linker in a task of its own.
OpenChannel(k, n) ==
    /\ inv[n].agent = "registered" /\ inv[n].state # "terminated"
    /\ ~Locked(n)
    /\ inv' = [inv EXCEPT ![n].agent = "connected",
                          ![n].state = IF @ = "provisioning" THEN "ready"
                                                             ELSE @]
    /\ Begin(k, [Free EXCEPT !.pc = "link", !.node = n])
    /\ UNCHANGED <<dep, asked, injected>>

DropChannel(n) ==
    /\ Inject("drop")
    /\ inv[n].agent = "connected"
    /\ inv' = [inv EXCEPT ![n].agent = "registered"]
    /\ UNCHANGED <<dep, task, asked>>

Waiting(n) == {d \in Deps : dep[d] = [state |-> "PENDING_NODE", node |-> n]}

\* on_worker_ready: the deployments waiting for this node become DEPLOYING in
\* one transaction, and are driven one by one after it.  The branch for a
\* waiting deployment without a node is left out: BindingSound says there is
\* none.
Link(k) ==
    /\ task[k].pc = "link"
    /\ LET n == task[k].node
       IN \/ /\ Present(n)
             /\ dep' = [d \in Deps |->
                          IF d \in Waiting(n)
                          THEN [dep[d] EXCEPT !.state = "DEPLOYING"]
                          ELSE dep[d]]
             /\ task' = [task EXCEPT ![k].pc = "drive", ![k].saw = "fresh",
                                     ![k].todo = Waiting(n)]
          \/ /\ ~Present(n)
             /\ Finish(k)
             /\ UNCHANGED dep
    /\ UNCHANGED <<inv, asked, injected>>

Drive(k) ==
    /\ task[k].pc = "drive"
    /\ \E d \in task[k].todo :
         task' = [task EXCEPT ![k].pc = "load", ![k].dep = d,
                              ![k].todo = @ \ {d},
                              ![k].driven = @ \cup {d}]
    /\ UNCHANGED <<dep, inv, asked, injected>>

Orphans(k) ==
    {d \in Deps : dep[d] = [state |-> "DEPLOYING", node |-> task[k].node]}
    \ task[k].driven

(* A mutant: what else is DEPLOYING is not driven again. *)
ForgetOrphans(k) ==
    /\ task[k].pc = "drive" /\ task[k].todo = {}
    /\ Finish(k)
    /\ UNCHANGED <<dep, inv, asked, injected>>

\* Then whatever else is DEPLOYING on the node is driven again: its load is
\* taken to have died with an earlier control plane.
ListOrphans(k) ==
    /\ task[k].pc = "drive" /\ task[k].todo = {}
    /\ \/ /\ task[k].saw = "fresh"
          /\ task' = [task EXCEPT ![k].saw = "orphan", ![k].todo = Orphans(k)]
       \/ /\ task[k].saw = "orphan"
          /\ Finish(k)
    /\ UNCHANGED <<dep, inv, asked, injected>>

AfterLoad(k) == task' = [task EXCEPT ![k].pc = "drive", ![k].dep = NoDep]

\* The worker has loaded the model: RUNNING, whatever the deployment has
\* become during the load.
LoadSucceeds(k) ==
    /\ task[k].pc = "load" /\ task[k].saw # "warm"
    /\ inv[task[k].node].agent = "connected"
    /\ SetState(task[k].dep, "RUNNING")
    /\ AfterLoad(k)
    /\ UNCHANGED <<inv, asked, injected>>

\* What a failed load gives back: the linker reads a missing gpu_per_replica,
\* and a 0, as one GPU.
LoadCharge == 1

\* The worker reports a failure or cannot be reached: the GPU is released and
\* the deployment FAILED, whatever it has become; it stays bound.
LoadFails(k) ==
    /\ task[k].pc = "load" /\ task[k].saw # "warm"
    /\ \/ inv[task[k].node].agent = "connected" /\ Inject("load")
       \/ inv[task[k].node].agent # "connected" /\ UNCHANGED injected
    /\ Release(task[k].node, LoadCharge)
    /\ SetState(task[k].dep, "FAILED")
    /\ AfterLoad(k)
    /\ UNCHANGED asked

\* The reconciler sees the worker ready, or gives the node up.
BootstrapDone(n) ==
    /\ inv[n].job = "live" /\ inv[n].state = "ready"
    /\ inv' = [inv EXCEPT ![n].job = "done"]
    /\ UNCHANGED <<dep, task, asked, injected>>

ProvisioningFails(n) ==
    /\ inv[n].job = "live"
    /\ ~Locked(n)
    /\ inv' = [inv EXCEPT ![n].job = "reporting", ![n].state = "failed"]
    /\ UNCHANGED <<dep, task, asked, injected>>

\* fail_deployments_for_node: neither unbinds them nor releases their GPUs.
FailDeployments(n) ==
    /\ inv[n].job = "reporting"
    /\ dep' = [d \in Deps |->
                 IF dep[d].node = n
                    /\ dep[d].state \in {"PENDING_NODE", "DEPLOYING", "CREATED"}
                 THEN [dep[d] EXCEPT !.state = "FAILED"] ELSE dep[d]]
    /\ inv' = [inv EXCEPT ![n].job = "done"]
    /\ UNCHANGED <<task, asked, injected>>

\* The reconciler or the reaper has destroyed the node's stack.
PurgeNode(n) ==
    /\ Present(n) /\ ~Locked(n)
    /\ inv[n].job = "cancelling" \/ inv[n].terminating
    /\ inv' = [inv EXCEPT ![n] = [state |-> "purged", terminating |-> FALSE,
                                  alloc |-> 0, job |-> "none",
                                  agent |-> "none"]]
    /\ PurgeDeps(n)
    /\ UNCHANGED <<task, asked, injected>>

\* The control plane dies with its tasks and channels; what the reconciler
\* had still to report is lost with it.
Crash ==
    /\ Inject("crash")
    /\ task' = [k \in Tasks |-> Free]
    /\ inv' = [n \in Nodes |->
                 [inv[n] EXCEPT !.agent = IF @ = "connected" THEN "registered"
                                                             ELSE @,
                                !.job = IF @ = "reporting" THEN "done"
                                                           ELSE @]]
    /\ UNCHANGED <<dep, asked>>

-----------------------------------------------------------------------------
(* The composition.                                                        *)

Request(k) ==
    \/ \E d \in Deps : \/ Deploy(k, d)
                       \/ Terminate(k, d)
                       \/ Start(k, d)
                       \/ Delete(k, d)
    \/ \E n \in Nodes : DeleteNode(k, n)

\* The steps a task takes by itself once it has been started.
Proceed(k) ==
    \/ Decide(k)
    \/ Bind(k)
    \/ \E n \in Nodes : CreatePlaceholder(k, n)
    \/ Abort(k)
    \/ EnqueueJob(k)
    \/ EnqueueFails(k)
    \/ WarmLoadSucceeds(k)
    \/ WarmLoadFails(k)
    \/ TerminateTerminal(k)
    \/ TerminateClaim(k)
    \/ InitiateDestroy(k)
    \/ ForceCancel(k)
    \/ MarkTerminating(k)
    \/ StartReset(k)
    \/ DeleteTeardown(k)
    \/ DropRow(k)
    \/ Link(k)
    \/ Drive(k)
    \/ ListOrphans(k)
    \/ LoadSucceeds(k)
    \/ LoadFails(k)

Provision(n) ==
    \/ BootstrapDone(n)
    \/ ProvisioningFails(n)

Failure ==
    \/ \E k \in Tasks : PlaceRaises(k) \/ ForceCancelFails(k)
    \/ \E n \in Nodes : DropChannel(n)
    \/ Crash

Next ==
    \/ \E k \in Tasks : Request(k) \/ Proceed(k)
    \/ \E k \in Tasks, n \in Nodes : OpenChannel(k, n)
    \/ \E n \in Nodes : \/ Register(n)
                        \/ Provision(n)
                        \/ FailDeployments(n)
                        \/ PurgeNode(n)
    \/ Failure

Spec == Init /\ [][Next]_vars

Fairness ==
    /\ \A k \in Tasks : WF_vars(Proceed(k))
    /\ \A n \in Nodes : /\ WF_vars(\E k \in Tasks : OpenChannel(k, n))
                        /\ WF_vars(Provision(n))
                        /\ WF_vars(FailDeployments(n))
                        /\ WF_vars(PurgeNode(n))

FairSpec == Spec /\ Fairness

-----------------------------------------------------------------------------
\* gpu_allocated stays between 0 and gpu_total, whatever placements,
\* terminations and failed loads race, although a failed load may release a
\* GPU that a termination has released already.
GpuWithinCapacity == \A n \in Nodes : inv[n].alloc \in 0 .. GpuTotal

\* The node a placer has chosen keeps its room until the placer's transaction
\* ends, whatever other placers, terminations, failures and purges do: so the
\* second try after a lost race in place_and_provision is dead code, and the
\* result of allocate_gpu that the co-waiting branch ignores is always true.
RoomHeld ==
    \A k \in Tasks :
      task[k].pc = "bind" => HasRoom(task[k].node, Gpus(task[k].dep))

\* A deployment never points at a node that does not exist, which purge_node
\* must ensure against the foreign key, with placers and requests under way;
\* and one that waits or loads always has a node, so that the linker finds it.
BindingSound ==
    \A d \in Deps :
      /\ dep[d].node # NoNode => Present(dep[d].node)
      /\ dep[d].state \in {"PENDING_NODE", "DEPLOYING"} => dep[d].node # NoNode

\* Unless the control plane crashes or the insert of the job fails, a
\* deployment does not wait for a node forever: the row lock orders every
\* co-waiting deployment before the node's mark_ready and failure report.
PendingSettles ==
    \A d \in Deps : dep[d].state = "PENDING_NODE"
                    ~> \/ dep[d].state # "PENDING_NODE"
                       \/ injected \cap {"crash", "enqueue"} # {}

\* No deployment stays DEPLOYING, even if the control plane dies during its
\* load: the worker comes back, and the linker drives orphaned loads again.
DeployingSettles ==
    \A d \in Deps : dep[d].state = "DEPLOYING" ~> dep[d].state # "DEPLOYING"

\* A deployment that was asked for comes to rest: it waits neither for its node
\* nor for its load forever.
DeploymentsSettle == PendingSettles /\ DeployingSettles

-----------------------------------------------------------------------------
Needed(n) == Cardinality({d \in Deps \ CpuOnly :
                            dep[d].node = n /\ dep[d].state \in Live})

\* What the linker says of its rollback: "release GPU + mark FAILED in one txn
\* so a partial failure can't leave gpu_allocated out of sync with state".  A
\* node's gpu_allocated covers the deployments that live on it.
GpuInSync == \A n \in Nodes : inv[n].alloc >= Needed(n)

-----------------------------------------------------------------------------
\* Nodes and tasks are interchangeable; the run that checks liveness does
\* without symmetry.
Symmetry == Permutations(Nodes) \cup Permutations(Tasks)
=============================================================================
