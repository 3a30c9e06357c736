------------------------------- MODULE Dispatch -------------------------------
(***************************************************************************)
(* The event-driven deployment path: the gRPC controller writes the row    *)
(* and publishes an event (model_deployment/controller.py), the Redis      *)
(* stream delivers it once (infra/redis_event_bus.py), the dispatcher runs *)
(* a handler per event behind a semaphore (server.py, worker_main.py), and *)
(* the handlers drive the provider (model_deployment/worker.py).           *)
(*                                                                         *)
(* A handler awaits between reads and writes, so one step is what happens  *)
(* between two awaits that another handler can observe.  The kind of a     *)
(* deployment is that of its pool: "cluster" (a service on a standing      *)
(* cluster), "ephemeral" (Nosana, Akash: one job per deployment),          *)
(* "persistent" (k8s: nodes outlive the deployment) and "managed" (nodes   *)
(* of the pool-first reconciler, which this path may place on, never       *)
(* provision).                                                             *)
(***************************************************************************)
EXTENDS Naturals, FiniteSets

CONSTANTS
    Deps,       \* deployments
    Kinds,      \* the kinds of pool they may be created in
    Deletes,    \* delete requests per deployment
    Slots,      \* MAX_CONCURRENT_DEPLOYS
    MaxRetries, \* MAX_PROVISION_RETRIES
    MaxCrashes  \* bound on process crashes

VARIABLES
    dep,        \* the deployment row: state, recorded instance and allocation
    ext,        \* provider instances (or the cluster service) running for it
    alloc,      \* deployments that hold a live scheduler allocation
    ev,         \* the deploy event: "none", "unsent", "queued", "taken", "over"
    dh,         \* the deploy handler: position, attempt, last instance it made
    th,         \* the handler of each delete request, with what it read
    health,     \* the health check's look at a deployment
    started,    \* deployments restarted with StartDeployment
    cause,      \* why a deployment may hold resources after its end
    crashes

vars == <<dep, ext, alloc, ev, dh, th, health, started, cause, crashes>>

Ended == {"STOPPED", "TERMINATED", "FAILED"}
States == Ended \union {"none", "PENDING", "PROVISIONING", "SCHEDULED", "RUNNING", "TERMINATING"}
Causes == {"crash", "cleanup", "overwrote", "service", "replaced", "unhealthy", "managed"}

TypeOK ==
    /\ dep \in [Deps -> [st : States, kind : Kinds, node : 0..MaxRetries + 1, alloc : BOOLEAN]]
    /\ ext \in [Deps -> SUBSET (1..MaxRetries + 1)]
    /\ alloc \subseteq Deps
    /\ ev \in [Deps -> {"none", "unsent", "queued", "taken", "over"}]
    /\ dh \in [Deps -> [at : {"off", "cas", "service", "up", "look", "wait", "check", "attach",
                              "attached", "place", "allocate", "load", "bind", "bound",
                              "fail", "failread", "failwrite"},
                        try : 0..MaxRetries, made : 0..MaxRetries + 1]]
    /\ th \in [Deps \X Deletes ->
                [at : {"none", "unsent", "queued", "taken", "stop", "release", "final", "core", "over"},
                 node : 0..MaxRetries + 1, alloc : BOOLEAN, err : BOOLEAN]]
    /\ health \in [Deps -> {"idle", "read", "over"}]
    /\ started \subseteq Deps
    /\ cause \in [Deps -> SUBSET Causes]
    /\ crashes \in 0..MaxCrashes

Init ==
    /\ dep \in [Deps -> [st : {"none"}, kind : Kinds, node : {0}, alloc : {FALSE}]]
    /\ ext = [d \in Deps |-> {}]
    /\ alloc = {}
    /\ ev = [d \in Deps |-> "none"]
    /\ dh = [d \in Deps |-> [at |-> "off", try |-> 0, made |-> 0]]
    /\ th = [x \in Deps \X Deletes |-> [at |-> "none", node |-> 0, alloc |-> FALSE, err |-> FALSE]]
    /\ health = [d \in Deps |-> "idle"]
    /\ started = {}
    /\ cause = [d \in Deps |-> {}]
    /\ crashes = 0

-----------------------------------------------------------------------------
(* update_state, unguarded.  A write over a requested or finished end is   *)
(* recorded as a cause.                                                    *)
UpdateState(d, s) ==
    /\ dep' = [dep EXCEPT ![d].st = s]
    /\ cause' = IF dep[d].st \in Ended \union {"TERMINATING"}
                THEN [cause EXCEPT ![d] = @ \union {"overwrote"}] ELSE cause

Busy == {d \in Deps : dh[d].at # "off"}
BusyT == {x \in Deps \X Deletes : th[x].at \in {"stop", "release", "final", "core"}}
SlotFree == Cardinality(Busy) + Cardinality(BusyT) < Slots

At(d, from) == dh[d].at = from
Go(d, to) == dh' = [dh EXCEPT ![d].at = to]
(* The handler returns: the event is acknowledged and the slot is free. *)
Return(d) == dh' = [dh EXCEPT ![d].at = "off"] /\ ev' = [ev EXCEPT ![d] = "over"]

Rest == <<th, health, started, crashes>>

-----------------------------------------------------------------------------
(* The controller. *)

(* deploy_model: the row is committed, then the event is published. *)
DeployModel(d) ==
    /\ dep[d].st = "none"
    /\ dep' = [dep EXCEPT ![d].st = "PENDING"]
    /\ ev' = [ev EXCEPT ![d] = "unsent"]
    /\ UNCHANGED <<ext, alloc, dh, cause>> /\ UNCHANGED Rest

PublishDeploy(d) ==
    /\ ev[d] = "unsent"
    /\ ev' = [ev EXCEPT ![d] = "queued"]
    /\ UNCHANGED <<dep, ext, alloc, dh, cause>> /\ UNCHANGED Rest

(* request_delete: TERMINATING whatever the state is, unless it is already *)
(* there; the event follows the commit.                                    *)
RequestDelete(d, k) ==
    /\ th[d, k].at = "none"
    /\ dep[d].st \notin {"none", "TERMINATED", "TERMINATING"}
    /\ dep' = [dep EXCEPT ![d].st = "TERMINATING"]
    /\ th' = [th EXCEPT ![d, k].at = "unsent"]
    /\ UNCHANGED <<ext, alloc, ev, dh, health, started, cause, crashes>>

PublishTerminate(d, k) ==
    /\ th[d, k].at = "unsent"
    /\ th' = [th EXCEPT ![d, k].at = "queued"]
    /\ UNCHANGED <<dep, ext, alloc, ev, dh, health, started, cause, crashes>>

(* start_deployment: back to PENDING and no event; placement is left to    *)
(* the HTTP route.                                                         *)
StartDeployment(d) ==
    /\ dep[d].st \in Ended
    /\ d \notin started
    /\ dep' = [dep EXCEPT ![d].st = "PENDING"]
    /\ started' = started \union {d}
    /\ UNCHANGED <<ext, alloc, ev, dh, th, health, cause, crashes>>

-----------------------------------------------------------------------------
(* The stream and the dispatcher. *)

ConsumeDeploy(d) ==
    /\ ev[d] = "queued"
    /\ ev' = [ev EXCEPT ![d] = "taken"]
    /\ UNCHANGED <<dep, ext, alloc, dh, cause>> /\ UNCHANGED Rest

ConsumeTerminate(d, k) ==
    /\ th[d, k].at = "queued"
    /\ th' = [th EXCEPT ![d, k].at = "taken"]
    /\ UNCHANGED <<dep, ext, alloc, ev, dh, health, started, cause, crashes>>

-----------------------------------------------------------------------------
(* handle_deploy_requested. *)


(* Only a PENDING deployment is taken, by compare-and-set. *)
Begin(d) ==
    /\ ev[d] = "taken" /\ At(d, "off") /\ SlotFree
    /\ IF dep[d].st = "PENDING"
       THEN /\ dep' = [dep EXCEPT ![d].st = "PROVISIONING"]
            /\ Go(d, IF dep[d].kind = "cluster" THEN "cas" ELSE "look")
            /\ UNCHANGED ev
       ELSE Return(d) /\ UNCHANGED dep
    /\ UNCHANGED <<ext, alloc, cause>> /\ UNCHANGED Rest

(* The cluster path writes PROVISIONING again, unguarded. *)
ClusterProvisioning(d) ==
    /\ At(d, "cas")
    /\ UpdateState(d, "PROVISIONING")
    /\ Go(d, "service")
    /\ UNCHANGED <<ext, alloc, ev>> /\ UNCHANGED Rest

(* deploy_service; any later failure of the cluster path writes FAILED and *)
(* leaves the service it started.                                          *)
DeployService(d) ==
    /\ At(d, "service")
    /\ \/ ext' = [ext EXCEPT ![d] = {1}] /\ Go(d, "up") /\ UNCHANGED <<dep, cause, ev>>
       \/ UpdateState(d, "FAILED") /\ Return(d) /\ UNCHANGED ext
    /\ UNCHANGED alloc /\ UNCHANGED Rest

ClusterAttach(d) ==
    /\ At(d, "up")
    /\ \/ /\ dep' = [dep EXCEPT ![d].node = 1]
          /\ Go(d, "attached") /\ UNCHANGED <<ev, cause>>
       \/ /\ dep' = [dep EXCEPT ![d].st = "FAILED"]
          /\ cause' = [cause EXCEPT ![d] = @ \union {"service"}]
          /\ Return(d)
    /\ UNCHANGED <<ext, alloc>> /\ UNCHANGED Rest

(* One round of the capacity loop: candidates are there, or the attempts   *)
(* are used up, or the provider is fenced off or the job has no definition *)
(* (FAILED in each case), or a node is provisioned, or the adapter only    *)
(* simulates one, or it raises.                                            *)
Look(d) ==
    /\ At(d, "look")
    /\ \/ Go(d, "place") /\ UNCHANGED <<dep, ext, ev, cause>>
       \/ /\ dh[d].try \in {0, MaxRetries}
          /\ UpdateState(d, "FAILED") /\ Return(d) /\ UNCHANGED ext
       \/ /\ dep[d].kind # "managed" /\ dh[d].try < MaxRetries
          /\ dh' = [dh EXCEPT ![d].at = "wait", ![d].made = dh[d].try + 1]
          /\ ext' = [ext EXCEPT ![d] = @ \union {dh[d].try + 1}]
          /\ UNCHANGED <<dep, ev, cause>>
       \/ /\ dep[d].kind # "managed" /\ dh[d].try < MaxRetries
          /\ \/ Go(d, "fail") /\ UNCHANGED <<dep, ev, cause>>
             \/ UpdateState(d, "RUNNING") /\ Return(d)
          /\ UNCHANGED ext
    /\ UNCHANGED alloc /\ UNCHANGED Rest

(* wait_for_ready answers or raises (timeout, dead instance). *)
WaitReady(d) ==
    /\ At(d, "wait")
    /\ Go(d, "check") \/ Go(d, "fail")
    /\ UNCHANGED <<dep, ext, alloc, ev, cause>> /\ UNCHANGED Rest

(* A best-effort deprovision of an instance. *)
Deprovision(d, i) ==
    \/ ext' = [ext EXCEPT ![d] = @ \ {i}] /\ UNCHANGED cause
    \/ cause' = [cause EXCEPT ![d] = @ \union {"cleanup"}] /\ UNCHANGED ext

(* A mutant: the state is not read again after provisioning. *)
SafetyUnchecked(d) ==
    /\ At(d, "check")
    /\ Go(d, "attach") /\ UNCHANGED <<ext, cause, ev>>
    /\ UNCHANGED <<dep, alloc>> /\ UNCHANGED Rest

(* The safety check: cancelled during provisioning, so give it back. *)
SafetyCheck(d) ==
    /\ At(d, "check")
    /\ IF dep[d].st = "PROVISIONING"
       THEN Go(d, "attach") /\ UNCHANGED <<ext, cause, ev>>
       ELSE Deprovision(d, dh[d].made) /\ Return(d)
    /\ UNCHANGED <<dep, alloc>> /\ UNCHANGED Rest

(* register_node and attach_runtime; either may raise. *)
AttachRuntime(d) ==
    /\ At(d, "attach")
    /\ \/ dep' = [dep EXCEPT ![d].node = dh[d].made] /\ Go(d, "attached")
       \/ Go(d, "fail") /\ UNCHANGED dep
    /\ UNCHANGED <<ext, alloc, ev, cause>> /\ UNCHANGED Rest

(* RUNNING, unguarded; a persistent node's handler goes round the loop     *)
(* again and looks for candidates.                                         *)
WriteRunning(d) ==
    /\ At(d, "attached")
    /\ UpdateState(d, "RUNNING")
    /\ IF dep[d].kind = "persistent"
       THEN dh' = [dh EXCEPT ![d].at = "look", ![d].try = @ + 1] /\ UNCHANGED ev
       ELSE Return(d)
    /\ UNCHANGED <<ext, alloc>> /\ UNCHANGED Rest

(* SCHEDULING and DEPLOYING, unguarded. *)
Place(d) ==
    /\ At(d, "place")
    /\ UpdateState(d, "SCHEDULED")
    /\ Go(d, "allocate")
    /\ UNCHANGED <<ext, alloc, ev>> /\ UNCHANGED Rest

Allocate(d) ==
    /\ At(d, "allocate")
    /\ \/ alloc' = alloc \union {d} /\ Go(d, "load")
       \/ Go(d, "fail") /\ UNCHANGED alloc
    /\ UNCHANGED <<dep, ext, ev, cause>> /\ UNCHANGED Rest

(* A mutant: a failed load keeps the allocation. *)
LoadKeepsAlloc(d) ==
    /\ At(d, "load")
    /\ Go(d, "bind") \/ Go(d, "fail")
    /\ UNCHANGED <<dep, ext, alloc, ev, cause>> /\ UNCHANGED Rest

(* The strategy loads the model or releases its allocation and raises; a   *)
(* release that fails is ignored.                                          *)
Load(d) ==
    /\ At(d, "load")
    /\ \/ Go(d, "bind") /\ UNCHANGED <<alloc, cause>>
       \/ alloc' = alloc \ {d} /\ Go(d, "fail") /\ UNCHANGED cause
       \/ cause' = [cause EXCEPT ![d] = @ \union {"cleanup"}] /\ Go(d, "fail") /\ UNCHANGED alloc
    /\ UNCHANGED <<dep, ext, ev>> /\ UNCHANGED Rest

(* attach_runtime records the node placed on, an instance of its own or    *)
(* another node of the pool, in place of what was recorded before.         *)
Bind(d) ==
    /\ At(d, "bind")
    /\ \E i \in ext[d] \union {0} :
         /\ dep' = [dep EXCEPT ![d].node = i, ![d].alloc = TRUE]
         /\ cause' = IF ext[d] \subseteq {i} THEN cause
                     ELSE [cause EXCEPT ![d] = @ \union {"replaced"}]
    /\ Go(d, "bound")
    /\ UNCHANGED <<ext, alloc, ev>> /\ UNCHANGED Rest

PlacedRunning(d) ==
    /\ At(d, "bound")
    /\ UpdateState(d, "RUNNING")
    /\ Return(d)
    /\ UNCHANGED <<ext, alloc>> /\ UNCHANGED Rest

(* The except branch: deprovision the last instance made, read the state,  *)
(* write FAILED unless an end was requested or reached.                    *)
FailCleanup(d) ==
    /\ At(d, "fail")
    /\ IF dh[d].made = 0 THEN UNCHANGED <<ext, cause>> ELSE Deprovision(d, dh[d].made)
    /\ Go(d, "failread")
    /\ UNCHANGED <<dep, alloc, ev>> /\ UNCHANGED Rest

(* A mutant: no failure is recorded. *)
FailReadQuiet(d) ==
    /\ At(d, "failread")
    /\ Return(d)
    /\ UNCHANGED <<dep, ext, alloc, cause>> /\ UNCHANGED Rest

FailRead(d) ==
    /\ At(d, "failread")
    /\ IF dep[d].st \in {"STOPPED", "TERMINATED", "TERMINATING"}
       THEN Return(d) ELSE Go(d, "failwrite") /\ UNCHANGED ev
    /\ UNCHANGED <<dep, ext, alloc, cause>> /\ UNCHANGED Rest

FailWrite(d) ==
    /\ At(d, "failwrite")
    /\ UpdateState(d, "FAILED")
    /\ Return(d)
    /\ UNCHANGED <<ext, alloc>> /\ UNCHANGED Rest

-----------------------------------------------------------------------------
(* handle_terminate_requested. *)

T(d, k, to) == th' = [th EXCEPT ![d, k].at = to]
TRest == <<ev, dh, health, started, crashes>>

(* Only a TERMINATING deployment is handled; the handler works from the    *)
(* row it read here.                                                       *)
TerminateBegin(d, k) ==
    /\ th[d, k].at = "taken" /\ SlotFree
    /\ th' = [th EXCEPT ![d, k] =
                 [at |-> IF dep[d].st # "TERMINATING" THEN "over"
                         ELSE IF dep[d].kind = "managed" THEN "core" ELSE "stop",
                  node |-> dep[d].node, alloc |-> dep[d].alloc, err |-> FALSE]]
    /\ UNCHANGED <<dep, ext, alloc, cause>> /\ UNCHANGED TRest

(* terminate_deployment_core on a row that has no target node: a guarded   *)
(* TERMINATED, and nothing to release that it knows of.                    *)
TerminateCore(d, k) ==
    /\ th[d, k].at = "core"
    /\ IF dep[d].st = "TERMINATING"
       THEN /\ dep' = [dep EXCEPT ![d].st = "TERMINATED"]
            /\ cause' = [cause EXCEPT ![d] = @ \union {"managed"}]
       ELSE UNCHANGED <<dep, cause>>
    /\ T(d, k, "over")
    /\ UNCHANGED <<ext, alloc>> /\ UNCHANGED TRest

(* Stop the recorded instance.  A failing stop_service is logged, a        *)
(* failing deprovision_node skips the release and ends in FAILED.          *)
StopRuntime(d, k) ==
    /\ th[d, k].at = "stop"
    /\ \/ /\ ext' = [ext EXCEPT ![d] = @ \ {th[d, k].node}]
          /\ T(d, k, "release") /\ UNCHANGED cause
       \/ /\ th[d, k].node # 0
          /\ cause' = [cause EXCEPT ![d] = @ \union {"cleanup"}]
          /\ IF dep[d].kind = "cluster" THEN T(d, k, "release")
             ELSE th' = [th EXCEPT ![d, k].at = "final", ![d, k].err = TRUE]
          /\ UNCHANGED ext
    /\ UNCHANGED <<dep, alloc>> /\ UNCHANGED TRest

(* Release the recorded allocations and hand the inventory row back. *)
ReleaseAllocations(d, k) ==
    /\ th[d, k].at = "release"
    /\ alloc' = IF th[d, k].alloc THEN alloc \ {d} ELSE alloc
    /\ T(d, k, "final")
    /\ UNCHANGED <<dep, ext, cause>> /\ UNCHANGED TRest

(* A mutant: the final state is written only when all went well. *)
WriteFinalIfClean(d, k) ==
    /\ th[d, k].at = "final"
    /\ dep' = IF th[d, k].err THEN dep ELSE [dep EXCEPT ![d].st = "STOPPED"]
    /\ T(d, k, "over")
    /\ UNCHANGED <<ext, alloc, cause>> /\ UNCHANGED TRest

(* The final state is always written, whatever the state is now. *)
WriteFinal(d, k) ==
    /\ th[d, k].at = "final"
    /\ dep' = [dep EXCEPT ![d].st = IF th[d, k].err THEN "FAILED" ELSE "STOPPED"]
    /\ T(d, k, "over")
    /\ UNCHANGED <<ext, alloc, cause>> /\ UNCHANGED TRest

-----------------------------------------------------------------------------
(* health_check_loop: a stale heartbeat fails the deployments of the node; *)
(* the state is read, then written.                                        *)
HealthRead(d) ==
    /\ health[d] = "idle"
    /\ dep[d].node # 0
    /\ health' = [health EXCEPT ![d] = IF dep[d].st \in Ended THEN "over" ELSE "read"]
    /\ UNCHANGED <<dep, ext, alloc, ev, dh, th, started, cause, crashes>>

HealthWrite(d) ==
    /\ health[d] = "read"
    /\ health' = [health EXCEPT ![d] = "over"]
    /\ dep' = [dep EXCEPT ![d].st = "FAILED"]
    /\ cause' = [cause EXCEPT ![d] = @ \union {"unhealthy"}]
    /\ UNCHANGED <<ext, alloc, ev, dh, th, started, crashes>>

(* A crash: running handlers are gone with the events they took, for the   *)
(* consumer group only reads new entries; events not yet published are     *)
(* gone too, for nothing runs the outbox.                                  *)
Crash ==
    /\ crashes < MaxCrashes
    /\ crashes' = crashes + 1
    /\ ev' = [d \in Deps |-> IF ev[d] \in {"unsent", "taken"} THEN "over" ELSE ev[d]]
    /\ dh' = [d \in Deps |-> [dh[d] EXCEPT !.at = "off"]]
    /\ th' = [x \in Deps \X Deletes |->
                [th[x] EXCEPT !.at = IF @ \in {"none", "queued"} THEN @ ELSE "over"]]
    /\ health' = [d \in Deps |-> IF health[d] = "read" THEN "over" ELSE health[d]]
    /\ cause' = [d \in Deps |-> IF dep[d].st = "none" THEN {} ELSE cause[d] \union {"crash"}]
    /\ UNCHANGED <<dep, ext, alloc, started>>

-----------------------------------------------------------------------------
DeployStep(d) ==
    \/ ClusterProvisioning(d) \/ DeployService(d) \/ ClusterAttach(d)
    \/ Look(d) \/ WaitReady(d) \/ SafetyCheck(d) \/ AttachRuntime(d) \/ WriteRunning(d)
    \/ Place(d) \/ Allocate(d) \/ Load(d) \/ Bind(d) \/ PlacedRunning(d)
    \/ FailCleanup(d) \/ FailRead(d) \/ FailWrite(d)

TerminateStep(d, k) ==
    TerminateCore(d, k) \/ StopRuntime(d, k) \/ ReleaseAllocations(d, k) \/ WriteFinal(d, k)

(* From the request to the queue, from the queue to a task, and its steps. *)
DeployRuns(d) == PublishDeploy(d) \/ ConsumeDeploy(d) \/ DeployStep(d)

TerminateRuns(d, k) ==
    PublishTerminate(d, k) \/ ConsumeTerminate(d, k) \/ TerminateStep(d, k)

Next ==
    \/ \E d \in Deps :
          \/ DeployModel(d) \/ DeployRuns(d) \/ Begin(d)
          \/ StartDeployment(d) \/ HealthRead(d) \/ HealthWrite(d)
    \/ \E d \in Deps, k \in Deletes :
          RequestDelete(d, k) \/ TerminateRuns(d, k) \/ TerminateBegin(d, k)
    \/ Crash

Spec == Init /\ [][Next]_vars

(* A coroutine that can go on does; the semaphore wakes its waiters in the *)
(* order they came, so a waiter that finds a slot free again and again     *)
(* gets one.                                                               *)
Fairness ==
    /\ \A d \in Deps :
         WF_vars(DeployRuns(d)) /\ SF_vars(Begin(d))
    /\ \A d \in Deps, k \in Deletes :
         WF_vars(TerminateRuns(d, k)) /\ SF_vars(TerminateBegin(d, k))

FairSpec == Spec /\ Fairness

-----------------------------------------------------------------------------
(* No handler runs for the deployment and no event of it is on the way. *)
Quiet(d) ==
    /\ ev[d] \in {"none", "over"} /\ At(d, "off")
    /\ \A k \in Deletes : th[d, k].at \in {"none", "over"}

(* When everything about a deployment has come to rest in an end state, an *)
(* instance runs that its row does not record, or any instance after a     *)
(* clean delete, only for a known reason: a crash, a failed clean-up, a    *)
(* cluster service abandoned by a failing deploy, a recorded node replaced *)
(* by the one placed on, or a delete or health check that met the deploy   *)
(* handler after its safety check and was overwritten.                     *)
InstanceLeakHasCause ==
    \A d \in Deps :
       /\ Quiet(d) /\ dep[d].st \in Ended
       /\ ext[d] \ {dep[d].node} # {} \/ (dep[d].st = "STOPPED" /\ ext[d] # {})
       => cause[d] \cap {"crash", "cleanup", "service", "replaced", "unhealthy", "overwrote"} # {}

(* The same for the scheduler allocation: besides crashes, failed          *)
(* clean-ups, the health check and overwritten deletes, only the gRPC      *)
(* delete of a reconciler-managed deployment keeps it.                     *)
AllocationLeakHasCause ==
    \A d \in Deps :
       Quiet(d) /\ dep[d].st \in Ended /\ d \in alloc =>
          cause[d] \cap {"crash", "cleanup", "unhealthy", "overwrote", "managed"} # {}

(* A deployment whose delete was accepted, and that nobody restarted, is   *)
(* at rest in a live state only if a handler's unguarded write overtook    *)
(* the delete, or a crash lost its event.                                  *)
DeleteLostHasCause ==
    \A d \in Deps :
       Quiet(d) /\ d \notin started /\ (\E k \in Deletes : th[d, k].at # "none")
          /\ dep[d].st \notin Ended
       => cause[d] \cap {"crash", "overwrote"} # {}

(* Without a crash, an accepted delete always comes to rest: the           *)
(* deployment leaves TERMINATING, even when the terminate event waits for  *)
(* a slot behind a deploy that is polling its provider.                    *)
DeleteSettles ==
    \A d \in Deps : dep[d].st = "TERMINATING" ~> dep[d].st # "TERMINATING" \/ crashes > 0

(* Without a crash, a published deployment does not stay PENDING or        *)
(* PROVISIONING; StartDeployment alone leaves one PENDING.                 *)
DeploySettles ==
    \A d \in Deps :
       dep[d].st \in {"PENDING", "PROVISIONING"}
          ~> dep[d].st \notin {"PENDING", "PROVISIONING"} \/ crashes > 0 \/ d \in started
=============================================================================
