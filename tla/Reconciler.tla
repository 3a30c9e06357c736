----------------------------- MODULE Reconciler -----------------------------
(***************************************************************************)
(* The provisioning state machine of the orchestration service: the        *)
(* requests that create and tear down nodes (deploy, terminate, DELETE,    *)
(* retry) and the agent that registers from a booted instance, composed    *)
(* with the reconciler loops, their Pulumi threads and the termination     *)
(* reaper.  One step is one database transaction, one Pulumi or AWS        *)
(* effect, or one in-memory step between two awaits; a request makes two   *)
(* commits, and anything may happen between them.                          *)
(***************************************************************************)
EXTENDS ReconcilerLoop

\* A request has made its first commit and goes on to its second.
Await(n, step) ==
    /\ Cardinality(api[n]) < MaxPending
    /\ api' = [api EXCEPT ![n] = @ \cup {step}]

Return(n, step) ==
    /\ step \in api[n]
    /\ api' = [api EXCEPT ![n] = @ \ {step}]

\* place_and_provision, cold start: the placeholder and the PENDING_NODE
\* deployment commit together; the job is enqueued after that transaction.
Place(n) ==
    /\ row[n].state = "absent"
    /\ row' = [row EXCEPT ![n].state = "provisioning"]
    /\ waiting' = [waiting EXCEPT ![n] = TRUE]
    /\ Await(n, "enqueue")
    /\ UNCHANGED <<job, worker, op, ec2, lock, leader, active, reaper, asked,
                   cause, faults>>

Enqueue(n) ==
    /\ Return(n, "enqueue")
    /\ Present(n)
    /\ MoveTo(n, "preflight")
    /\ UNCHANGED <<row, waiting, worker, op, ec2, lock, leader, active,
                   reaper, asked, cause, faults>>

\* The insert raises (the database, or the foreign key once the row is gone):
\* the deployment is failed, the placeholder stays.
EnqueueFails(n) ==
    /\ Return(n, "enqueue")
    /\ \/ Present(n) /\ Inject("db")
       \/ ~Present(n) /\ UNCHANGED faults
    /\ waiting' = [waiting EXCEPT ![n] = FALSE]
    /\ UNCHANGED <<job, row, worker, op, ec2, lock, leader, active, reaper,
                   asked, cause>>

\* DELETE /nodes/{id}: a terminated job is purged on the spot, without a
\* sweep; a jobless node is soft-deleted; anything else is force-cancelled
\* first and stamped terminating afterwards.
DeleteNode(n) ==
    /\ Ask
    /\ Present(n)
    /\ \/ /\ job[n].phase = "terminated"
          /\ PurgeNode(n)
          /\ Blame(n, "unswept", Live(n))
          /\ UNCHANGED api
       \/ /\ job[n].phase = "none"
          /\ Await(n, "soft")
          /\ UNCHANGED <<job, row, waiting, cause>>
       \/ /\ job[n].phase \notin {"terminated", "none"}
          /\ ForceCancel(n)
          /\ Await(n, "flag")
          /\ UNCHANGED <<row, waiting, cause>>
    /\ UNCHANGED <<worker, op, ec2, lock, leader, active, reaper, faults>>

SoftDelete(n) ==
    /\ Return(n, "soft")
    /\ SetState(n, "terminated")
    /\ UNCHANGED <<job, waiting, worker, op, ec2, lock, leader, active,
                   reaper, asked, cause, faults>>

MarkTerminating(n) ==
    /\ Return(n, "flag")
    /\ SetFlag(n, "stamped")
    /\ UNCHANGED <<job, waiting, worker, op, ec2, lock, leader, active,
                   reaper, asked, cause, faults>>

\* terminate_deployment_core on the node's last deployment: the deployment is
\* TERMINATED and unbound in one transaction, the node's destroy follows.
TerminateDeployment(n) ==
    /\ Ask
    /\ Present(n)
    /\ waiting' = [waiting EXCEPT ![n] = FALSE]
    /\ Await(n, "destroy")
    /\ UNCHANGED <<job, row, worker, op, ec2, lock, leader, active, reaper,
                   cause, faults>>

\* _initiate_node_destroy: first the flag, without terminating_at and without
\* touching updated_at, then force_cancel.
InitiateDestroy(n) ==
    /\ "destroy" \in api[n]
    /\ api' = [api EXCEPT ![n] = (@ \ {"destroy"}) \cup {"cancel"}]
    /\ SetFlag(n, IF row[n].terminating = "stamped" THEN "stamped" ELSE "bare")
    /\ UNCHANGED <<job, waiting, worker, op, ec2, lock, leader, active,
                   reaper, asked, cause, faults>>

InitiateCancel(n) ==
    /\ Return(n, "cancel")
    /\ ForceCancel(n)
    /\ UNCHANGED <<row, waiting, worker, op, ec2, lock, leader, active,
                   reaper, asked, cause, faults>>

\* force_cancel raises: the flag is stripped again, if that write succeeds.
InitiateCancelFails(n) ==
    /\ Inject("db")
    /\ Return(n, "cancel")
    /\ SetFlag(n, "no") \/ UNCHANGED row
    /\ UNCHANGED <<job, waiting, worker, op, ec2, lock, leader, active,
                   reaper, asked, cause>>

\* POST /provisioning/retry: reset_for_retry, then the inventory mirror.
RetryProvisioning(n) ==
    /\ Ask
    /\ job[n].phase = "failed"
    /\ job' = [job EXCEPT ![n] = [phase |-> "preflight", attempt |-> 0,
                                  holder |-> NoProc, expired |-> FALSE,
                                  backoff |-> FALSE]]
    /\ Await(n, "mirror")
    /\ UNCHANGED <<row, waiting, worker, op, ec2, lock, leader, active,
                   reaper, cause, faults>>

RetryMirror(n) ==
    /\ Return(n, "mirror")
    /\ SetState(n, "provisioning")
    /\ UNCHANGED <<job, waiting, worker, op, ec2, lock, leader, active,
                   reaper, asked, cause, faults>>

\* The process serving a request dies between the request's two commits.
ApiDies(n) ==
    /\ Inject("crash")
    /\ \E step \in api[n] : Return(n, step)
    /\ UNCHANGED <<job, row, waiting, worker, op, ec2, lock, leader, active,
                   reaper, asked, cause>>

\* The agent of a running instance registers: upsert_worker replaces the
\* row's metadata, the terminating flag included.
Register(n) ==
    /\ Live(n) /\ Present(n)
    /\ \/ row[n].agent /\ Inject("rejoin")
       \/ ~row[n].agent /\ UNCHANGED faults
    /\ row' = [row EXCEPT ![n].agent = TRUE, ![n].terminating = "no"]
    /\ UNCHANGED <<job, waiting, worker, op, ec2, lock, leader, active,
                   reaper, api, asked, cause>>

\* It opens its channel: refused on a terminated row; a provisioning row
\* becomes ready; the linker takes over the deployments bound to the node.
OpenChannel(n) ==
    /\ Live(n)
    /\ row[n].agent /\ row[n].state # "terminated"
    /\ SetState(n, IF row[n].state = "provisioning" THEN "ready"
                                                     ELSE row[n].state)
    /\ waiting' = [waiting EXCEPT ![n] = FALSE]
    /\ UNCHANGED <<job, worker, op, ec2, lock, leader, active, reaper, api,
                   asked, cause, faults>>

-----------------------------------------------------------------------------
(* The composition.                                                        *)

ApiStep(n) ==
    \/ Place(n) \/ Enqueue(n) \/ EnqueueFails(n) \/ DeleteNode(n)
    \/ SoftDelete(n) \/ MarkTerminating(n) \/ TerminateDeployment(n)
    \/ InitiateDestroy(n) \/ InitiateCancel(n) \/ InitiateCancelFails(n)
    \/ RetryProvisioning(n) \/ RetryMirror(n) \/ ApiDies(n)

NodeStep(n) ==
    \/ Register(n) \/ OpenChannel(n) \/ LeaseExpires(n) \/ BackoffElapses(n)

ProcStep(p) ==
    \/ TakeLock(p) \/ LoseLock(p) \/ Shutdown(p) \/ Crash(p)
    \/ (\E n \in Nodes : ReaperFind(p, n))
    \/ ReaperRearm(p) \/ ReaperSweep(p) \/ ReaperPurge(p)

WorkerStep(w) ==
    \/ (\E n \in Nodes : ClaimNextJob(w, n))
    \/ LoadContextFails(w) \/ StartHandler(w) \/ HandlerRaises(w)
    \/ FinishPreflight(w) \/ FinishBootstrap(w)
    \/ RenewLease(w) \/ RenewerStops(w) \/ RenewerRaises(w)
    \/ CommitAdvance(w) \/ CommitRetry(w) \/ CommitFail(w) \/ CommitDropped(w)
    \/ MirrorReady(w) \/ MirrorFailed(w) \/ FailDeps(w)
    \/ Sweep(w) \/ Purge(w)

OpStep(t) ==
    \/ OpLock(t) \/ OpBreakLock(t) \/ OpLockFails(t)
    \/ UpLaunch(t) \/ UpSave(t) \/ UpNoop(t) \/ UpFails(t)
    \/ DestroyDone(t) \/ DestroyFails(t)

Next ==
    \/ \E n \in Nodes : ApiStep(n) \/ NodeStep(n)
    \/ \E p \in Procs : ProcStep(p)
    \/ \E w \in Worker : WorkerStep(w)
    \/ \E t \in Threads : OpStep(t)

Spec == Init /\ [][Next]_vars

-----------------------------------------------------------------------------
(* Fairness: coroutines, threads and API requests go on, time passes, an   *)
(* idle process polls for the lock.  Agents and users owe nothing.         *)

\* The grace period counts from terminating_at, or else from updated_at, which
\* every heartbeat of the agent refreshes.
Heartbeating(n) == row[n].agent /\ Live(n)

GraceElapses(n) == row[n].terminating = "stamped" \/ ~Heartbeating(n)

Fairness ==
    /\ \A n \in Nodes :
         /\ WF_vars(\/ Enqueue(n) \/ EnqueueFails(n) \/ SoftDelete(n)
                    \/ MarkTerminating(n) \/ InitiateDestroy(n)
                    \/ InitiateCancel(n) \/ RetryMirror(n))
         /\ WF_vars(LeaseExpires(n))
         /\ WF_vars(BackoffElapses(n))
         /\ WF_vars(\E w \in Worker : ClaimNextJob(w, n))
         /\ \A p \in Procs : WF_vars(GraceElapses(n) /\ ReaperFind(p, n))
    /\ \A p \in Procs :
         /\ WF_vars(TakeLock(p))
         /\ WF_vars(ReaperRearm(p) \/ ReaperSweep(p) \/ ReaperPurge(p))
    /\ \A w \in Worker :
         WF_vars(\/ StartHandler(w) \/ FinishPreflight(w) \/ FinishBootstrap(w)
                 \/ CommitAdvance(w) \/ CommitRetry(w) \/ CommitFail(w)
                 \/ CommitDropped(w) \/ MirrorReady(w) \/ MirrorFailed(w)
                 \/ FailDeps(w) \/ Sweep(w) \/ Purge(w))
    /\ \A t \in Threads : WF_vars(OpStep(t))

FairSpec == Spec /\ Fairness

-----------------------------------------------------------------------------
(* Properties.                                                             *)

\* Whatever leases, retries, crashes and stale coroutines do, a job only
\* walks the phase graph of JobLifecycle: the guarded UPDATEs of the job
\* repository never resurrect a terminated job or skip a phase.
Lifecycle == L!Spec

\* An instance outlives the purge of its node (no row, no job, nothing that
\* would ever terminate it) only for one of four reasons: a pulumi up that
\* launched after its job had left the provisioning phase, an orphan sweep
\* that failed, a reaper backstop that ran beside a live job, or a DELETE that
\* purged a terminated job without a sweep.
LeakHasCause ==
    \A n \in Nodes : row[n].state = "purged" /\ Live(n) => cause[n] # {}

Destroying(w) ==
    /\ worker[w].phase = "cancelling"
    /\ worker[w].pc \in {"claimed", "running", "finished"}

\* Claims, renewals and crash recovery never let two coroutines drive the
\* cancelling phase of one node, as long as renewals neither raise nor stall.
OneDestroyer ==
    \A w1, w2 \in Worker :
        /\ Destroying(w1) /\ Destroying(w2)
        /\ worker[w1].node = worker[w2].node
        => w1 = w2

\* A failed job has failed the deployment waiting for its node, or a coroutine
\* is on its way to do so (no process dying in between, no database error).
FailureReachesDeployment ==
    \A n \in Nodes :
        job[n].phase = "failed" /\ waiting[n] =>
            \E w \in Worker : /\ worker[w].node = n
                              /\ worker[w].pc \in {"mirror_failed", "fail_deps"}

\* A node stamped terminating by a DELETE is purged, whatever fails on the
\* way, unless its agent registers again and wipes the stamp.
TeardownCompletes ==
    \A n \in Nodes : row[n].terminating = "stamped"
                        ~> row[n].terminating # "stamped"

\* A deployment waiting for its node stops waiting: it is served, failed or
\* terminated (no process dying, no database error).
DeploymentSettles == \A n \in Nodes : waiting[n] ~> ~waiting[n]
=============================================================================
