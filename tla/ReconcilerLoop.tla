--------------------------- MODULE ReconcilerLoop ---------------------------
(***************************************************************************)
(* The reconciler: who runs it (start_reconciler), what a coroutine does   *)
(* in _one_iteration, its lease and the renewer beside the handler, the    *)
(* commit of the handler's outcome, and the teardown that follows it; and  *)
(* the Pulumi operations that handlers start in executor threads: up and   *)
(* destroy of a node's stack, the file lock of its state, and the recovery *)
(* from a lock that is taken.  A thread goes on when its handler is gone.  *)
(***************************************************************************)
EXTENDS ReconcilerState

(* Leadership, shutdown and crashes of the processes.                      *)

\* start_reconciler: pg_try_advisory_lock, then the loop and the reaper run.
TakeLock(p) ==
    /\ leader = NoProc /\ p \notin active
    /\ leader' = p
    /\ active' = active \cup {p}
    /\ UNCHANGED <<job, row, waiting, worker, op, ec2, lock, reaper, api,
                   asked, cause, faults>>

\* The session drops and Postgres frees the lock; nothing tells the loop.
LoseLock(p) ==
    /\ Inject("lock")
    /\ leader = p
    /\ leader' = NoProc
    /\ UNCHANGED <<job, row, waiting, worker, op, ec2, lock, active, reaper,
                   api, asked, cause>>

\* The loop of p ends: its coroutines are gone whatever they were doing.
LoopEnds(p) ==
    /\ p \in active
    /\ active' = active \ {p}
    /\ leader' = IF leader = p THEN NoProc ELSE leader
    /\ worker' = [w \in Worker |-> IF Proc(w) = p THEN Idle ELSE worker[w]]
    /\ reaper' = [reaper EXCEPT ![p] = NoReap]
    /\ UNCHANGED <<job, row, waiting, api, asked, cause>>

\* stop_with_drain runs out of grace: threads cannot be cancelled and go on,
\* with nobody waiting for their result.
Shutdown(p) ==
    /\ Inject("stop")
    /\ LoopEnds(p)
    /\ op' = [t \in Threads |->
                IF op[t].proc = p THEN [op[t] EXCEPT !.owner = NoWorker]
                                  ELSE op[t]]
    /\ UNCHANGED <<ec2, lock>>

\* The process dies, threads included: a held Pulumi lock becomes stale, an
\* instance launched but not yet in the Pulumi state is outside it for good.
Crash(p) ==
    /\ Inject("crash")
    /\ LoopEnds(p)
    /\ op' = [t \in Threads |-> IF op[t].proc = p THEN NoOp ELSE op[t]]
    /\ lock' = [n \in Nodes |->
                  IF lock[n] \in Threads /\ op[lock[n]].proc = p
                  THEN "stale" ELSE lock[n]]
    /\ ec2' = [n \in Nodes |->
                 [ec2[n] EXCEPT !.stray = @ \/ \E t \in Threads :
                    /\ op[t].proc = p /\ op[t].node = n
                    /\ op[t].step = "launched"]]

-----------------------------------------------------------------------------

(* The reconciler coroutines: _one_iteration.                              *)

Goto(w, pc) == worker' = [worker EXCEPT ![w] = At(pc, worker[w].node)]

GoIdle(w) == worker' = [worker EXCEPT ![w] = Idle]

Finish(w, r) ==
    worker' = [worker EXCEPT ![w] = [@ EXCEPT !.pc = "finished",
                                              !.result = r]]

\* Mutant of Claimable: the lease is not looked at.
ClaimableIgnoringLease(n) == job[n].phase \in ActivePhase /\ ~job[n].backoff

Claimable(n) ==
    /\ job[n].phase \in ActivePhase
    /\ job[n].holder = NoProc \/ job[n].expired
    /\ ~job[n].backoff

\* claim_next_job: cancelling jobs first.
ClaimNextJob(w, n) ==
    /\ Proc(w) \in active
    /\ worker[w].pc = "idle"
    /\ Claimable(n)
    /\ (\E m \in Nodes : Claimable(m) /\ job[m].phase = "cancelling")
          => job[n].phase = "cancelling"
    /\ job' = [job EXCEPT ![n] = [@ EXCEPT !.holder = Proc(w),
                                           !.expired = FALSE]]
    /\ worker' = [worker EXCEPT ![w] =
                    [Idle EXCEPT !.pc = "claimed", !.node = n,
                                 !.phase = job[n].phase,
                                 !.attempt = job[n].attempt]]
    /\ UNCHANGED <<row, waiting, op, ec2, lock, leader, active, reaper, api,
                   asked, cause, faults>>

\* load_aws_context raises: the pool swallows it and the lease stays.
LoadContextFails(w) ==
    /\ Inject("db")
    /\ worker[w].pc = "claimed"
    /\ GoIdle(w)
    /\ UNCHANGED <<job, row, waiting, op, ec2, lock, leader, active, reaper,
                   api, asked, cause>>

\* The handler and its renewer start; the up and destroy phases hand a Pulumi
\* operation to a free thread.
StartHandler(w) ==
    /\ worker[w].pc = "claimed"
    /\ worker' = [worker EXCEPT ![w] = [@ EXCEPT !.pc = "running",
                                                 !.renewing = TRUE]]
    /\ \/ /\ worker[w].phase \in {"preflight", "bootstrapping"}
          /\ UNCHANGED op
       \/ /\ worker[w].phase \in {"provisioning", "cancelling"}
          /\ \E t \in Threads :
               /\ op[t] = NoOp
               /\ op' = [op EXCEPT ![t] =
                    [kind |-> IF worker[w].phase = "provisioning"
                              THEN "up" ELSE "destroy",
                     node |-> worker[w].node, step |-> "start",
                     saw |-> FALSE, owner |-> w, proc |-> Proc(w)]]
    /\ UNCHANGED <<job, row, waiting, ec2, lock, leader, active, reaper, api,
                   asked, cause, faults>>

\* The handler raises before it has any effect outside the process.
HandlerRaises(w) ==
    /\ Inject("aws")
    /\ worker[w].pc = "claimed"
    /\ \E r \in {"transient", "permanent"} : Finish(w, r)
    /\ UNCHANGED <<job, row, waiting, op, ec2, lock, leader, active, reaper,
                   api, asked, cause>>

\* PreflightHandler only validates: any outcome, no effect.
FinishPreflight(w) ==
    /\ worker[w].pc = "running" /\ worker[w].phase = "preflight"
    /\ \E r \in Results : Finish(w, r)
    /\ UNCHANGED <<job, row, waiting, op, ec2, lock, leader, active, reaper,
                   api, asked, cause, faults>>

\* BootstrapHandler polls the inventory row until ready, failed or timeout.
FinishBootstrap(w) ==
    /\ worker[w].pc = "running" /\ worker[w].phase = "bootstrapping"
    /\ \/ row[worker[w].node].state = "ready" /\ Finish(w, "ok")
       \/ row[worker[w].node].state = "failed" /\ Finish(w, "permanent")
       \/ Finish(w, "transient")
    /\ UNCHANGED <<job, row, waiting, op, ec2, lock, leader, active, reaper,
                   api, asked, cause, faults>>

-----------------------------------------------------------------------------
(* Leases.                                                                 *)

\* renew_lease matches the holder only, so it also revives an expired lease.
RenewLease(w) ==
    LET n == worker[w].node IN
    /\ worker[w].pc = "running" /\ worker[w].renewing
    /\ job[n].holder = Proc(w) /\ job[n].expired
    /\ job' = [job EXCEPT ![n].expired = FALSE]
    /\ UNCHANGED <<row, waiting, worker, op, ec2, lock, leader, active,
                   reaper, api, asked, cause, faults>>

\* renew_lease matches no row: renew_loop returns False; the handler goes on.
RenewerStops(w) ==
    /\ worker[w].pc = "running" /\ worker[w].renewing
    /\ job[worker[w].node].holder # Proc(w)
    /\ worker' = [worker EXCEPT ![w].renewing = FALSE]
    /\ UNCHANGED <<job, row, waiting, op, ec2, lock, leader, active, reaper,
                   api, asked, cause, faults>>

\* renew_lease raises: the TaskGroup cancels the handler (its thread goes on)
\* or discards its success, and release_lease follows, matched by holder.
RenewerRaises(w) ==
    LET n == worker[w].node IN
    /\ Inject("db")
    /\ worker[w].renewing
    /\ \/ worker[w].pc = "running"
       \/ worker[w].pc = "finished" /\ worker[w].result = "ok"
    /\ \/ job' = [job EXCEPT ![n] =
             IF @.holder = Proc(w)
             THEN [@ EXCEPT !.holder = NoProc, !.expired = FALSE] ELSE @]
       \/ UNCHANGED job
    /\ op' = [t \in Threads |->
                IF op[t].owner = w THEN [op[t] EXCEPT !.owner = NoWorker]
                                   ELSE op[t]]
    /\ GoIdle(w)
    /\ UNCHANGED <<row, waiting, ec2, lock, leader, active, reaper, api,
                   asked, cause>>

\* A coroutine that keeps its job's lease from running out: it renews it, or
\* it is between two short database calls.
Attached(w, n) ==
    /\ worker[w].node = n
    /\ \/ worker[w].pc \in {"claimed", "finished"}
       \/ worker[w].pc = "running" /\ worker[w].renewing

LeaseExpires(n) ==
    /\ job[n].holder # NoProc /\ ~job[n].expired
    /\ \/ Inject("stall")
       \/ /\ \A w \in Worker : Proc(w) = job[n].holder => ~Attached(w, n)
          /\ UNCHANGED faults
    /\ job' = [job EXCEPT ![n].expired = TRUE]
    /\ UNCHANGED <<row, waiting, worker, op, ec2, lock, leader, active,
                   reaper, api, asked, cause>>

BackoffElapses(n) ==
    /\ job[n].backoff
    /\ job' = [job EXCEPT ![n].backoff = FALSE]
    /\ UNCHANGED <<row, waiting, worker, op, ec2, lock, leader, active,
                   reaper, api, asked, cause, faults>>

-----------------------------------------------------------------------------
(* The outcome of a handler: transition_to, schedule_retry, fail.          *)

\* Mutant of Verdict: one attempt too many.
VerdictOffByOne(w) ==
    CASE worker[w].result = "ok" -> "advance"
      [] worker[w].result = "transient"
         /\ worker[w].attempt + 1 <= MaxAttempts -> "retry"
      [] OTHER -> "fail"

Verdict(w) ==
    CASE worker[w].result = "ok" -> "advance"
      [] worker[w].result = "transient"
         /\ worker[w].attempt + 1 < MaxAttempts -> "retry"
      [] OTHER -> "fail"

SamePhase(w) == job[worker[w].node].phase = worker[w].phase

\* The guard of transition_to and fail.
Held(w) == SamePhase(w) /\ job[worker[w].node].holder = Proc(w)

\* Mutant of CommitAdvance: the teardown goes straight to the purge.
CommitAdvanceUnswept(w) ==
    LET next == NextPhase(worker[w].phase) IN
    /\ worker[w].pc = "finished" /\ Verdict(w) = "advance"
    /\ Held(w)
    /\ MoveTo(worker[w].node, next)
    /\ CASE next = "ready"      -> Goto(w, "mirror_ready")
         [] next = "terminated" -> Goto(w, "purge")
         [] OTHER               -> GoIdle(w)
    /\ UNCHANGED <<row, waiting, op, ec2, lock, leader, active, reaper, api,
                   asked, cause, faults>>

CommitAdvance(w) ==
    LET next == NextPhase(worker[w].phase) IN
    /\ worker[w].pc = "finished" /\ Verdict(w) = "advance"
    /\ Held(w)
    /\ MoveTo(worker[w].node, next)
    /\ CASE next = "ready"      -> Goto(w, "mirror_ready")
         [] next = "terminated" -> Goto(w, "sweep")
         [] OTHER               -> GoIdle(w)
    /\ UNCHANGED <<row, waiting, op, ec2, lock, leader, active, reaper, api,
                   asked, cause, faults>>

\* schedule_retry: its guard does not mention the lease.
CommitRetry(w) ==
    LET n == worker[w].node IN
    /\ worker[w].pc = "finished" /\ Verdict(w) = "retry"
    /\ SamePhase(w)
    /\ job' = [job EXCEPT ![n] =
                 [@ EXCEPT !.attempt = worker[w].attempt + 1,
                           !.backoff = TRUE, !.holder = NoProc,
                           !.expired = FALSE]]
    /\ GoIdle(w)
    /\ UNCHANGED <<row, waiting, op, ec2, lock, leader, active, reaper, api,
                   asked, cause, faults>>

\* Mutant of CommitFail: nobody tells the deployments.
CommitFailSilently(w) ==
    /\ worker[w].pc = "finished" /\ Verdict(w) = "fail"
    /\ Held(w)
    /\ MoveTo(worker[w].node, "failed")
    /\ GoIdle(w)
    /\ UNCHANGED <<row, waiting, op, ec2, lock, leader, active, reaper, api,
                   asked, cause, faults>>

CommitFail(w) ==
    /\ worker[w].pc = "finished" /\ Verdict(w) = "fail"
    /\ Held(w)
    /\ MoveTo(worker[w].node, "failed")
    /\ Goto(w, "mirror_failed")
    /\ UNCHANGED <<row, waiting, op, ec2, lock, leader, active, reaper, api,
                   asked, cause, faults>>

\* The guard matches no row, or the statement raises: the outcome is dropped.
CommitDropped(w) ==
    /\ worker[w].pc = "finished"
    /\ \/ Inject("db")
       \/ /\ ~SamePhase(w) \/ (Verdict(w) # "retry" /\ ~Held(w))
          /\ UNCHANGED faults
    /\ GoIdle(w)
    /\ UNCHANGED <<job, row, waiting, op, ec2, lock, leader, active, reaper,
                   api, asked, cause>>

-----------------------------------------------------------------------------
(* After the commit: the inventory mirror, the bound deployments, and the  *)
(* teardown of a terminated node.  All are best-effort.                    *)

MirrorReady(w) ==
    /\ worker[w].pc = "mirror_ready"
    /\ \/ SetState(worker[w].node, "ready") /\ UNCHANGED faults
       \/ Inject("db") /\ UNCHANGED row
    /\ GoIdle(w)
    /\ UNCHANGED <<job, waiting, op, ec2, lock, leader, active, reaper, api,
                   asked, cause>>

MirrorFailed(w) ==
    /\ worker[w].pc = "mirror_failed"
    /\ \/ SetState(worker[w].node, "failed") /\ UNCHANGED faults
       \/ Inject("db") /\ UNCHANGED row
    /\ Goto(w, "fail_deps")
    /\ UNCHANGED <<job, waiting, op, ec2, lock, leader, active, reaper, api,
                   asked, cause>>

FailDeps(w) ==
    /\ worker[w].pc = "fail_deps"
    /\ \/ waiting' = [waiting EXCEPT ![worker[w].node] = FALSE]
          /\ UNCHANGED faults
       \/ Inject("db") /\ UNCHANGED waiting
    /\ GoIdle(w)
    /\ UNCHANGED <<job, row, op, ec2, lock, leader, active, reaper, api,
                   asked, cause>>


Sweep(w) ==
    LET n == worker[w].node IN
    /\ worker[w].pc = "sweep"
    /\ \/ SweepNode(n) /\ UNCHANGED cause
       \/ SweepFails(n) /\ Blame(n, "sweep_failed", Live(n))
    /\ Goto(w, "purge")
    /\ UNCHANGED <<job, row, waiting, lock, leader, active, reaper, api,
                   asked>>

Purge(w) ==
    /\ worker[w].pc = "purge"
    /\ \/ PurgeNode(worker[w].node) /\ UNCHANGED faults
       \/ Inject("db") /\ UNCHANGED <<job, row, waiting>>
    /\ GoIdle(w)
    /\ UNCHANGED <<op, ec2, lock, leader, active, reaper, api, asked, cause>>

-----------------------------------------------------------------------------
(* TerminationReaper: the periodic backstop that re-arms the teardown of    *)
(* nodes flagged terminating, or sweeps and purges them itself.             *)

\* Mutant of Stuck: only nodes without a job.
StuckJobless(n) ==
    /\ Present(n)
    /\ row[n].terminating # "no"
    /\ job[n].phase = "none"

\* Flagged terminating, and no destroy in flight.
Stuck(n) ==
    /\ Present(n)
    /\ row[n].terminating # "no"
    /\ job[n].phase # "cancelling"

ReaperFind(p, n) ==
    /\ p \in active
    /\ reaper[p].pc = "idle"
    /\ Stuck(n)
    /\ reaper' = [reaper EXCEPT ![p] = [pc |-> "rearm", node |-> n]]
    /\ UNCHANGED <<job, row, waiting, worker, op, ec2, lock, leader, active,
                   api, asked, cause, faults>>

\* force_cancel; when it flips nothing, or raises, the backstop follows.
ReaperRearm(p) ==
    LET n == reaper[p].node IN
    /\ reaper[p].pc = "rearm"
    /\ \/ /\ job[n].phase \in L!Cancellable
          /\ ForceCancel(n)
          /\ reaper' = [reaper EXCEPT ![p] = NoReap]
          /\ UNCHANGED faults
       \/ /\ \/ job[n].phase \notin L!Cancellable /\ UNCHANGED faults
             \/ Inject("db")
          /\ UNCHANGED job
          /\ reaper' = [reaper EXCEPT ![p].pc = "sweep"]
    /\ UNCHANGED <<row, waiting, worker, op, ec2, lock, leader, active, api,
                   asked, cause>>

\* No step of the state machine can still launch an instance for the node.
JobOver(n) ==
    \/ job[n].phase \in {"terminated", "purged"}
    \/ job[n].phase = "none" /\ "enqueue" \notin api[n]

ReaperSweep(p) ==
    LET n == reaper[p].node IN
    /\ reaper[p].pc = "sweep"
    /\ \/ SweepNode(n) /\ Blame(n, "live_job", ~JobOver(n))
       \/ SweepFails(n) /\ Blame(n, "sweep_failed", Live(n) \/ ~JobOver(n))
    /\ reaper' = [reaper EXCEPT ![p].pc = "purge"]
    /\ UNCHANGED <<job, row, waiting, worker, lock, leader, active, api,
                   asked>>

ReaperPurge(p) ==
    /\ reaper[p].pc = "purge"
    /\ \/ PurgeNode(reaper[p].node) /\ UNCHANGED faults
       \/ Inject("db") /\ UNCHANGED <<job, row, waiting>>
    /\ reaper' = [reaper EXCEPT ![p] = NoReap]
    /\ UNCHANGED <<worker, op, ec2, lock, leader, active, api, asked, cause>>

-----------------------------------------------------------------------------
(* The Pulumi operations of a node's stack.                                *)

\* The operation of t returns or raises; it drops the lock if it still has
\* it, and the handler awaiting it, if any, resumes with r.
OpEnds(t, r) ==
    /\ op' = [op EXCEPT ![t] = NoOp]
    /\ lock' = [lock EXCEPT ![op[t].node] = IF @ = t THEN "free" ELSE @]
    /\ IF op[t].owner = NoWorker THEN UNCHANGED worker
                                 ELSE Finish(op[t].owner, r)

OpRaises(t) ==
    /\ Inject("aws")
    /\ \E r \in {"transient", "permanent"} : OpEnds(t, r)

\* The effect took place: success, unless something after it fails.
OpReturns(t) == (OpEnds(t, "ok") /\ UNCHANGED faults) \/ OpRaises(t)

OpLock(t) ==
    LET n == op[t].node IN
    /\ op[t].step \in {"start", "retry"}
    /\ lock[n] = "free"
    /\ lock' = [lock EXCEPT ![n] = t]
    /\ op' = [op EXCEPT ![t] = [@ EXCEPT !.step = "locked",
                                         !.saw = ec2[n].tracked]]
    /\ UNCHANGED <<job, row, waiting, worker, ec2, leader, active, reaper,
                   api, asked, cause, faults>>

\* ConcurrentUpdateError: whoever holds the lock, stack.cancel() removes it
\* (or fails), and the operation is tried once more.
OpBreakLock(t) ==
    LET n == op[t].node IN
    /\ op[t].step = "start"
    /\ lock[n] # "free"
    /\ \/ lock' = [lock EXCEPT ![n] = "free"] /\ UNCHANGED faults
       \/ Inject("aws") /\ UNCHANGED lock
    /\ op' = [op EXCEPT ![t].step = "retry"]
    /\ UNCHANGED <<job, row, waiting, worker, ec2, leader, active, reaper,
                   api, asked, cause>>

OpLockFails(t) ==
    /\ op[t].step = "retry"
    /\ lock[op[t].node] # "free"
    /\ OpEnds(t, "permanent")
    /\ UNCHANGED <<job, row, waiting, ec2, leader, active, reaper, api, asked,
                   cause, faults>>

\* pulumi up creates the instance its state does not hold.
UpLaunch(t) ==
    /\ op[t].kind = "up" /\ op[t].step = "locked" /\ ~op[t].saw
    /\ op' = [op EXCEPT ![t].step = "launched"]
    /\ Blame(op[t].node, "late_up", job[op[t].node].phase # "provisioning")
    /\ UNCHANGED <<job, row, waiting, worker, ec2, lock, leader, active,
                   reaper, api, asked, faults>>

\* It records the instance ("gone" when something terminated it meanwhile),
\* over whatever a concurrent operation recorded.
UpSave(t) ==
    LET n == op[t].node IN
    /\ op[t].step \in {"launched", "gone"}
    /\ ec2' = IF op[t].step = "launched"
              THEN [ec2 EXCEPT ![n] = [tracked |-> TRUE,
                                       stray |-> @.stray \/ @.tracked]]
              ELSE ec2
    /\ OpReturns(t)
    /\ UNCHANGED <<job, row, waiting, leader, active, reaper, api, asked,
                   cause>>

UpNoop(t) ==
    /\ op[t].kind = "up" /\ op[t].step = "locked" /\ op[t].saw
    /\ OpReturns(t)
    /\ UNCHANGED <<job, row, waiting, ec2, leader, active, reaper, api, asked,
                   cause>>

UpFails(t) ==
    /\ op[t].kind = "up" /\ op[t].step = "locked"
    /\ OpRaises(t)
    /\ UNCHANGED <<job, row, waiting, ec2, leader, active, reaper, api, asked,
                   cause>>

\* pulumi destroy terminates the instance it saw and records an empty state;
\* an instance recorded after it looked drops out of the state.
DestroyDone(t) ==
    LET n == op[t].node IN
    /\ op[t].kind = "destroy" /\ op[t].step = "locked"
    /\ ec2' = [ec2 EXCEPT ![n] =
                 [tracked |-> FALSE,
                  stray |-> @.stray \/ (@.tracked /\ ~op[t].saw)]]
    /\ OpReturns(t)
    /\ UNCHANGED <<job, row, waiting, leader, active, reaper, api, asked,
                   cause>>

DestroyFails(t) ==
    /\ op[t].kind = "destroy" /\ op[t].step = "locked"
    /\ OpRaises(t)
    /\ UNCHANGED <<job, row, waiting, ec2, leader, active, reaper, api, asked,
                   cause>>
=============================================================================
