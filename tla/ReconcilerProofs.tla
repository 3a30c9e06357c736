-------------------------- MODULE ReconcilerProofs --------------------------
(***************************************************************************)
(* Module Reconciler implements JobLifecycle and leaks instances only for  *)
(* the causes LeakHasCause names; its leases keep destroyers apart when    *)
(* renewals neither raise nor stall, and a failed job is told to its       *)
(* deployment when no process dies: for all values of the constants.       *)
(***************************************************************************)
EXTENDS ReconcilerTypes

\* A job and its node's row are purged together, a job needs a row, and a job
\* still to be enqueued does not exist.
RowJob ==
    \A n \in Nodes :
        /\ row[n].state = "purged" <=> job[n].phase = "purged"
        /\ row[n].state = "absent" => job[n].phase = "none"
        /\ "enqueue" \in api[n] => job[n].phase \in {"none", "purged"}

\* One step's effect on the phases: nothing, or one move of JobLifecycle.
SamePhases == \A m \in Nodes : job'[m].phase = job[m].phase

PhaseMove(n) ==
    /\ \A m \in Nodes : m # n => job'[m].phase = job[m].phase
    /\ \/ /\ job[n].phase = "none" /\ "enqueue" \in api[n]
          /\ job'[n].phase = "preflight"
       \/ job[n].phase \in ActivePhase /\ job'[n].phase = NextPhase(job[n].phase)
       \/ job[n].phase \in ActivePhase /\ job'[n].phase = "failed"
       \/ job[n].phase \in L!Cancellable /\ job'[n].phase = "cancelling"
       \/ job[n].phase = "failed" /\ job'[n].phase = "preflight"
       \/ job'[n].phase = "purged"

LegalPhases ==
    /\ SamePhases \/ \E n \in Nodes : PhaseMove(n)
    /\ \A m \in Nodes : "enqueue" \in api'[m]
                           => "enqueue" \in api[m] \/ row[m].state = "absent"

-----------------------------------------------------------------------------
\* Steps that change no phase keep row and job in agreement.
LEMMA RowJobKept ==
    ASSUME TypeOK, RowJob, SamePhases,
           \A m \in Nodes :
              /\ row'[m].state = "purged" <=> row[m].state = "purged"
              /\ row'[m].state = "absent" => row[m].state = "absent"
              /\ "enqueue" \in api'[m] => "enqueue" \in api[m]
    PROVE  RowJob' /\ LegalPhases
  BY DEF RowJob, SamePhases, LegalPhases

\* No job and no row is touched, and no request is made.
LEMMA RowJobUntouched ==
    ASSUME TypeOK, RowJob, UNCHANGED <<job, row, api>>
    PROVE  RowJob' /\ LegalPhases
  BY RowJobKept DEF SamePhases

\* Only the job of n moves, its row stays, and n is not waiting to be enqueued.
LEMMA RowJobMoves ==
    ASSUME TypeOK, RowJob, NEW n \in Nodes, PhaseMove(n),
           row' = row, job'[n].phase # "purged",
           job[n].phase \notin {"none", "purged"},
           \A m \in Nodes : "enqueue" \in api'[m] => "enqueue" \in api[m]
    PROVE  RowJob' /\ LegalPhases
  BY DEF RowJob, PhaseMove, LegalPhases

\* A purge takes row and job together.
LEMMA RowJobPurged ==
    ASSUME TypeOK, RowJob, NEW n \in Nodes, PurgeNode(n), api' = api
    PROVE  RowJob' /\ LegalPhases
  BY PurgeNodeEffect DEF RowJob, PhaseMove, LegalPhases

\* force_cancel is a move of the lifecycle.
LEMMA CancelMoves ==
    ASSUME TypeOK, RowJob, NEW n \in Nodes, ForceCancel(n), row' = row,
           \A m \in Nodes : "enqueue" \in api'[m] => "enqueue" \in api[m]
    PROVE  RowJob' /\ LegalPhases
  <1>1. CASE job' = job
    BY <1>1, RowJobKept DEF SamePhases
  <1>2. CASE job[n].phase \in L!Cancellable /\ job'[n].phase = "cancelling"
    <2>1. job[n].phase \notin {"none", "purged"}
      BY <1>2 DEF L!Cancellable
    <2>2. PhaseMove(n)
      BY <1>2, ForceCancelEffect DEF PhaseMove
    <2> QED
      BY <1>2, <2>1, <2>2, RowJobMoves
  <1> QED
    BY <1>1, <1>2, ForceCancelEffect

\* Every request moves phases along the lifecycle.
LEMMA ApiStepMoves ==
    ASSUME TypeOK, RowJob, NEW n \in Nodes, ApiStep(n)
    PROVE  RowJob' /\ LegalPhases
  <1>0. /\ row \in [Nodes -> RowRecord] /\ job \in [Nodes -> JobRecord]
        /\ \A step \in Pending : Return(n, step) =>
             \A m \in Nodes : "enqueue" \in api'[m] => "enqueue" \in api[m]
        /\ \A step \in Pending \ {"enqueue"} : Await(n, step) =>
             \A m \in Nodes : "enqueue" \in api'[m] => "enqueue" \in api[m]
    BY ReturnTyped, AwaitTyped DEF TypeOK
  <1>1. CASE Place(n)
    <2>1. /\ row[n].state = "absent" /\ row'[n].state = "provisioning"
          /\ \A m \in Nodes : m # n => row'[m] = row[m]
      BY <1>0, <1>1 DEF Place, RowRecord
    <2>2. job' = job /\ \A m \in Nodes : m # n => api'[m] = api[m]
      BY <1>1, AwaitTyped DEF Place, Pending
    <2> QED
      BY <2>1, <2>2 DEF RowJob, LegalPhases, SamePhases
  <1>2. CASE Enqueue(n)
    <2>1. /\ job[n].phase = "none" /\ row[n].state # "purged"
          /\ "enqueue" \in api[n]
      BY <1>2 DEF Enqueue, Return, Present, RowJob
    <2>2. /\ job'[n].phase = "preflight" /\ row' = row
          /\ \A m \in Nodes : m # n => job'[m] = job[m]
      BY <1>2, MoveToEffect, CancellingPhase DEF Enqueue
    <2>3. /\ "enqueue" \notin api'[n]
          /\ \A m \in Nodes : api'[m] \subseteq api[m]
      BY <1>2, ReturnTyped DEF Enqueue, Return, TypeOK
    <2>4. row[n].state # "absent"
      BY <1>2 DEF Enqueue, Present
    <2> QED
      BY <2>1, <2>2, <2>3, <2>4 DEF RowJob, LegalPhases, PhaseMove
  <1>3. CASE EnqueueFails(n)
    BY <1>0, <1>3, RowJobKept DEF EnqueueFails, SamePhases, Pending
  <1>4. CASE DeleteNode(n)
    <2>1. CASE job[n].phase = "terminated"
      BY <1>4, <2>1, RowJobPurged DEF DeleteNode
    <2>2. CASE job[n].phase = "none"
      BY <1>0, <1>4, <2>2, RowJobKept DEF DeleteNode, SamePhases, Pending
    <2>3. CASE job[n].phase \notin {"terminated", "none"}
      BY <1>0, <1>4, <2>3, CancelMoves DEF DeleteNode, Pending
    <2> QED
      BY <2>1, <2>2, <2>3
  <1>5. CASE SoftDelete(n)
    BY <1>0, <1>5, SetStateEffect, RowJobKept
       DEF SoftDelete, SamePhases, Pending
  <1>6. CASE MarkTerminating(n)
    BY <1>0, <1>6, SetFlagEffect, RowJobKept
       DEF MarkTerminating, SamePhases, Pending
  <1>7. CASE TerminateDeployment(n)
    BY <1>0, <1>7, RowJobKept DEF TerminateDeployment, SamePhases, Pending
  <1>8. CASE InitiateDestroy(n)
    <2>1. \A m \in Nodes : row'[m].state = row[m].state
      BY <1>8, SetFlagEffect DEF InitiateDestroy
    <2>2. \A m \in Nodes : "enqueue" \in api'[m] => "enqueue" \in api[m]
      BY <1>8 DEF InitiateDestroy, TypeOK
    <2> QED
      BY <1>8, <2>1, <2>2, RowJobKept DEF InitiateDestroy, SamePhases
  <1>9. CASE InitiateCancel(n)
    BY <1>0, <1>9, CancelMoves DEF InitiateCancel, Pending
  <1>10. CASE InitiateCancelFails(n)
    <2>1. \A m \in Nodes : row'[m].state = row[m].state
      BY <1>10, SetFlagEffect DEF InitiateCancelFails
    <2> QED
      BY <1>0, <1>10, <2>1, RowJobKept
         DEF InitiateCancelFails, SamePhases, Pending
  <1>11. CASE RetryProvisioning(n)
    <2>1. /\ job[n].phase = "failed" /\ job'[n].phase = "preflight"
          /\ \A m \in Nodes : m # n => job'[m] = job[m]
      BY <1>0, <1>11 DEF RetryProvisioning
    <2>2. PhaseMove(n)
      BY <2>1 DEF PhaseMove
    <2> QED
      BY <1>0, <1>11, <2>1, <2>2, RowJobMoves DEF RetryProvisioning, Pending
  <1>12. CASE RetryMirror(n)
    BY <1>0, <1>12, SetStateEffect, RowJobKept
       DEF RetryMirror, SamePhases, Pending
  <1>13. CASE ApiDies(n)
    <2>1. \A m \in Nodes : "enqueue" \in api'[m] => "enqueue" \in api[m]
      BY <1>13, ReturnTyped DEF ApiDies
    <2> QED
      BY <1>13, <2>1, RowJobKept DEF ApiDies, SamePhases
  <1> QED
    BY <1>1, <1>2, <1>3, <1>4, <1>5, <1>6, <1>7, <1>8, <1>9, <1>10, <1>11,
       <1>12, <1>13 DEF ApiStep

\* A node's own steps change no phase.
LEMMA NodeStepMoves ==
    ASSUME TypeOK, RowJob, NEW n \in Nodes, NodeStep(n)
    PROVE  RowJob' /\ LegalPhases
  <1>0. row \in [Nodes -> RowRecord] /\ job \in [Nodes -> JobRecord]
    BY DEF TypeOK
  <1>1. CASE Register(n)
    <2>1. \A m \in Nodes : row'[m].state = row[m].state
      BY <1>0, <1>1 DEF Register, RowRecord
    <2> QED
      BY ZenonT(40), <1>1, <2>1, RowJobKept DEF Register, SamePhases
  <1>2. CASE OpenChannel(n)
    <2>1. \A m \in Nodes :
            /\ row'[m].state = "purged" <=> row[m].state = "purged"
            /\ row'[m].state = "absent" => row[m].state = "absent"
      BY <1>0, <1>2 DEF OpenChannel, SetState, Present, RowRecord
    <2> QED
      BY <1>2, <2>1, RowJobKept DEF OpenChannel, SamePhases
  <1>3. CASE LeaseExpires(n)
    <2>1. SamePhases
      BY <1>0, <1>3 DEF LeaseExpires, SamePhases, JobRecord
    <2> QED
      BY <1>3, <2>1, RowJobKept DEF LeaseExpires
  <1>4. CASE BackoffElapses(n)
    <2>1. SamePhases
      BY <1>0, <1>4 DEF BackoffElapses, SamePhases, JobRecord
    <2> QED
      BY <1>4, <2>1, RowJobKept DEF BackoffElapses
  <1> QED
    BY <1>1, <1>2, <1>3, <1>4 DEF NodeStep

\* Of a process's steps, only the reaper's purge changes a phase.
LEMMA ProcStepMoves ==
    ASSUME TypeOK, References, RowJob, NEW p \in Procs, ProcStep(p)
    PROVE  RowJob' /\ LegalPhases
  <1>1. CASE \/ TakeLock(p) \/ LoseLock(p) \/ Shutdown(p) \/ Crash(p)
             \/ (\E n \in Nodes : ReaperFind(p, n)) \/ ReaperSweep(p)
    BY <1>1, RowJobUntouched
       DEF TakeLock, LoseLock, Shutdown, Crash, LoopEnds, ReaperFind, ReaperSweep
  <1>2. CASE ReaperRearm(p)
    <2>1. reaper[p].node \in Nodes
      BY <1>2 DEF ReaperRearm, References
    <2> QED
      BY <1>2, <2>1, CancelMoves, RowJobUntouched DEF ReaperRearm
  <1>3. CASE ReaperPurge(p)
    <2>1. reaper[p].node \in Nodes
      BY <1>3 DEF ReaperPurge, References
    <2> QED
      BY <1>3, <2>1, RowJobPurged, RowJobUntouched DEF ReaperPurge
  <1> QED
    BY <1>1, <1>2, <1>3 DEF ProcStep

\* Under the lease, the phase that a coroutine commits follows the one it read.
LEMMA HeldMoves ==
    ASSUME TypeOK, References, RowJob, NEW w \in Worker, Held(w),
           worker[w].pc = "finished",
           NEW ph \in {NextPhase(worker[w].phase), "failed"},
           MoveTo(worker[w].node, ph), UNCHANGED <<row, api>>
    PROVE  RowJob' /\ LegalPhases
  <1> DEFINE n == worker[w].node
  <1>1. n \in Nodes /\ job[n].phase \in ActivePhase
    BY DEF Held, SamePhase, References
  <1>2. ph \in Phase /\ ph # "purged" /\ job[n].phase \notin {"none", "purged"}
    BY <1>1 DEF NextPhase, L!NextPhase, Phase, L!Phase, ActivePhase,
                L!ActivePhase
  <1>3. /\ job'[n].phase = ph
        /\ \A m \in Nodes : m # n => job'[m] = job[m]
    BY <1>1, <1>2, MoveToEffect
  <1>4. PhaseMove(n)
    BY <1>1, <1>3 DEF PhaseMove, Held, SamePhase
  <1> QED
    BY ZenonT(40), <1>1, <1>2, <1>3, <1>4, RowJobMoves

\* Every step of a coroutine moves phases along the lifecycle.
LEMMA WorkerStepMoves ==
    ASSUME TypeOK, References, RowJob, NEW w \in Worker, WorkerStep(w)
    PROVE  RowJob' /\ LegalPhases
  <1> DEFINE n == worker[w].node
  <1>0. job \in [Nodes -> JobRecord]
    BY DEF TypeOK
  <1>1. CASE \E m \in Nodes : ClaimNextJob(w, m)
    <2>1. PICK m \in Nodes : ClaimNextJob(w, m)
      BY <1>1
    <2>2. \A k \in Nodes : job'[k].phase = job[k].phase
      BY <1>0, <2>1 DEF ClaimNextJob, JobRecord
    <2> QED
      BY <2>1, <2>2, RowJobKept DEF ClaimNextJob, SamePhases
  <1>2. CASE \/ LoadContextFails(w) \/ StartHandler(w) \/ HandlerRaises(w)
             \/ FinishPreflight(w) \/ FinishBootstrap(w) \/ RenewerStops(w)
             \/ CommitDropped(w) \/ FailDeps(w) \/ Sweep(w)
    BY <1>2, RowJobUntouched
       DEF LoadContextFails, StartHandler, HandlerRaises, FinishPreflight,
           FinishBootstrap, RenewerStops, CommitDropped, FailDeps, Sweep
  <1>3. CASE RenewLease(w)
    <2>1. SamePhases
      BY <1>0, <1>3 DEF RenewLease, SamePhases, JobRecord
    <2> QED
      BY <1>3, <2>1, RowJobKept DEF RenewLease
  <1>4. CASE RenewerRaises(w)
    <2> DEFINE j == [job[n] EXCEPT !.holder = NoProc, !.expired = FALSE]
    <2>1. n \in Nodes
      BY <1>4 DEF RenewerRaises, References
    <2>2. j.phase = job[n].phase
      BY <1>0, <2>1 DEF JobRecord
    <2>3. \/ job' = job
          \/ job' = [job EXCEPT ![n] = IF job[n].holder = Proc(w)
                                       THEN j ELSE job[n]]
      BY <1>4 DEF RenewerRaises
    <2> HIDE DEF j
    <2>4. \A m \in Nodes : job'[m].phase = job[m].phase
      BY <1>0, <2>1, <2>2, <2>3
    <2> QED
      BY <1>4, <2>4, RowJobKept DEF RenewerRaises, SamePhases
  <1>5. CASE CommitAdvance(w)
    BY <1>5, HeldMoves DEF CommitAdvance
  <1>6. CASE CommitRetry(w)
    <2>1. ASSUME NEW m \in Nodes PROVE job'[m].phase = job[m].phase
      BY <1>0, <1>6 DEF CommitRetry, JobRecord
    <2> QED
      BY <1>6, <2>1, RowJobKept DEF CommitRetry, SamePhases
  <1>7. CASE CommitFail(w)
    BY <1>7, HeldMoves DEF CommitFail
  <1>8. CASE MirrorReady(w) \/ MirrorFailed(w)
    <2>1. n \in Nodes
      BY ZenonT(40), <1>8 DEF MirrorReady, MirrorFailed, References
    <2>2. \A m \in Nodes :
            /\ row'[m].state = "purged" <=> row[m].state = "purged"
            /\ row'[m].state = "absent" => row[m].state = "absent"
      BY <1>8, <2>1, SetStateEffect DEF MirrorReady, MirrorFailed
    <2> QED
      BY <1>8, <2>2, RowJobKept DEF MirrorReady, MirrorFailed, SamePhases
  <1>9. CASE Purge(w)
    <2>1. n \in Nodes
      BY <1>9 DEF Purge, References
    <2> QED
      BY <1>9, <2>1, RowJobPurged, RowJobUntouched DEF Purge
  <1> QED
    BY ZenonT(40),
       <1>1, <1>2, <1>3, <1>4, <1>5, <1>6, <1>7, <1>8, <1>9 DEF WorkerStep

\* A pulumi thread changes no phase.
LEMMA OpStepMoves ==
    ASSUME TypeOK, RowJob, NEW t \in Threads, OpStep(t)
    PROVE  RowJob' /\ LegalPhases
  BY RowJobUntouched
     DEF OpStep, OpLock, OpBreakLock, OpLockFails, UpLaunch, UpSave, UpNoop,
         UpFails, DestroyDone, DestroyFails

\* Every step of the system moves phases along the lifecycle.
LEMMA NextMoves ==
    TypeOK /\ References /\ RowJob /\ [Next]_vars => RowJob' /\ LegalPhases
  <1> SUFFICES ASSUME TypeOK, References, RowJob, [Next]_vars
               PROVE  RowJob' /\ LegalPhases
    OBVIOUS
  <1>1. CASE Next
    BY <1>1, ApiStepMoves, NodeStepMoves, ProcStepMoves, WorkerStepMoves,
       OpStepMoves DEF Next
  <1>2. CASE UNCHANGED vars
    BY <1>2, RowJobUntouched DEF vars
  <1> QED
    BY <1>1, <1>2

\* There is neither row nor job at the start.
LEMMA InitRowJob == Init => RowJob
  BY DEF Init, RowJob

\* The inductive invariant: types, references, and rows that match their jobs.
LEMMA BaseInvariant == Spec => [](TypeOK /\ References /\ RowJob)
  BY InitTyped, NextTyped, InitRowJob, NextMoves, PTL DEF Spec

\* The phases one step leads to are a step of JobLifecycle, or a stutter.
LEMMA LegalPhasesRefine ==
    ASSUME TypeOK, LegalPhases
    PROVE  L!Next \/ UNCHANGED [n \in Nodes |-> job[n].phase]
  <1>1. CASE SamePhases
    BY <1>1 DEF SamePhases
  <1>2. CASE \E n \in Nodes : PhaseMove(n)
    <2>1. PICK n \in Nodes : PhaseMove(n)
      BY <1>2
    <2>2. L!Move(n, job'[n].phase)
      BY ZenonT(40), <2>1 DEF PhaseMove, L!Move
    <2>3. \/ L!Enqueue(n) \/ L!Advance(n) \/ L!Fail(n)
          \/ L!Cancel(n) \/ L!Retry(n) \/ L!Purge(n)
      <3>1. [k \in Nodes |-> job[k].phase][n] = job[n].phase
        OBVIOUS
      <3>2. ASSUME NEW ph, job'[n].phase = ph PROVE L!Move(n, ph)
        BY ZenonT(40), <2>1, <3>2 DEF PhaseMove, L!Move
      <3>3. CASE job[n].phase \in ActivePhase
                 /\ job'[n].phase = NextPhase(job[n].phase)
        <4> DEFINE next == NextPhase(job[n].phase)
        <4>1. next = L!NextPhase([k \in Nodes |-> job[k].phase][n])
          BY <3>1 DEF NextPhase
        <4>2. job'[n].phase = next
          BY <3>3
        <4> HIDE DEF next
        <4>3. L!Move(n, next)
          BY ZenonT(40), <2>1, <4>2 DEF PhaseMove, L!Move
        <4>4. L!Advance(n)
          BY <3>1, <3>3, <4>1, <4>3 DEF L!Advance, L!Move, ActivePhase
        <4> QED
          BY <4>4
      <3>4. CASE job'[n].phase = "purged"
        BY <3>2, <3>4 DEF L!Purge
      <3>5. CASE job[n].phase \in ActivePhase /\ job'[n].phase = "failed"
        BY <3>1, <3>2, <3>5 DEF L!Fail, ActivePhase
      <3>6. CASE job[n].phase = "none" /\ job'[n].phase = "preflight"
        BY <3>1, <3>2, <3>6 DEF L!Enqueue
      <3>7. CASE job[n].phase = "failed" /\ job'[n].phase = "preflight"
        BY <3>1, <3>2, <3>7 DEF L!Retry
      <3>8. CASE job[n].phase \in L!Cancellable
                 /\ job'[n].phase = "cancelling"
        BY <3>1, <3>2, <3>8 DEF L!Cancel
      <3> QED
        BY <2>1, <3>3, <3>4, <3>5, <3>6, <3>7, <3>8 DEF PhaseMove
    <2> QED
      BY <2>3 DEF L!Next
  <1> QED
    BY <1>1, <1>2 DEF LegalPhases

\* Every behaviour of the reconciler is one of JobLifecycle: leases, retries,
\* crashes and stale coroutines never make a job leave its phase graph, since
\* every guarded UPDATE of the job repository rechecks the phase.
THEOREM LifecycleRefined == Spec => Lifecycle
  <1>1. Init => L!Init
    BY DEF Init, L!Init
  <1>2. TypeOK /\ References /\ RowJob /\ [Next]_vars
           => [L!Next]_([n \in Nodes |-> job[n].phase])
    BY NextMoves, LegalPhasesRefine
  <1> QED
    BY <1>1, <1>2, BaseInvariant, PTL DEF Spec, Lifecycle, L!Spec

-----------------------------------------------------------------------------
(* Leaks.                                                                  *)

\* No instance of n is left, or there is a cause on record for it.
Swept(n) == ~Live(n) \/ cause[n] # {}

\* What makes LeakHasCause inductive: a coroutine that tears a node down works
\* on a job that is over, so that an instance launched meanwhile is a late one;
\* past its sweep the node is swept; and likewise for the reaper, whose node
\* has no job left that could launch anything unless a cause is on record.
Teardown ==
    /\ \A w \in Worker : worker[w].pc \in {"sweep", "purge"}
          => job[worker[w].node].phase \in {"terminated", "purged"}
    /\ \A w \in Worker : worker[w].pc = "purge" => Swept(worker[w].node)
    /\ \A p \in Procs : reaper[p].pc = "purge" =>
          \/ cause[reaper[p].node] # {}
          \/ ~Live(reaper[p].node) /\ JobOver(reaper[p].node)
    /\ \A n \in Nodes : row[n].state = "purged" => Swept(n)

\* A job that is over stays over.
LEMMA OverStays ==
    ASSUME TypeOK, LegalPhases, NEW n \in Nodes
    PROVE  /\ job[n].phase \in {"terminated", "purged"}
                 => job'[n].phase \in {"terminated", "purged"}
           /\ JobOver(n) /\ row[n].state # "absent" => JobOver(n)'
  <1>1. CASE SamePhases
    BY <1>1 DEF LegalPhases, SamePhases, JobOver
  <1>2. CASE \E m \in Nodes : PhaseMove(m)
    BY ZenonT(40),
       <1>2 DEF LegalPhases, PhaseMove, JobOver, ActivePhase, L!ActivePhase,
                L!Cancellable
  <1> QED
    BY <1>1, <1>2 DEF LegalPhases

\* What a step may do: a coroutine or a reaper gets further with a teardown, or
\* a node is purged, only with what Teardown asks for; and an instance comes up
\* only for a job that is provisioning, or with a cause on record.
Careful ==
    /\ \A w \in Worker : worker'[w].pc \in {"sweep", "purge"}
          => \/ /\ worker'[w].pc = worker[w].pc
                /\ worker'[w].node = worker[w].node
             \/ /\ job'[worker'[w].node].phase \in {"terminated", "purged"}
                /\ worker'[w].pc = "purge" => Swept(worker[w].node)'
    /\ \A p \in Procs : reaper'[p].pc = "purge"
          => \/ reaper[p].pc = "purge" /\ reaper'[p].node = reaper[p].node
             \/ cause'[reaper'[p].node] # {}
             \/ ~Live(reaper[p].node)' /\ JobOver(reaper[p].node)'
    /\ \A n \in Nodes : Live(n)' => \/ Live(n) \/ cause'[n] # {}
                                    \/ job[n].phase = "provisioning"
    /\ \A n \in Nodes : cause[n] # {} => cause'[n] # {}
    /\ \A n \in Nodes : row'[n].state = "purged"
          => row[n].state = "purged" \/ Swept(n)'

\* Careful steps keep the invariant of teardown.
LEMMA CarefulKeeps ==
    ASSUME TypeOK, References, RowJob, Teardown, LegalPhases, Careful
    PROVE  Teardown'
  <1>1. ASSUME NEW w \in Worker, worker'[w].pc \in {"sweep", "purge"},
               worker'[w].pc = worker[w].pc, worker'[w].node = worker[w].node
        PROVE  /\ job'[worker'[w].node].phase \in {"terminated", "purged"}
               /\ worker'[w].pc = "purge" => Swept(worker[w].node)'
    <2>1. PICK n \in Nodes : n = worker[w].node
      BY <1>1 DEF References
    <2>2. /\ job[n].phase \in {"terminated", "purged"}
          /\ worker[w].pc = "purge" => Swept(n)
      BY <1>1, <2>1 DEF Teardown
    <2>3. job'[n].phase \in {"terminated", "purged"}
      BY <2>2, OverStays
    <2>4. Swept(n) => Swept(n)'
      BY <2>2 DEF Careful, Swept
    <2> QED
      BY <1>1, <2>1, <2>2, <2>3, <2>4
  <1>2. ASSUME NEW p \in Procs, reaper[p].pc = "purge",
               reaper'[p].node = reaper[p].node
        PROVE  \/ cause'[reaper'[p].node] # {}
               \/ ~Live(reaper[p].node)' /\ JobOver(reaper[p].node)'
    <2>1. PICK n \in Nodes : n = reaper[p].node /\ row[n].state # "absent"
      BY <1>2 DEF References
    <2>2. cause[n] # {} \/ (~Live(n) /\ JobOver(n))
      BY <1>2, <2>1 DEF Teardown
    <2>3. CASE cause[n] # {}
      BY <1>2, <2>1, <2>3 DEF Careful
    <2>4. CASE ~Live(n) /\ JobOver(n)
      <3>1. JobOver(n)' /\ job[n].phase # "provisioning"
        BY ZenonT(40), <2>1, <2>4, OverStays DEF JobOver
      <3>2. cause'[n] # {} \/ ~Live(n)'
        BY ZenonT(40), <2>4, <3>1 DEF Careful
      <3> QED
        BY <1>2, <2>1, <3>1, <3>2
    <2> QED
      BY <2>2, <2>3, <2>4
  <1>3. ASSUME NEW n \in Nodes, row[n].state = "purged" PROVE Swept(n)'
    <2>1. job[n].phase = "purged" /\ Swept(n)
      BY <1>3 DEF RowJob, Teardown
    <2> QED
      BY ZenonT(40), <2>1 DEF Careful, Swept
  <1> QED
    BY <1>1, <1>2, <1>3 DEF Careful, Teardown

\* A step that changes rows only is careful if what it purges is swept.
LEMMA CarefulRows ==
    ASSUME UNCHANGED <<worker, op, ec2, reaper, cause>>,
           \A n \in Nodes : row'[n].state = "purged"
              => row[n].state = "purged" \/ Swept(n)'
    PROVE  Careful
  BY DEF Careful, Live, Launched

\* Only coroutine w moves, and not into a teardown.
LEMMA CarefulWorker ==
    ASSUME UNCHANGED <<op, ec2, reaper, cause>>, NEW w \in Worker,
           \A v \in Worker : v # w => worker'[v] = worker[v],
           worker'[w].pc \notin {"sweep", "purge"},
           \A n \in Nodes : row'[n].state = "purged"
              => row[n].state = "purged" \/ Swept(n)'
    PROVE  Careful
  BY DEF Careful, Live, Launched

\* Threads and coroutines move, and no instance comes up.
LEMMA CarefulThreads ==
    ASSUME UNCHANGED <<row, reaper, cause>>,
           \A w \in Worker : worker'[w].pc \in {"sweep", "purge"}
              => worker'[w] = worker[w],
           \A n \in Nodes : Live(n)' => Live(n)
    PROVE  Careful
  BY DEF Careful

\* Instances only appear with a launch.
LEMMA LiveKept ==
    ASSUME ec2' = ec2,
           \A t \in Threads : op'[t].step = "launched"
              => op[t].step = "launched" /\ op'[t].node = op[t].node
    PROVE  \A n \in Nodes : Live(n)' => Live(n)
  BY DEF Live, Launched

\* A purge of a swept node.
LEMMA PurgeSwept ==
    ASSUME TypeOK, NEW n \in Nodes, PurgeNode(n), Swept(n)',
           NEW m \in Nodes, row'[m].state = "purged"
    PROVE  row[m].state = "purged" \/ Swept(m)'
  BY PurgeNodeEffect

\* A request that purges without a sweep is recorded as a cause.
LEMMA ApiStepCareful ==
    ASSUME TypeOK, NEW n \in Nodes, ApiStep(n)
    PROVE  Careful
  <1>0. row \in [Nodes -> RowRecord]
    BY DEF TypeOK
  <1>1. CASE Place(n)
    <2>1. \A m \in Nodes : row'[m].state = "purged" => row[m].state = "purged"
      BY ZenonT(40), <1>0, <1>1 DEF Place, RowRecord
    <2> QED
      BY <1>1, <2>1, CarefulRows DEF Place
  <1>2. CASE \/ Enqueue(n) \/ EnqueueFails(n) \/ TerminateDeployment(n)
             \/ InitiateCancel(n) \/ RetryProvisioning(n) \/ ApiDies(n)
    BY <1>2, CarefulRows DEF Enqueue, EnqueueFails, TerminateDeployment,
       InitiateCancel, RetryProvisioning, ApiDies
  <1>3. CASE DeleteNode(n)
    <2>1. CASE job[n].phase = "terminated"
      <3>1. /\ PurgeNode(n) /\ Blame(n, "unswept", Live(n))
            /\ UNCHANGED <<worker, op, ec2, reaper>>
        BY <1>3, <2>1 DEF DeleteNode
      <3>2. Live(n) \in BOOLEAN /\ "unswept" \in Causes
        BY ZenonT(40) DEF Live, TypeOK, Ec2Record, Causes
      <3>3. /\ Live(n) => cause'[n] # {}
            /\ \A m \in Nodes : cause[m] # {} => cause'[m] # {}
        BY <3>1, <3>2, BlameEffect
      <3>4. \A m \in Nodes : Live(m)' <=> Live(m)
        BY <3>1 DEF Live, Launched
      <3>5. Swept(n)'
        BY <3>3, <3>4 DEF Swept
      <3>6. \A m \in Nodes : row'[m].state = "purged"
               => row[m].state = "purged" \/ Swept(m)'
        BY ZenonT(40), <3>1, <3>5, PurgeSwept
      <3> QED
        BY ZenonT(40), <3>1, <3>3, <3>4, <3>6 DEF Careful
    <2>2. CASE job[n].phase # "terminated"
      BY ZenonT(40), <1>3, <2>2, CarefulRows DEF DeleteNode
    <2> QED
      BY ZenonT(40), <2>1, <2>2
  <1>4. CASE SoftDelete(n)
    BY <1>4, SetStateEffect, CarefulRows DEF SoftDelete
  <1>5. CASE MarkTerminating(n)
    BY <1>5, SetFlagEffect, CarefulRows DEF MarkTerminating
  <1>6. CASE InitiateDestroy(n)
    <2>1. \A m \in Nodes : row'[m].state = row[m].state
      BY <1>6, SetFlagEffect DEF InitiateDestroy
    <2> QED
      BY <1>6, <2>1, CarefulRows DEF InitiateDestroy
  <1>7. CASE InitiateCancelFails(n)
    <2>1. \A m \in Nodes : row'[m].state = row[m].state
      BY <1>7, SetFlagEffect DEF InitiateCancelFails
    <2> QED
      BY <1>7, <2>1, CarefulRows DEF InitiateCancelFails
  <1>8. CASE RetryMirror(n)
    BY <1>8, SetStateEffect, CarefulRows DEF RetryMirror
  <1> QED
    BY <1>1, <1>2, <1>3, <1>4, <1>5, <1>6, <1>7, <1>8 DEF ApiStep

\* No step of a node tears anything down.
LEMMA NodeStepCareful ==
    ASSUME TypeOK, NEW n \in Nodes, NodeStep(n)
    PROVE  Careful
  <1>0. row \in [Nodes -> RowRecord]
    BY DEF TypeOK
  <1>1. CASE Register(n)
    <2>1. \A m \in Nodes : row'[m].state = row[m].state
      BY <1>0, <1>1 DEF Register, RowRecord
    <2> QED
      BY ZenonT(40), <1>1, <2>1, CarefulRows DEF Register
  <1>2. CASE OpenChannel(n)
    <2>1. \A m \in Nodes : row'[m].state = "purged" => row[m].state = "purged"
      BY <1>0, <1>2 DEF OpenChannel, SetState, Present, RowRecord
    <2> QED
      BY <1>2, <2>1, CarefulRows DEF OpenChannel
  <1>3. CASE LeaseExpires(n) \/ BackoffElapses(n)
    BY <1>3, CarefulRows DEF LeaseExpires, BackoffElapses
  <1> QED
    BY <1>1, <1>2, <1>3 DEF NodeStep

\* What a sweep leaves of the instances.
LEMMA SweepLive ==
    ASSUME TypeOK, NEW n \in Nodes, SweepNode(n) \/ SweepFails(n)
    PROVE  /\ SweepNode(n) => ~Live(n)'
           /\ SweepFails(n) => \A m \in Nodes : Live(m)' <=> Live(m)
           /\ \A m \in Nodes : Live(m)' => Live(m)
  <1>1. SweepNode(n) => ~Live(n)' /\ \A m \in Nodes : Live(m)' => Live(m)
    <2> SUFFICES ASSUME SweepNode(n)
                 PROVE  ~Live(n)' /\ \A m \in Nodes : Live(m)' => Live(m)
      BY ZenonT(40)
    <2>1. /\ ~ec2'[n].tracked /\ ~ec2'[n].stray
          /\ \A m \in Nodes : m # n => ec2'[m] = ec2[m]
          /\ \A t \in Threads :
               /\ op'[t].node = op[t].node
               /\ op'[t].step = "launched" =>
                     op[t].step = "launched" /\ op[t].node # n
      BY SweepNodeEffect
    <2> QED
      BY <2>1 DEF Live, Launched
  <1>2. SweepFails(n) => \A m \in Nodes : Live(m)' <=> Live(m)
    BY ZenonT(40) DEF SweepFails, Live, Launched
  <1> QED
    BY <1>1, <1>2

\* A loop that ends drops its teardowns.
LEMMA LoopEndsCareful ==
    ASSUME TypeOK, NEW p \in Procs, LoopEnds(p),
           \A n \in Nodes : Live(n)' => Live(n)
    PROVE  Careful
  <1>1. \A w \in Worker : worker'[w].pc \in {"sweep", "purge"}
           => worker'[w] = worker[w]
    BY IdleTyped DEF LoopEnds
  <1>2. \A q \in Procs : reaper'[q].pc = "purge" => reaper'[q] = reaper[q]
    BY DEF LoopEnds, TypeOK, NoReap
  <1> QED
    BY ZenonT(40), <1>1, <1>2 DEF Careful, LoopEnds

\* The reaper purges what it has swept.
LEMMA ProcStepCareful ==
    ASSUME TypeOK, References, RowJob, Teardown, NEW p \in Procs, ProcStep(p)
    PROVE  Careful
  <1>0. /\ op \in [Threads -> OpRecord] /\ reaper \in [Procs -> ReaperRecord]
        /\ ec2 \in [Nodes -> Ec2Record]
    BY ZenonT(40) DEF TypeOK
  <1>1. CASE TakeLock(p) \/ LoseLock(p)
    BY <1>1, CarefulRows DEF TakeLock, LoseLock
  <1>2. CASE Shutdown(p)
    <2>1. \A t \in Threads : /\ op'[t].step = op[t].step
                             /\ op'[t].node = op[t].node
      BY <1>0, <1>2 DEF Shutdown, OpRecord
    <2> QED
      BY <1>2, <2>1, LiveKept, LoopEndsCareful DEF Shutdown
  <1>3. CASE Crash(p)
    <2>1. \A t \in Threads : op'[t].step = "launched" => op'[t] = op[t]
      BY <1>0, <1>3, NoOpTyped DEF Crash
    <2>2. ASSUME NEW n \in Nodes, Live(n)' PROVE Live(n)
      <3>1. ec2'[n].tracked = ec2[n].tracked
        BY <1>0, <1>3 DEF Crash, Ec2Record
      <3>2. ec2'[n].stray => ec2[n].stray \/ Launched(n)
        BY ZenonT(40), <1>0, <1>3 DEF Crash, Ec2Record, Launched
      <3> QED
        BY <2>1, <2>2, <3>1, <3>2 DEF Live, Launched
    <2> QED
      BY <1>3, <2>2, LoopEndsCareful DEF Crash
  <1>4. CASE (\E n \in Nodes : ReaperFind(p, n)) \/ ReaperRearm(p)
    <2>1. /\ UNCHANGED <<worker, row, op, ec2, cause>>
          /\ \A q \in Procs : reaper'[q].pc = "purge" => reaper'[q] = reaper[q]
      BY SMTT(40), <1>0, <1>4 DEF ReaperFind, ReaperRearm, ReaperRecord, NoReap
    <2> QED
      BY <2>1 DEF Careful, Live, Launched
  <1>5. CASE ReaperSweep(p)
    <2>1. PICK n \in Nodes : n = reaper[p].node
      BY <1>5 DEF ReaperSweep, References
    <2>2. /\ UNCHANGED <<job, row, worker, api>>
          /\ reaper'[p].node = n
          /\ \A q \in Procs : q # p => reaper'[q] = reaper[q]
          /\ SweepNode(n) \/ SweepFails(n)
      BY ZenonT(40), <1>0, <1>5, <2>1 DEF ReaperSweep, ReaperRecord
    <2>3. /\ JobOver(n)' <=> JobOver(n)
          /\ JobOver(n) \in BOOLEAN /\ Live(n) \in BOOLEAN
          /\ "live_job" \in Causes /\ "sweep_failed" \in Causes
      BY <2>2 DEF JobOver, Live, Causes, TypeOK, Ec2Record
    <2>4. /\ \A m \in Nodes : cause[m] # {} => cause'[m] # {}
          /\ cause'[n] # {} \/ (~Live(n)' /\ JobOver(n)')
      <3>1. CASE SweepNode(n) /\ Blame(n, "live_job", ~JobOver(n))
        BY ZenonT(40), <2>3, <3>1, BlameEffect, SweepLive
      <3>2. CASE /\ SweepFails(n)
                 /\ Blame(n, "sweep_failed", Live(n) \/ ~JobOver(n))
        BY ZenonT(40), <2>3, <3>2, BlameEffect, SweepLive
      <3> QED
        BY ZenonT(40), <1>5, <2>1, <3>1, <3>2 DEF ReaperSweep
    <2>5. \A m \in Nodes : Live(m)' => Live(m)
      BY <2>2, SweepLive
    <2> QED
      BY <2>2, <2>4, <2>5 DEF Careful
  <1>6. CASE ReaperPurge(p)
    <2>1. PICK n \in Nodes : n = reaper[p].node
      BY <1>6 DEF ReaperPurge, References
    <2>2. /\ UNCHANGED <<worker, op, ec2, cause>>
          /\ \A q \in Procs : reaper'[q].pc = "purge" => reaper'[q] = reaper[q]
          /\ PurgeNode(n) \/ row' = row
      BY ZenonT(40), <1>0, <1>6, <2>1 DEF ReaperPurge, NoReap
    <2>3. /\ \A m \in Nodes : Live(m)' <=> Live(m)
          /\ Swept(n)'
      BY ZenonT(40),
         <1>6, <2>1, <2>2 DEF ReaperPurge, Teardown, Swept, Live, Launched
    <2>4. \A m \in Nodes : row'[m].state = "purged"
             => row[m].state = "purged" \/ Swept(m)'
      BY <2>2, <2>3, PurgeSwept
    <2> QED
      BY ZenonT(40), <2>2, <2>3, <2>4 DEF Careful
  <1> QED
    BY ZenonT(40), <1>1, <1>2, <1>3, <1>4, <1>5, <1>6 DEF ProcStep

\* A coroutine purges what it has swept.
LEMMA WorkerStepCareful ==
    ASSUME TypeOK, References, RowJob, Teardown, NEW w \in Worker,
           WorkerStep(w)
    PROVE  Careful
  <1>0. /\ op \in [Threads -> OpRecord] /\ worker \in [Worker -> WorkerRecord]
    BY DEF TypeOK
  <1>1. CASE \E m \in Nodes : ClaimNextJob(w, m)
    <2>1. /\ UNCHANGED <<row, op, ec2, reaper, cause>>
          /\ worker'[w].pc = "claimed"
          /\ \A v \in Worker : v # w => worker'[v] = worker[v]
      BY <1>0, <1>1, IdleTyped DEF ClaimNextJob, Idle
    <2> QED
      BY <2>1, CarefulWorker
  <1>2. CASE LoadContextFails(w) \/ CommitRetry(w) \/ CommitDropped(w)
             \/ FailDeps(w)
    BY <1>2, GoIdleEffect, CarefulWorker
       DEF LoadContextFails, CommitRetry, CommitDropped, FailDeps
  <1>3. CASE StartHandler(w)
    <2>1. /\ worker'[w].pc = "running"
          /\ \A v \in Worker : v # w => worker'[v] = worker[v]
      BY <1>0, <1>3 DEF StartHandler, WorkerRecord
    <2>2. \A t \in Threads : op'[t].step = "launched" => op'[t] = op[t]
      BY <1>0, <1>3 DEF StartHandler
    <2>3. UNCHANGED <<row, ec2, reaper, cause>>
      BY <1>3 DEF StartHandler
    <2>4. \A n \in Nodes : Live(n)' => Live(n)
      BY <2>2, <2>3, LiveKept
    <2>5. \A v \in Worker : worker'[v].pc \in {"sweep", "purge"}
             => worker'[v] = worker[v]
      BY <2>1
    <2> QED
      BY <2>3, <2>4, <2>5, CarefulThreads
  <1>4. CASE HandlerRaises(w) \/ FinishPreflight(w) \/ FinishBootstrap(w)
    <2>1. /\ \E r \in Results : Finish(w, r)
          /\ UNCHANGED <<row, op, ec2, reaper, cause>>
      BY ZenonT(40),
         <1>4 DEF HandlerRaises, FinishPreflight, FinishBootstrap, Results
    <2>2. /\ worker'[w].pc = "finished"
          /\ \A v \in Worker : v # w => worker'[v] = worker[v]
      BY <2>1, FinishEffect
    <2> QED
      BY ZenonT(40), <2>1, <2>2, CarefulWorker
  <1>5. CASE RenewLease(w)
    BY <1>5, CarefulRows DEF RenewLease
  <1>6. CASE RenewerStops(w)
    <2>1. /\ worker'[w].pc = "running"
          /\ \A v \in Worker : v # w => worker'[v] = worker[v]
      BY ZenonT(40), <1>0, <1>6 DEF RenewerStops, WorkerRecord
    <2> QED
      BY <1>6, <2>1, CarefulWorker DEF RenewerStops
  <1>7. CASE RenewerRaises(w)
    <2>1. /\ GoIdle(w) /\ UNCHANGED <<row, ec2, reaper, cause>>
      BY <1>7 DEF RenewerRaises
    <2>2. \A t \in Threads : /\ op'[t].step = op[t].step
                             /\ op'[t].node = op[t].node
      BY <1>0, <1>7 DEF RenewerRaises, OpRecord
    <2>3. \A n \in Nodes : Live(n)' => Live(n)
      BY <2>1, <2>2, LiveKept
    <2>4. \A v \in Worker : worker'[v].pc \in {"sweep", "purge"}
             => worker'[v] = worker[v]
      BY <2>1, GoIdleEffect
    <2> QED
      BY <2>1, <2>3, <2>4, CarefulThreads
  <1>8. CASE CommitAdvance(w)
    <2> DEFINE next == NextPhase(worker[w].phase)
    <2>0. PICK n \in Nodes : n = worker[w].node
      BY <1>8 DEF CommitAdvance, References
    <2>1. /\ UNCHANGED <<row, op, ec2, reaper, cause>> /\ MoveTo(n, next)
          /\ \/ next = "terminated" /\ Goto(w, "sweep")
             \/ Goto(w, "mirror_ready") \/ GoIdle(w)
      BY <1>8, <2>0 DEF CommitAdvance
    <2>2. next \in Phase
      BY ZenonT(40) DEF NextPhase, L!NextPhase, Phase, L!Phase, L!ActivePhase
    <2>3. job'[n].phase = next
      BY ZenonT(40), <2>1, <2>2, MoveToEffect
    <2> HIDE DEF next
    <2>4. CASE next = "terminated" /\ Goto(w, "sweep")
      <3>1. /\ worker'[w].pc = "sweep" /\ worker'[w].node = n
            /\ \A v \in Worker : v # w => worker'[v] = worker[v]
        BY <2>0, <2>4, GotoEffect
      <3>2. \A m \in Nodes : Live(m)' <=> Live(m)
        BY ZenonT(40), <2>1 DEF Live, Launched
      <3> QED
        BY ZenonT(40), <2>1, <2>3, <2>4, <3>1, <3>2 DEF Careful
    <2>5. CASE Goto(w, "mirror_ready") \/ GoIdle(w)
      BY ZenonT(40), <2>1, <2>5, GotoEffect, GoIdleEffect, CarefulWorker
    <2> QED
      BY <2>1, <2>4, <2>5
  <1>9. CASE CommitFail(w)
    BY ZenonT(40), <1>9, GotoEffect, CarefulWorker DEF CommitFail
  <1>10. CASE MirrorReady(w) \/ MirrorFailed(w)
    <2>1. worker[w].node \in Nodes
      BY ZenonT(40), <1>10 DEF MirrorReady, MirrorFailed, References
    <2>2. \A m \in Nodes : row'[m].state = "purged" => row[m].state = "purged"
      BY ZenonT(40), <1>10, <2>1, SetStateEffect DEF MirrorReady, MirrorFailed
    <2>3. /\ worker'[w].pc \notin {"sweep", "purge"}
          /\ \A v \in Worker : v # w => worker'[v] = worker[v]
      BY ZenonT(40),
         <1>10, GoIdleEffect, GotoEffect DEF MirrorReady, MirrorFailed
    <2> QED
      BY ZenonT(40),
         <1>10, <2>2, <2>3, CarefulWorker DEF MirrorReady, MirrorFailed
  <1>11. CASE Sweep(w)
    <2>0. PICK n \in Nodes : n = worker[w].node
      BY ZenonT(40), <1>11 DEF Sweep, References
    <2>1. /\ UNCHANGED <<job, row, reaper>>
          /\ job[n].phase \in {"terminated", "purged"}
          /\ \/ SweepNode(n) /\ cause' = cause
             \/ SweepFails(n) /\ Blame(n, "sweep_failed", Live(n))
      BY <1>11, <2>0 DEF Sweep, Teardown
    <2>2. Live(n) \in BOOLEAN /\ "sweep_failed" \in Causes
      BY ZenonT(40) DEF Live, Causes, TypeOK, Ec2Record
    <2>3. /\ Swept(n)'
          /\ \A m \in Nodes : cause[m] # {} => cause'[m] # {}
      BY <2>1, <2>2, SweepLive, BlameEffect DEF Swept
    <2>4. \A m \in Nodes : Live(m)' => Live(m)
      BY ZenonT(40), <2>1, SweepLive
    <2>5. /\ worker'[w].pc = "purge" /\ worker'[w].node = n
          /\ \A v \in Worker : v # w => worker'[v] = worker[v]
      BY ZenonT(40), <1>11, <2>0, GotoEffect DEF Sweep
    <2> QED
      BY ZenonT(40), <2>1, <2>3, <2>4, <2>5 DEF Careful
  <1>12. CASE Purge(w)
    <2>0. PICK n \in Nodes : n = worker[w].node
      BY ZenonT(40), <1>12 DEF Purge, References
    <2>1. /\ UNCHANGED <<op, ec2, reaper, cause>> /\ GoIdle(w)
          /\ PurgeNode(n) \/ row' = row
          /\ Swept(n)
      BY ZenonT(40), <1>12, <2>0 DEF Purge, Teardown
    <2>2. Swept(n)'
      BY ZenonT(40), <2>1 DEF Swept, Live, Launched
    <2>3. \A m \in Nodes : row'[m].state = "purged"
             => row[m].state = "purged" \/ Swept(m)'
      BY <2>1, <2>2, PurgeSwept
    <2> QED
      BY ZenonT(40), <2>1, <2>3, GoIdleEffect, CarefulWorker
  <1> QED
    BY ZenonT(40),
       <1>1, <1>2, <1>3, <1>4, <1>5, <1>6, <1>7, <1>8, <1>9, <1>10, <1>11,
       <1>12 DEF WorkerStep

\* A thread that ends launches nothing.
LEMMA OpEndsCareful ==
    ASSUME TypeOK, References, NEW t \in Threads,
           \/ OpReturns(t) \/ OpRaises(t) \/ OpEnds(t, "permanent"),
           UNCHANGED <<row, reaper, cause>>,
           \A n \in Nodes : (ec2'[n].tracked \/ ec2'[n].stray) => Live(n)
    PROVE  Careful
  <1>1. PICK r \in Results : OpEnds(t, r)
    BY DEF OpReturns, OpRaises, Results
  <1>2. /\ op'[t] = NoOp /\ \A u \in Threads : u # t => op'[u] = op[u]
        /\ \A w \in Worker : worker'[w] = worker[w] \/ worker'[w].pc = "finished"
    BY ZenonT(40), <1>1, OpEndsEffect
  <1>3. \A n \in Nodes : Live(n)' => Live(n)
    BY <1>2, NoOpTyped DEF Live, Launched
  <1> QED
    BY <1>2, <1>3, CarefulThreads

\* A thread that launches beside a teardown is recorded as a cause.
LEMMA OpStepCareful ==
    ASSUME TypeOK, References, NEW t \in Threads, OpStep(t)
    PROVE  Careful
  <1>0. op \in [Threads -> OpRecord] /\ ec2 \in [Nodes -> Ec2Record]
    BY DEF TypeOK
  <1>1. CASE OpLock(t) \/ OpBreakLock(t)
    <2>1. \A u \in Threads : op'[u].step = "launched" => op'[u] = op[u]
      BY ZenonT(40), <1>0, <1>1 DEF OpLock, OpBreakLock, OpRecord
    <2>2. UNCHANGED <<worker, row, ec2, reaper, cause>>
      BY ZenonT(40), <1>1 DEF OpLock, OpBreakLock
    <2>3. \A n \in Nodes : Live(n)' => Live(n)
      BY <2>1, <2>2, LiveKept
    <2> QED
      BY <2>2, <2>3, CarefulThreads
  <1>2. CASE UpLaunch(t)
    <2>0. PICK n \in Nodes : n = op[t].node
      BY <1>2 DEF UpLaunch, References
    <2>1. /\ UNCHANGED <<worker, row, ec2, reaper>>
          /\ Blame(n, "late_up", job[n].phase # "provisioning")
          /\ op' = [op EXCEPT ![t].step = "launched"]
      BY <1>2, <2>0 DEF UpLaunch
    <2>2. /\ job[n].phase # "provisioning" => cause'[n] # {}
          /\ \A m \in Nodes : cause[m] # {} => cause'[m] # {}
      BY ZenonT(40), <2>1, BlameEffect DEF Causes
    <2>3. \A u \in Threads : /\ op'[u].node = op[u].node
                             /\ u # t => op'[u].step = op[u].step
      BY <1>0, <2>1 DEF OpRecord
    <2>4. \A m \in Nodes : m # n => (Live(m)' => Live(m))
      BY ZenonT(40), <2>0, <2>1, <2>3 DEF Live, Launched
    <2> QED
      BY <2>1, <2>2, <2>4 DEF Careful
  <1>3. CASE UpSave(t)
    <2>0. PICK n \in Nodes : n = op[t].node
      BY <1>3 DEF UpSave, References
    <2>1. \/ ec2' = ec2
          \/ /\ op[t].step = "launched"
             /\ \A m \in Nodes : m # n => ec2'[m] = ec2[m]
      BY ZenonT(40), <1>0, <1>3, <2>0 DEF UpSave
    <2>2. \A m \in Nodes : (ec2'[m].tracked \/ ec2'[m].stray) => Live(m)
      BY ZenonT(40), <2>0, <2>1 DEF Live, Launched
    <2> QED
      BY ZenonT(40), <1>3, <2>2, OpEndsCareful DEF UpSave
  <1>4. CASE DestroyDone(t)
    <2>0. PICK n \in Nodes : n = op[t].node
      BY ZenonT(40), <1>4 DEF DestroyDone, References
    <2>1. /\ ~ec2'[n].tracked
          /\ ec2'[n].stray => ec2[n].stray \/ ec2[n].tracked
          /\ \A m \in Nodes : m # n => ec2'[m] = ec2[m]
      BY ZenonT(40), <1>0, <1>4, <2>0 DEF DestroyDone
    <2>2. \A m \in Nodes : (ec2'[m].tracked \/ ec2'[m].stray) => Live(m)
      BY ZenonT(40), <2>1 DEF Live
    <2> QED
      BY ZenonT(40), <1>4, <2>2, OpEndsCareful DEF DestroyDone
  <1>5. CASE OpLockFails(t) \/ UpNoop(t) \/ UpFails(t) \/ DestroyFails(t)
    <2>1. ec2' = ec2
      BY ZenonT(40), <1>5 DEF OpLockFails, UpNoop, UpFails, DestroyFails
    <2>2. \A m \in Nodes : (ec2'[m].tracked \/ ec2'[m].stray) => Live(m)
      BY <2>1 DEF Live
    <2> QED
      BY ZenonT(40), <1>5, <2>2, OpEndsCareful
         DEF OpLockFails, UpNoop, UpFails, DestroyFails
  <1> QED
    BY <1>1, <1>2, <1>3, <1>4, <1>5 DEF OpStep

\* Every step keeps the invariant of teardown.
LEMMA NextTeardown ==
    TypeOK /\ References /\ RowJob /\ Teardown /\ [Next]_vars => Teardown'
  <1> SUFFICES ASSUME TypeOK, References, RowJob, Teardown, [Next]_vars
               PROVE  Teardown'
    OBVIOUS
  <1>1. CASE Next
    <2>1. Careful
      BY ZenonT(40), <1>1, ApiStepCareful, NodeStepCareful, ProcStepCareful,
         WorkerStepCareful, OpStepCareful DEF Next
    <2> QED
      BY <2>1, NextMoves, CarefulKeeps
  <1>2. CASE UNCHANGED vars
    BY ZenonT(40), <1>2 DEF vars, Teardown, Swept, Live, Launched, JobOver
  <1> QED
    BY <1>1, <1>2

\* Nothing is torn down at the start.
LEMMA InitTeardown == Init => Teardown
  BY IdleTyped DEF Init, Teardown, NoReap

\* For any number of nodes, processes, coroutines and threads, and whatever
\* fails: an instance outlives its node's purge only when a pulumi up came
\* late, a sweep failed, the reaper swept beside a live job, or DELETE purged
\* without a sweep.
THEOREM LeaksExplained == Spec => []LeakHasCause
  <1>1. Teardown => LeakHasCause
    BY ZenonT(40) DEF Teardown, Swept, LeakHasCause
  <1> QED
    BY <1>1, BaseInvariant, InitTeardown, NextTeardown, PTL DEF Spec

-----------------------------------------------------------------------------
(* The leases.                                                             *)

Renewing(w) == worker[w].pc \in {"claimed", "finished"} \/ worker[w].renewing

\* Every coroutine that drives a cancelling phase holds an unexpired lease on
\* it (claim_next_job, renew_loop) and keeps it alive, unless the job was
\* purged under it.
DestroyerHolds ==
    \A w \in Worker : Destroying(w) =>
        LET j == job[worker[w].node] IN
        \/ j.phase = "purged"
        \/ /\ j.phase = "cancelling" /\ j.holder = Proc(w) /\ ~j.expired
           /\ Renewing(w)

\* The jobs that coroutines destroy keep their leases, or are purged.
DestroyersKept ==
    \A w \in Worker : Destroying(w)' =>
        /\ Destroying(w) /\ worker'[w].node = worker[w].node
        /\ LET n == worker[w].node IN
           \/ job'[n].phase = "purged"
           \/ /\ job'[n].phase = job[n].phase /\ job'[n].holder = job[n].holder
              /\ job'[n].expired = job[n].expired
              /\ Renewing(w)'

\* Destroyers that are kept still hold their leases, one per node.
LEMMA KeptHolds ==
    ASSUME DestroyerHolds, OneDestroyer, DestroyersKept
    PROVE  DestroyerHolds' /\ OneDestroyer'
  <1>1. DestroyerHolds'
    BY DEF DestroyerHolds, DestroyersKept
  <1>2. OneDestroyer'
    BY DEF OneDestroyer, DestroyersKept
  <1> QED
    BY <1>1, <1>2

\* A destroyer's node is being cancelled, or purged under it.
LEMMA DestroyingNode ==
    ASSUME References, DestroyerHolds, NEW w \in Worker, Destroying(w)
    PROVE  /\ worker[w].node \in Nodes
           /\ job[worker[w].node].phase \in {"cancelling", "purged"}
  BY DEF References, Destroying, DestroyerHolds

\* The coroutines stay where they are, and jobs change only where nobody
\* destroys, or are purged.
LEMMA KeptJobs ==
    ASSUME References, DestroyerHolds, worker' = worker,
           \A n \in Nodes : job[n].phase \in {"cancelling", "purged"} =>
              \/ job'[n].phase = "purged"
              \/ /\ job'[n].phase = job[n].phase
                 /\ job'[n].holder = job[n].holder
                 /\ job'[n].expired = job[n].expired
    PROVE  DestroyersKept
  <1> SUFFICES ASSUME NEW w \in Worker, Destroying(w)'
               PROVE  /\ Destroying(w) /\ worker'[w].node = worker[w].node
                      /\ LET n == worker[w].node IN
                         \/ job'[n].phase = "purged"
                         \/ /\ job'[n].phase = job[n].phase
                            /\ job'[n].holder = job[n].holder
                            /\ job'[n].expired = job[n].expired
                            /\ Renewing(w)'
    BY DEF DestroyersKept
  <1>1. Destroying(w)
    BY DEF Destroying
  <1>2. job[worker[w].node].phase = "purged" \/ Renewing(w)'
    BY <1>1 DEF DestroyerHolds, Renewing
  <1> QED
    BY <1>1, <1>2, DestroyingNode

\* Only coroutine w moves, and it is not destroying afterwards.
LEMMA KeptWorker ==
    ASSUME References, DestroyerHolds, NEW w \in Worker,
           \A v \in Worker : v # w => worker'[v] = worker[v],
           ~Destroying(w)', job' = job
    PROVE  DestroyersKept
  <1> SUFFICES ASSUME NEW v \in Worker, Destroying(v)'
               PROVE  /\ Destroying(v) /\ worker'[v].node = worker[v].node
                      /\ \/ job[worker[v].node].phase = "purged"
                         \/ Renewing(v)'
    BY DEF DestroyersKept
  <1>1. worker'[v] = worker[v] /\ Destroying(v)
    BY DEF Destroying
  <1> QED
    BY <1>1 DEF DestroyerHolds, Renewing

\* A purge leaves every other job alone.
LEMMA PurgeKeeps ==
    ASSUME TypeOK, NEW n \in Nodes, PurgeNode(n),
           NEW m \in Nodes
    PROVE  job'[m].phase = "purged" \/ job'[m] = job[m]
  BY PurgeNodeEffect

\* force_cancel does not touch a job that is cancelling already.
LEMMA ForceCancelKeeps ==
    ASSUME TypeOK, NEW n \in Nodes, ForceCancel(n), NEW m \in Nodes,
           job[m].phase \in {"cancelling", "purged"}
    PROVE  job'[m] = job[m]
  BY ForceCancelEffect DEF L!Cancellable

\* No request makes a destroyer lose its lease.
LEMMA ApiStepDestroyers ==
    ASSUME TypeOK, References, RowJob, DestroyerHolds, NEW n \in Nodes,
           ApiStep(n)
    PROVE  DestroyersKept
  <1>0. worker' = worker
    BY DEF ApiStep, Place, Enqueue, EnqueueFails, DeleteNode, SoftDelete,
       MarkTerminating, TerminateDeployment, InitiateDestroy, InitiateCancel,
       InitiateCancelFails, RetryProvisioning, RetryMirror, ApiDies
  <1>1. CASE Enqueue(n)
    <2>1. job[n].phase = "none"
      BY <1>1 DEF Enqueue, Return, Present, RowJob
    <2>2. \A m \in Nodes : m # n => job'[m] = job[m]
      BY <1>1, MoveToEffect, CancellingPhase DEF Enqueue
    <2> QED
      BY <1>0, <2>1, <2>2, KeptJobs
  <1>2. CASE DeleteNode(n)
    <2>1. PurgeNode(n) \/ job' = job \/ ForceCancel(n)
      BY <1>2 DEF DeleteNode
    <2> QED
      BY <1>0, <2>1, PurgeKeeps, ForceCancelKeeps, KeptJobs
  <1>3. CASE InitiateCancel(n)
    BY <1>0, <1>3, ForceCancelKeeps, KeptJobs DEF InitiateCancel
  <1>4. CASE RetryProvisioning(n)
    <2>1. /\ job[n].phase = "failed"
          /\ \A m \in Nodes : m # n => job'[m] = job[m]
      BY <1>4 DEF RetryProvisioning, TypeOK
    <2> QED
      BY <1>0, <2>1, KeptJobs
  <1>5. CASE job' = job
    BY <1>0, <1>5, KeptJobs
  <1> QED
    BY ZenonT(40), <1>1, <1>2, <1>3, <1>4, <1>5
       DEF ApiStep, Place, EnqueueFails, SoftDelete, MarkTerminating,
           TerminateDeployment, InitiateDestroy, InitiateCancelFails,
           RetryMirror, ApiDies

\* Nor does a node's agent, or an expiring lease.
LEMMA NodeStepDestroyers ==
    ASSUME TypeOK, References, DestroyerHolds, "stall" \notin Faults,
           NEW n \in Nodes, NodeStep(n)
    PROVE  DestroyersKept
  <1>0. job \in [Nodes -> JobRecord]
    BY DEF TypeOK
  <1>1. CASE Register(n) \/ OpenChannel(n)
    BY <1>1, KeptJobs DEF Register, OpenChannel
  <1>2. CASE BackoffElapses(n)
    <2>1. \A m \in Nodes : /\ job'[m].phase = job[m].phase
                           /\ job'[m].holder = job[m].holder
                           /\ job'[m].expired = job[m].expired
      BY <1>0, <1>2 DEF BackoffElapses, JobRecord
    <2> QED
      BY <1>2, <2>1, KeptJobs DEF BackoffElapses
  <1>3. CASE LeaseExpires(n)
    <2>1. /\ worker' = worker
          /\ \A w \in Worker : Proc(w) = job[n].holder => ~Attached(w, n)
          /\ job[n].holder # NoProc /\ ~job[n].expired
      BY <1>3 DEF LeaseExpires, Inject
    <2>2. /\ job'[n].phase = job[n].phase
          /\ \A m \in Nodes : m # n => job'[m] = job[m]
      BY <1>0, <1>3 DEF LeaseExpires, JobRecord
    <2>3. ASSUME NEW w \in Worker, Destroying(w), worker[w].node = n
          PROVE  job[n].phase = "purged"
      BY <2>1, <2>3 DEF DestroyerHolds, Destroying, Attached, Renewing
    <2>4. ASSUME NEW w \in Worker, Destroying(w)'
          PROVE  /\ Destroying(w)
                 /\ \/ job'[worker[w].node].phase = "purged"
                    \/ job'[worker[w].node] = job[worker[w].node]
                       /\ (job[worker[w].node].phase = "purged" \/ Renewing(w)')
      <3>1. Destroying(w)
        BY <2>1, <2>4 DEF Destroying
      <3>2. job[worker[w].node].phase = "purged" \/ Renewing(w)'
        BY <2>1, <3>1 DEF DestroyerHolds, Renewing
      <3> QED
        BY <2>2, <2>3, <3>1, <3>2, DestroyingNode
    <2> QED
      BY <2>1, <2>4 DEF DestroyersKept
  <1> QED
    BY <1>1, <1>2, <1>3 DEF NodeStep

\* Nor does another process, its reaper included.
LEMMA ProcStepDestroyers ==
    ASSUME TypeOK, References, DestroyerHolds, NEW p \in Procs, ProcStep(p)
    PROVE  DestroyersKept
  <1>1. CASE \/ TakeLock(p) \/ LoseLock(p)
             \/ (\E n \in Nodes : ReaperFind(p, n)) \/ ReaperSweep(p)
    BY <1>1, KeptJobs DEF TakeLock, LoseLock, ReaperFind, ReaperSweep
  <1>2. CASE Shutdown(p) \/ Crash(p)
    <2>1. /\ job' = job
          /\ \A w \in Worker : worker'[w] = Idle \/ worker'[w] = worker[w]
      BY <1>2 DEF Shutdown, Crash, LoopEnds
    <2>2. ASSUME NEW w \in Worker, Destroying(w)'
          PROVE  worker'[w] = worker[w] /\ Destroying(w)
      BY <2>1, <2>2, IdleTyped DEF Destroying
    <2> QED
      BY <2>1, <2>2 DEF DestroyersKept, DestroyerHolds, Renewing
  <1>3. CASE ReaperRearm(p)
    <2>1. /\ worker' = worker /\ reaper[p].node \in Nodes
          /\ job' = job \/ ForceCancel(reaper[p].node)
      BY <1>3 DEF ReaperRearm, References
    <2> QED
      BY <2>1, ForceCancelKeeps, KeptJobs
  <1>4. CASE ReaperPurge(p)
    <2>1. /\ worker' = worker /\ reaper[p].node \in Nodes
          /\ job' = job \/ PurgeNode(reaper[p].node)
      BY <1>4 DEF ReaperPurge, References
    <2> QED
      BY <2>1, PurgeKeeps, KeptJobs
  <1> QED
    BY <1>1, <1>2, <1>3, <1>4 DEF ProcStep

\* A coroutine that commits an outcome touches no job another one destroys.
LEMMA CommitKeeps ==
    ASSUME TypeOK, References, DestroyerHolds, OneDestroyer,
           NEW w \in Worker, worker[w].pc = "finished", SamePhase(w),
           \A m \in Nodes : m # worker[w].node => job'[m] = job[m],
           \A v \in Worker : v # w => worker'[v] = worker[v],
           ~Destroying(w)'
    PROVE  DestroyersKept
  <1>0. /\ worker[w].node \in Nodes
        /\ job[worker[w].node].phase = worker[w].phase
        /\ worker[w].phase \in ActivePhase
    BY DEF References, SamePhase
  <1>1. ASSUME NEW v \in Worker, Destroying(v)'
        PROVE  /\ v # w /\ worker'[v] = worker[v] /\ Destroying(v)
               /\ worker[v].node # worker[w].node
    <2>1. v # w /\ worker'[v] = worker[v] /\ Destroying(v)
      BY <1>1 DEF Destroying
    <2>2. CASE worker[w].phase = "cancelling"
      BY <2>1, <2>2 DEF OneDestroyer, Destroying
    <2>3. CASE worker[w].phase # "cancelling"
      BY <1>0, <2>1, <2>3, DestroyingNode DEF ActivePhase, L!ActivePhase
    <2> QED
      BY <2>1, <2>2, <2>3
  <1>2. ASSUME NEW v \in Worker, Destroying(v)'
        PROVE  /\ Destroying(v) /\ worker'[v].node = worker[v].node
               /\ job'[worker[v].node] = job[worker[v].node]
               /\ job[worker[v].node].phase = "purged" \/ Renewing(v)'
    <2>1. Destroying(v) /\ worker'[v] = worker[v]
      BY <1>1, <1>2
    <2>2. worker[v].node # worker[w].node /\ worker[v].node \in Nodes
      BY <1>1, <1>2, <2>1, DestroyingNode
    <2> QED
      BY <2>1, <2>2 DEF DestroyerHolds, Renewing
  <1> QED
    BY <1>2 DEF DestroyersKept

\* Only coroutine w moves, and it drives on what it drove.
LEMMA KeptDriving ==
    ASSUME DestroyerHolds, NEW w \in Worker, job' = job,
           \A v \in Worker : v # w => worker'[v] = worker[v],
           worker[w].pc \in {"claimed", "running"},
           worker'[w].node = worker[w].node, worker'[w].phase = worker[w].phase,
           \/ worker'[w].pc = "finished"
           \/ worker'[w].pc = "running" /\ worker'[w].renewing
           \/ job[worker[w].node].phase = "purged"
    PROVE  DestroyersKept
  <1> SUFFICES ASSUME NEW v \in Worker, Destroying(v)'
               PROVE  /\ Destroying(v) /\ worker'[v].node = worker[v].node
                      /\ job[worker[v].node].phase = "purged" \/ Renewing(v)'
    BY DEF DestroyersKept
  <1>1. CASE v = w
    BY <1>1 DEF Destroying, Renewing
  <1>2. CASE v # w
    BY <1>2 DEF Destroying, Renewing, DestroyerHolds
  <1> QED
    BY <1>1, <1>2

\* A claim takes a lease that no destroyer holds.
LEMMA ClaimKeeps ==
    ASSUME TypeOK, References, DestroyerHolds, OneDestroyer,
           NEW w \in Worker, NEW m \in Nodes, ClaimNextJob(w, m)
    PROVE  DestroyerHolds' /\ OneDestroyer'
  <1>0. /\ job \in [Nodes -> JobRecord] /\ worker \in [Worker -> WorkerRecord]
        /\ Proc(w) \in Procs
    BY DEF TypeOK, Worker, Proc
  <1>1. /\ job'[m].phase = job[m].phase /\ job'[m].holder = Proc(w)
        /\ ~job'[m].expired
        /\ \A n \in Nodes : n # m => job'[n] = job[n]
    <2> DEFINE j == [job[m] EXCEPT !.holder = Proc(w), !.expired = FALSE]
    <2>1. j.phase = job[m].phase /\ j.holder = Proc(w) /\ ~j.expired
      BY <1>0 DEF JobRecord
    <2>2. job' = [job EXCEPT ![m] = j]
      BY DEF ClaimNextJob
    <2> HIDE DEF j
    <2> QED
      BY <1>0, <2>1, <2>2
  <1>2. /\ worker'[w].pc = "claimed" /\ worker'[w].node = m
        /\ worker'[w].phase = job[m].phase
        /\ \A v \in Worker : v # w => worker'[v] = worker[v]
    BY <1>0 DEF ClaimNextJob, Idle
  <1>3. ASSUME NEW v \in Worker, Destroying(v) PROVE worker[v].node # m
    <2>1. ~ (Proc(v) = NoProc)
      BY ConstantsAssumption DEF Worker, Proc
    <2>2. Claimable(m)
      BY DEF ClaimNextJob
    <2>3. job[m].phase # "purged"
      BY <2>2 DEF Claimable, ActivePhase, L!ActivePhase
    <2> QED
      BY <1>3, <2>1, <2>2, <2>3 DEF DestroyerHolds, Claimable
  <1>4. ASSUME NEW v \in Worker, v # w, Destroying(v)'
        PROVE  /\ Destroying(v) /\ worker'[v] = worker[v]
               /\ worker[v].node # m /\ worker[v].node \in Nodes
               /\ job'[worker[v].node] = job[worker[v].node]
    <2>1. worker'[v] = worker[v] /\ Destroying(v)
      BY <1>2, <1>4 DEF Destroying
    <2> QED
      BY <1>1, <1>3, <2>1, DestroyingNode
  <1>5. DestroyerHolds'
    <2> SUFFICES ASSUME NEW v \in Worker, Destroying(v)'
                 PROVE  LET j == job'[worker'[v].node] IN
                        \/ j.phase = "purged"
                        \/ /\ j.phase = "cancelling" /\ j.holder = Proc(v)
                           /\ ~j.expired /\ Renewing(v)'
      BY DEF DestroyerHolds
    <2>1. CASE v = w
      BY <1>1, <1>2, <2>1 DEF Destroying, Renewing
    <2>2. CASE v # w
      BY <1>4, <2>2 DEF DestroyerHolds, Renewing
    <2> QED
      BY <2>1, <2>2
  <1>6. OneDestroyer'
    <2> SUFFICES ASSUME NEW v1 \in Worker, NEW v2 \in Worker,
                        Destroying(v1)', Destroying(v2)',
                        worker'[v1].node = worker'[v2].node
                 PROVE  v1 = v2
      BY DEF OneDestroyer
    <2> QED
      BY <1>2, <1>4 DEF OneDestroyer
  <1> QED
    BY <1>5, <1>6

\* Nor do the other coroutines.
LEMMA WorkerStepDestroyers ==
    ASSUME TypeOK, References, DestroyerHolds, OneDestroyer,
           "db" \notin Faults, NEW w \in Worker, WorkerStep(w)
    PROVE  DestroyerHolds' /\ OneDestroyer'
  <1>0. /\ job \in [Nodes -> JobRecord] /\ worker \in [Worker -> WorkerRecord]
        /\ ~Destroying(w)' <=> ~ (/\ worker'[w].phase = "cancelling"
                                  /\ worker'[w].pc \in
                                        {"claimed", "running", "finished"})
    BY DEF TypeOK, Destroying
  <1>1. CASE \E m \in Nodes : ClaimNextJob(w, m)
    BY <1>1, ClaimKeeps
  <1>2. CASE \/ CommitDropped(w) \/ MirrorReady(w) \/ FailDeps(w)
    BY <1>0, <1>2, GoIdleEffect, KeptWorker, KeptHolds
       DEF CommitDropped, MirrorReady, FailDeps
  <1>3. CASE LoadContextFails(w) \/ RenewerRaises(w)
    BY <1>3 DEF LoadContextFails, RenewerRaises, Inject
  <1>4. CASE StartHandler(w)
    <2>1. /\ worker[w].pc = "claimed" /\ worker'[w].pc = "running"
          /\ worker'[w].renewing /\ worker'[w].node = worker[w].node
          /\ worker'[w].phase = worker[w].phase /\ job' = job
          /\ \A v \in Worker : v # w => worker'[v] = worker[v]
      <3> DEFINE r == [worker[w] EXCEPT !.pc = "running", !.renewing = TRUE]
      <3>1. /\ r.pc = "running" /\ r.renewing /\ r.node = worker[w].node
            /\ r.phase = worker[w].phase
        BY <1>0 DEF WorkerRecord
      <3>2. /\ worker' = [worker EXCEPT ![w] = r]
            /\ worker[w].pc = "claimed" /\ job' = job
        BY <1>4 DEF StartHandler
      <3> HIDE DEF r
      <3> QED
        BY <1>0, <3>1, <3>2
    <2> QED
      BY <2>1, KeptDriving, KeptHolds
  <1>5. CASE HandlerRaises(w) \/ FinishPreflight(w) \/ FinishBootstrap(w)
    <2>1. /\ \E r \in Results : Finish(w, r)
          /\ worker[w].pc \in {"claimed", "running"} /\ job' = job
      BY <1>5 DEF HandlerRaises, FinishPreflight, FinishBootstrap, Results
    <2> QED
      BY <2>1, FinishEffect, KeptDriving, KeptHolds
  <1>6. CASE RenewLease(w)
    <2>0. PICK n \in Nodes : n = worker[w].node
      BY <1>6 DEF RenewLease, References
    <2>1. /\ worker' = worker /\ job[n].expired
          /\ job'[n].phase = job[n].phase
          /\ \A m \in Nodes : m # n => job'[m] = job[m]
      BY ZenonT(40), <1>0, <1>6, <2>0 DEF RenewLease, JobRecord
    <2>2. ASSUME NEW v \in Worker, Destroying(v)'
          PROVE  /\ Destroying(v) /\ worker[v].node \in Nodes
                 /\ job[worker[v].node].phase = "purged" \/ Renewing(v)'
                 /\ worker[v].node = n => job[n].phase = "purged"
      <3>1. Destroying(v)
        BY ZenonT(40), <2>1, <2>2 DEF Destroying
      <3> QED
        BY <2>1, <3>1, DestroyingNode DEF DestroyerHolds, Renewing
    <2>3. DestroyersKept
      BY <2>1, <2>2 DEF DestroyersKept
    <2> QED
      BY <2>3, KeptHolds
  <1>7. CASE RenewerStops(w)
    <2>1. /\ worker[w].pc = "running" /\ worker'[w].pc = "running"
          /\ worker'[w].node = worker[w].node
          /\ worker'[w].phase = worker[w].phase /\ job' = job
          /\ job[worker[w].node].holder # Proc(w)
          /\ \A v \in Worker : v # w => worker'[v] = worker[v]
      BY <1>0, <1>7 DEF RenewerStops, WorkerRecord
    <2>2. CASE Destroying(w)
      <3>1. job[worker[w].node].phase = "purged"
        BY <2>1, <2>2 DEF DestroyerHolds
      <3> QED
        BY ZenonT(40), <2>1, <3>1, KeptDriving, KeptHolds
    <2>3. CASE ~Destroying(w)
      BY ZenonT(40), <1>0, <2>1, <2>3, KeptWorker, KeptHolds DEF Destroying
    <2> QED
      BY <2>2, <2>3
  <1>8. CASE CommitAdvance(w) \/ CommitFail(w)
    <2> DEFINE next == NextPhase(worker[w].phase)
    <2>1. /\ worker[w].pc = "finished" /\ SamePhase(w)
          /\ worker[w].node \in Nodes
      BY <1>8 DEF CommitAdvance, CommitFail, Held, References
    <2>2. next \in Phase /\ "failed" \in Phase
      BY DEF NextPhase, L!NextPhase, Phase, L!Phase, L!ActivePhase
    <2>3. MoveTo(worker[w].node, next) \/ MoveTo(worker[w].node, "failed")
      BY <1>8 DEF CommitAdvance, CommitFail
    <2> HIDE DEF next
    <2>4. \A m \in Nodes : m # worker[w].node => job'[m] = job[m]
      BY <2>1, <2>2, <2>3, MoveToEffect
    <2>5. \/ Goto(w, "mirror_ready") \/ Goto(w, "sweep")
          \/ Goto(w, "mirror_failed") \/ GoIdle(w)
      BY <1>8 DEF CommitAdvance, CommitFail
    <2>6. ~Destroying(w)' /\ \A v \in Worker : v # w => worker'[v] = worker[v]
      BY <1>0, <2>5, GotoEffect, GoIdleEffect
    <2> QED
      BY ZenonT(40), <2>1, <2>4, <2>6, CommitKeeps, KeptHolds
  <1>9. CASE CommitRetry(w)
    <2>1. /\ worker[w].pc = "finished" /\ SamePhase(w) /\ GoIdle(w)
          /\ \A m \in Nodes : m # worker[w].node => job'[m] = job[m]
      BY <1>0, <1>9 DEF CommitRetry
    <2>2. ~Destroying(w)' /\ \A v \in Worker : v # w => worker'[v] = worker[v]
      BY <1>0, <2>1, GoIdleEffect
    <2> QED
      BY <2>1, <2>2, CommitKeeps, KeptHolds
  <1>10. CASE MirrorFailed(w) \/ Sweep(w)
    <2>1. job' = job /\ (Goto(w, "fail_deps") \/ Goto(w, "purge"))
      BY <1>10 DEF MirrorFailed, Sweep
    <2> QED
      BY ZenonT(40), <1>0, <2>1, GotoEffect, KeptWorker, KeptHolds
  <1>11. CASE Purge(w)
    <2>1. worker[w].node \in Nodes /\ GoIdle(w)
      BY <1>11 DEF Purge, References
    <2>2. \A m \in Nodes : job'[m].phase = "purged" \/ job'[m] = job[m]
      BY ZenonT(40), <1>11, <2>1, PurgeKeeps DEF Purge
    <2>3. ASSUME NEW v \in Worker, Destroying(v)'
          PROVE  /\ Destroying(v) /\ worker'[v].node = worker[v].node
                 /\ worker[v].node \in Nodes
                 /\ job[worker[v].node].phase = "purged" \/ Renewing(v)'
      <3>1. v # w /\ worker'[v] = worker[v]
        BY ZenonT(40), <1>0, <2>1, <2>3, GoIdleEffect
      <3>2. Destroying(v)
        BY ZenonT(40), <2>3, <3>1 DEF Destroying
      <3> QED
        BY <3>1, <3>2, DestroyingNode DEF DestroyerHolds, Renewing
    <2>4. DestroyersKept
      BY <2>2, <2>3 DEF DestroyersKept
    <2> QED
      BY ZenonT(40), <2>4, KeptHolds
  <1> QED
    BY ZenonT(40),
       <1>1, <1>2, <1>3, <1>4, <1>5, <1>6, <1>7, <1>8, <1>9, <1>10, <1>11
       DEF WorkerStep

\* Nor do the pulumi threads.
LEMMA OpStepDestroyers ==
    ASSUME TypeOK, References, DestroyerHolds, NEW t \in Threads, OpStep(t)
    PROVE  DestroyersKept
  <1>1. /\ job' = job
        /\ worker' = worker \/ \E r \in Results : OpEnds(t, r)
    BY DEF OpStep, OpLock, OpBreakLock, OpLockFails, UpLaunch, UpSave, UpNoop,
       UpFails, DestroyDone, DestroyFails, OpReturns, OpRaises, Results
  <1>2. CASE worker' = worker
    BY <1>1, <1>2, KeptJobs
  <1>3. CASE \E r \in Results : OpEnds(t, r)
    <2>1. CASE op[t].owner = NoWorker
      BY ZenonT(40), <1>1, <1>3, <2>1, OpEndsEffect, KeptJobs
    <2>2. CASE op[t].owner # NoWorker
      <3>1. PICK w \in Worker : w = op[t].owner
        BY ZenonT(40), <1>3, <2>2, OpEndsEffect
      <3>2. worker[w].pc = "running"
        BY ZenonT(40), <2>2, <3>1 DEF References
      <3>3. /\ worker'[w].pc = "finished"
            /\ worker'[w].node = worker[w].node
            /\ worker'[w].phase = worker[w].phase
            /\ \A v \in Worker : v # w => worker'[v] = worker[v]
        BY <1>3, <2>2, <3>1, OpEndsEffect
      <3> QED
        BY ZenonT(40), <1>1, <3>2, <3>3, KeptDriving
    <2> QED
      BY ZenonT(40), <2>1, <2>2
  <1> QED
    BY ZenonT(40), <1>1, <1>2, <1>3

\* With no database error and no stalled event loop, whatever crashes, shuts
\* down or loses the advisory lock, and however many loops run at once: leases
\* let at most one coroutine of all processes drive a node's destroy.
THEOREM SingleDestroyer ==
    ASSUME "db" \notin Faults, "stall" \notin Faults
    PROVE  Spec => []OneDestroyer
  <1>1. Init => DestroyerHolds /\ OneDestroyer
    BY IdleTyped DEF Init, DestroyerHolds, OneDestroyer, Destroying
  <1>2. TypeOK /\ References /\ RowJob /\ DestroyerHolds /\ OneDestroyer
           /\ [Next]_vars => DestroyerHolds' /\ OneDestroyer'
    <2> SUFFICES ASSUME TypeOK, References, RowJob, DestroyerHolds,
                        OneDestroyer, [Next]_vars
                 PROVE  DestroyerHolds' /\ OneDestroyer'
      OBVIOUS
    <2>1. CASE Next
      BY ZenonT(40),
         <2>1, ApiStepDestroyers, NodeStepDestroyers, ProcStepDestroyers,
         WorkerStepDestroyers, OpStepDestroyers, KeptHolds DEF Next
    <2>2. CASE UNCHANGED vars
      BY ZenonT(40),
         <2>2 DEF vars, DestroyerHolds, OneDestroyer, Destroying, Renewing
    <2> QED
      BY <2>1, <2>2
  <1> QED
    BY <1>1, <1>2, BaseInvariant, PTL DEF Spec

-----------------------------------------------------------------------------
(* A failed job reaches the deployment that waits for its node.            *)

Failing(w) == worker[w].pc \in {"mirror_failed", "fail_deps"}

\* A job that fails has a coroutine on its way to the deployment, a deployment
\* begins to wait only where no job failed, and a coroutine on its way stays on
\* it until the deployment waits no more.
FailureCarried ==
    /\ \A n \in Nodes : job'[n].phase = "failed" =>
          \/ job[n].phase = "failed"
          \/ \E w \in Worker : worker'[w].node = n /\ Failing(w)'
    /\ \A n \in Nodes : waiting'[n] => waiting[n] \/ job'[n].phase = "none"
    /\ \A w \in Worker : Failing(w) =>
          \/ worker'[w].node = worker[w].node /\ Failing(w)'
          \/ ~waiting'[worker[w].node]

\* A failure that is carried on reaches its deployment.
LEMMA CarriedKeeps ==
    ASSUME FailureReachesDeployment, FailureCarried
    PROVE  FailureReachesDeployment'
  <1> SUFFICES ASSUME NEW n \in Nodes, job'[n].phase = "failed", waiting'[n]
               PROVE  \E w \in Worker : worker'[w].node = n /\ Failing(w)'
    BY DEF FailureReachesDeployment, Failing
  <1>1. CASE \E w \in Worker : worker'[w].node = n /\ Failing(w)'
    BY <1>1
  <1>2. CASE job[n].phase = "failed" /\ waiting[n]
    <2>1. PICK w \in Worker : worker[w].node = n /\ Failing(w)
      BY <1>2 DEF FailureReachesDeployment, Failing
    <2> QED
      BY <2>1 DEF FailureCarried
  <1> QED
    BY <1>1, <1>2 DEF FailureCarried

\* Coroutines and failures stay as they are; nothing begins to wait.
LEMMA CarriedQuiet ==
    ASSUME worker' = worker,
           \A n \in Nodes : job'[n].phase = "failed" => job[n].phase = "failed",
           \A n \in Nodes : waiting'[n] => waiting[n] \/ job'[n].phase = "none"
    PROVE  FailureCarried
  BY DEF FailureCarried, Failing

\* Only coroutines that are not failing a job move.
LEMMA CarriedWorkers ==
    ASSUME waiting' = waiting,
           \A n \in Nodes : job'[n].phase = "failed" => job[n].phase = "failed",
           \A w \in Worker : worker'[w] = worker[w] \/ ~Failing(w)
    PROVE  FailureCarried
  BY ZenonT(40) DEF FailureCarried, Failing

\* No request fails a job or drops a report.
LEMMA ApiStepCarries ==
    ASSUME TypeOK, References, RowJob, NEW n \in Nodes, ApiStep(n)
    PROVE  FailureCarried
  <1>0. worker' = worker
    BY DEF ApiStep, Place, Enqueue, EnqueueFails, DeleteNode, SoftDelete,
       MarkTerminating, TerminateDeployment, InitiateDestroy, InitiateCancel,
       InitiateCancelFails, RetryProvisioning, RetryMirror, ApiDies
  <1>1. CASE Place(n)
    <2>1. /\ job' = job /\ job[n].phase = "none"
          /\ \A m \in Nodes : m # n => waiting'[m] = waiting[m]
      BY ZenonT(40), <1>1 DEF Place, RowJob, TypeOK
    <2> QED
      BY <1>0, <2>1, CarriedQuiet
  <1>2. CASE Enqueue(n)
    BY <1>0, <1>2, MoveToEffect, CancellingPhase, CarriedQuiet DEF Enqueue
  <1>3. CASE EnqueueFails(n) \/ TerminateDeployment(n)
    <2>1. job' = job /\ \A m \in Nodes : waiting'[m] => waiting[m]
      BY ZenonT(40), <1>3 DEF EnqueueFails, TerminateDeployment, TypeOK
    <2> QED
      BY ZenonT(40), <1>0, <2>1, CarriedQuiet
  <1>4. CASE DeleteNode(n)
    <2>1. CASE PurgeNode(n)
      BY <1>0, <2>1, PurgeNodeEffect, CarriedQuiet
    <2>2. CASE waiting' = waiting /\ (job' = job \/ ForceCancel(n))
      BY <1>0, <2>2, ForceCancelEffect, CarriedQuiet
    <2> QED
      BY ZenonT(40), <1>4, <2>1, <2>2 DEF DeleteNode
  <1>5. CASE InitiateCancel(n)
    BY <1>0, <1>5, ForceCancelEffect, CarriedQuiet DEF InitiateCancel
  <1>6. CASE RetryProvisioning(n)
    <2>1. /\ waiting' = waiting /\ job'[n].phase = "preflight"
          /\ \A m \in Nodes : m # n => job'[m] = job[m]
      BY <1>6 DEF RetryProvisioning, TypeOK
    <2> QED
      BY ZenonT(40), <1>0, <2>1, CarriedQuiet
  <1>7. CASE job' = job /\ waiting' = waiting
    BY <1>0, <1>7, CarriedQuiet
  <1> QED
    BY ZenonT(40), <1>1, <1>2, <1>3, <1>4, <1>5, <1>6, <1>7
       DEF ApiStep, SoftDelete, MarkTerminating, InitiateDestroy,
           InitiateCancelFails, RetryMirror, ApiDies

\* No step of a node fails a job or drops a report.
LEMMA NodeStepCarries ==
    ASSUME TypeOK, NEW n \in Nodes, NodeStep(n)
    PROVE  FailureCarried
  <1>1. CASE Register(n)
    BY ZenonT(40), <1>1, CarriedQuiet DEF Register
  <1>2. CASE OpenChannel(n)
    <2>1. \A m \in Nodes : waiting'[m] => waiting[m]
      BY <1>2 DEF OpenChannel, TypeOK
    <2> QED
      BY ZenonT(40), <1>2, <2>1, CarriedQuiet DEF OpenChannel
  <1>3. CASE LeaseExpires(n) \/ BackoffElapses(n)
    <2>1. job \in [Nodes -> JobRecord]
      BY DEF TypeOK
    <2>2. \A m \in Nodes : job'[m].phase = job[m].phase
      BY <1>3, <2>1 DEF LeaseExpires, BackoffElapses, JobRecord
    <2> QED
      BY <1>3, <2>2, CarriedQuiet DEF LeaseExpires, BackoffElapses
  <1> QED
    BY <1>1, <1>2, <1>3 DEF NodeStep

\* No step of a process that stays alive drops a report.
LEMMA ProcStepCarries ==
    ASSUME TypeOK, References, Faults \cap {"crash", "stop"} = {},
           NEW p \in Procs, ProcStep(p)
    PROVE  FailureCarried
  <1>1. CASE \/ TakeLock(p) \/ LoseLock(p)
             \/ (\E n \in Nodes : ReaperFind(p, n)) \/ ReaperSweep(p)
    BY <1>1, CarriedQuiet DEF TakeLock, LoseLock, ReaperFind, ReaperSweep
  <1>2. CASE Shutdown(p) \/ Crash(p)
    BY <1>2 DEF Shutdown, Crash, Inject
  <1>3. CASE ReaperRearm(p)
    <2>1. /\ reaper[p].node \in Nodes
          /\ UNCHANGED <<worker, waiting>>
          /\ job' = job \/ ForceCancel(reaper[p].node)
      BY <1>3 DEF ReaperRearm, References
    <2> QED
      BY <2>1, ForceCancelEffect, CarriedQuiet
  <1>4. CASE ReaperPurge(p)
    <2>1. /\ reaper[p].node \in Nodes /\ worker' = worker
          /\ \/ PurgeNode(reaper[p].node)
             \/ UNCHANGED <<job, waiting>>
      BY <1>4 DEF ReaperPurge, References
    <2> QED
      BY ZenonT(40), <2>1, PurgeNodeEffect, CarriedQuiet
  <1> QED
    BY <1>1, <1>2, <1>3, <1>4 DEF ProcStep

\* A coroutine that fails a job goes on to report it.
LEMMA WorkerStepCarries ==
    ASSUME TypeOK, References, "db" \notin Faults,
           NEW w \in Worker, WorkerStep(w)
    PROVE  FailureCarried
  <1>0. /\ job \in [Nodes -> JobRecord] /\ worker \in [Worker -> WorkerRecord]
    BY ZenonT(40) DEF TypeOK
  <1>1. CASE \E m \in Nodes : ClaimNextJob(w, m)
    <2>1. PICK m \in Nodes : ClaimNextJob(w, m)
      BY <1>1
    <2>2. \A k \in Nodes : job'[k].phase = job[k].phase
      BY <1>0, <2>1 DEF ClaimNextJob, JobRecord
    <2>3. /\ waiting' = waiting /\ ~Failing(w)
          /\ \A v \in Worker : v # w => worker'[v] = worker[v]
      BY <1>0, <2>1 DEF ClaimNextJob, Failing
    <2> QED
      BY <2>2, <2>3, CarriedWorkers
  <1>2. CASE LoadContextFails(w) \/ RenewerRaises(w)
    BY ZenonT(40), <1>2 DEF LoadContextFails, RenewerRaises, Inject
  <1>3. CASE \/ StartHandler(w) \/ HandlerRaises(w) \/ FinishPreflight(w)
             \/ FinishBootstrap(w) \/ RenewerStops(w) \/ CommitDropped(w)
             \/ MirrorReady(w) \/ Sweep(w)
    <2>1. UNCHANGED <<job, waiting>> /\ ~Failing(w)
      BY ZenonT(40), <1>3 DEF StartHandler, HandlerRaises, FinishPreflight,
         FinishBootstrap, RenewerStops, CommitDropped, MirrorReady, Sweep,
         Failing
    <2>2. \A v \in Worker : v # w => worker'[v] = worker[v]
      BY ZenonT(40),
         <1>0, <1>3 DEF StartHandler, HandlerRaises, FinishPreflight,
         FinishBootstrap, RenewerStops, CommitDropped, MirrorReady, Sweep,
         Finish, GoIdle, Goto
    <2> QED
      BY <2>1, <2>2, CarriedWorkers
  <1>4. CASE RenewLease(w)
    <2>1. \A m \in Nodes : job'[m].phase = job[m].phase
      BY ZenonT(40), <1>0, <1>4 DEF RenewLease, JobRecord
    <2> QED
      BY <1>4, <2>1, CarriedQuiet DEF RenewLease
  <1>5. CASE CommitAdvance(w)
    <2> DEFINE next == NextPhase(worker[w].phase)
    <2>1. /\ waiting' = waiting /\ ~Failing(w) /\ worker[w].node \in Nodes
          /\ MoveTo(worker[w].node, next)
      BY <1>5 DEF CommitAdvance, Failing, References
    <2>2. next \in Phase /\ next # "failed"
      BY DEF NextPhase, L!NextPhase, Phase, L!Phase, L!ActivePhase
    <2>3. \A v \in Worker : v # w => worker'[v] = worker[v]
      BY <1>0, <1>5 DEF CommitAdvance, Goto, GoIdle
    <2> HIDE DEF next
    <2>4. \A m \in Nodes : job'[m].phase = "failed" => job[m].phase = "failed"
      BY <2>1, <2>2, MoveToEffect
    <2> QED
      BY ZenonT(40), <2>1, <2>3, <2>4, CarriedWorkers
  <1>6. CASE CommitRetry(w)
    <2>1. ASSUME NEW m \in Nodes PROVE job'[m].phase = job[m].phase
      BY <1>0, <1>6 DEF CommitRetry, JobRecord
    <2>2. /\ waiting' = waiting /\ ~Failing(w)
          /\ \A v \in Worker : v # w => worker'[v] = worker[v]
      BY ZenonT(40), <1>6, GoIdleEffect DEF CommitRetry, Failing
    <2> QED
      BY <2>1, <2>2, CarriedWorkers
  <1>7. CASE CommitFail(w)
    <2>1. /\ waiting' = waiting /\ ~Failing(w) /\ worker[w].node \in Nodes
          /\ MoveTo(worker[w].node, "failed") /\ Goto(w, "mirror_failed")
      BY <1>7 DEF CommitFail, Failing, References
    <2>2. "failed" \in Phase
      BY ZenonT(40) DEF Phase, L!Phase
    <2>3. \A m \in Nodes : m # worker[w].node => job'[m] = job[m]
      BY ZenonT(40), <2>1, <2>2, MoveToEffect
    <2>4. /\ worker'[w].node = worker[w].node /\ Failing(w)'
          /\ \A v \in Worker : v # w => worker'[v] = worker[v]
      BY ZenonT(40), <2>1, GotoEffect DEF Failing
    <2> QED
      BY ZenonT(40), <2>1, <2>3, <2>4 DEF FailureCarried, Failing
  <1>8. CASE MirrorFailed(w)
    <2>1. UNCHANGED <<job, waiting>> /\ Goto(w, "fail_deps")
      BY <1>8 DEF MirrorFailed
    <2>2. /\ worker'[w].node = worker[w].node /\ Failing(w)'
          /\ \A v \in Worker : v # w => worker'[v] = worker[v]
      BY ZenonT(40), <2>1, GotoEffect DEF Failing
    <2> QED
      BY <2>1, <2>2 DEF FailureCarried, Failing
  <1>9. CASE FailDeps(w)
    <2>1. /\ worker[w].node \in Nodes /\ job' = job /\ GoIdle(w)
          /\ waiting' = [waiting EXCEPT ![worker[w].node] = FALSE]
      BY <1>9 DEF FailDeps, References, Inject
    <2>2. /\ ~waiting'[worker[w].node]
          /\ \A n \in Nodes : waiting'[n] => waiting[n]
      BY ZenonT(40), <2>1 DEF TypeOK
    <2>3. \A v \in Worker : v # w => worker'[v] = worker[v]
      BY ZenonT(40), <2>1, GoIdleEffect
    <2> QED
      BY ZenonT(40), <2>1, <2>2, <2>3 DEF FailureCarried, Failing
  <1>10. CASE Purge(w)
    <2>1. /\ worker[w].node \in Nodes /\ ~Failing(w) /\ GoIdle(w)
          /\ PurgeNode(worker[w].node)
      BY ZenonT(40), <1>10 DEF Purge, References, Failing, Inject
    <2>2. /\ \A n \in Nodes : waiting'[n] => waiting[n]
          /\ \A n \in Nodes : job'[n].phase = "failed"
                                 => job[n].phase = "failed"
      BY ZenonT(40), <2>1, PurgeNodeEffect
    <2> QED
      BY ZenonT(40), <2>1, <2>2, GoIdleEffect DEF FailureCarried, Failing
  <1> QED
    BY ZenonT(40), <1>1, <1>2, <1>3, <1>4, <1>5, <1>6, <1>7, <1>8, <1>9, <1>10
       DEF WorkerStep

\* No pulumi thread fails a job or drops a report.
LEMMA OpStepCarries ==
    ASSUME TypeOK, References, NEW t \in Threads, OpStep(t)
    PROVE  FailureCarried
  <1>1. /\ UNCHANGED <<job, waiting>>
        /\ worker' = worker \/ \E r \in Results : OpEnds(t, r)
    BY DEF OpStep, OpLock, OpBreakLock, OpLockFails, UpLaunch, UpSave, UpNoop,
       UpFails, DestroyDone, DestroyFails, OpReturns, OpRaises, Results
  <1>2. ASSUME NEW w \in Worker PROVE worker'[w] = worker[w] \/ ~Failing(w)
    <2>1. CASE op[t].owner = w /\ op[t].owner # NoWorker
      BY ZenonT(40), <2>1 DEF References, Failing
    <2>2. CASE ~ (op[t].owner = w /\ op[t].owner # NoWorker)
      BY <1>1, <2>2, OpEndsEffect
    <2> QED
      BY ZenonT(40), <2>1, <2>2
  <1> QED
    BY ZenonT(40), <1>1, <1>2, CarriedWorkers

\* With no process dying and no database error: a deployment never waits for a
\* node whose job has failed, unless a coroutine is on its way to fail it.
THEOREM FailuresReported ==
    ASSUME Faults \cap {"crash", "stop", "db"} = {}
    PROVE  Spec => []FailureReachesDeployment
  <1>1. Init => FailureReachesDeployment
    BY DEF Init, FailureReachesDeployment
  <1>2. TypeOK /\ References /\ RowJob /\ FailureReachesDeployment
           /\ [Next]_vars => FailureReachesDeployment'
    <2> SUFFICES ASSUME TypeOK, References, RowJob, FailureReachesDeployment,
                        [Next]_vars
                 PROVE  FailureReachesDeployment'
      OBVIOUS
    <2>1. CASE Next
      <3>1. "db" \notin Faults /\ Faults \cap {"crash", "stop"} = {}
        BY ZenonT(40)
      <3> QED
        BY ZenonT(40),
           <2>1, <3>1, ApiStepCarries, NodeStepCarries, ProcStepCarries,
           WorkerStepCarries, OpStepCarries, CarriedKeeps DEF Next
    <2>2. CASE UNCHANGED vars
      BY <2>2 DEF vars, FailureReachesDeployment
    <2> QED
      BY <2>1, <2>2
  <1> QED
    BY <1>1, <1>2, BaseInvariant, PTL DEF Spec
=============================================================================
