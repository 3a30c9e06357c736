--------------------------- MODULE ReconcilerTypes --------------------------
(***************************************************************************)
(* Type correctness of module Reconciler, and what each shared statement   *)
(* does to the records it updates, for all values of the constants.        *)
(***************************************************************************)
EXTENDS Reconciler, TLAPS

\* What the parts hold of each other: a busy coroutine, thread or reaper is
\* at work on a node, and a thread whose result is awaited is awaited by one
\* running coroutine of its own process.
References ==
    /\ \A w \in Worker :
         /\ worker[w].pc # "idle" => worker[w].node \in Nodes
         /\ worker[w].pc \in {"claimed", "running", "finished"}
               => worker[w].phase \in ActivePhase
    /\ \A t \in Threads : op[t].step # "idle" => op[t].node \in Nodes
    /\ \A t \in Threads : op[t].owner # NoWorker =>
         /\ worker[op[t].owner].pc = "running"
         /\ worker[op[t].owner].phase \in {"provisioning", "cancelling"}
         /\ op[t].proc = Proc(op[t].owner)
    /\ \A t1, t2 \in Threads :
         op[t1].owner # NoWorker /\ op[t1].owner = op[t2].owner => t1 = t2
    /\ \A p \in Procs : reaper[p].pc # "idle" =>
         reaper[p].node \in Nodes /\ row[reaper[p].node].state # "absent"

-----------------------------------------------------------------------------
(* The shared statements.                                                  *)

\* A user's request is counted within its bound.
LEMMA AskTyped == ASSUME TypeOK, Ask PROVE asked' \in 0 .. MaxAsked
  BY ConstantsAssumption DEF TypeOK, Ask

\* An injected failure is one of Faults.
LEMMA InjectTyped ==
    ASSUME TypeOK, NEW f, Inject(f) PROVE faults' \in 0 .. MaxFaults
  BY ConstantsAssumption DEF TypeOK, Inject

\* transition: one job changes, and gives its lease back.
LEMMA MoveToEffect ==
    ASSUME TypeOK, NEW n \in Nodes, NEW ph \in Phase, MoveTo(n, ph)
    PROVE  /\ job' \in [Nodes -> JobRecord]
           /\ job'[n].phase = ph /\ job'[n].holder = NoProc
           /\ ~job'[n].expired /\ ~job'[n].backoff
           /\ \A m \in Nodes : m # n => job'[m] = job[m]
  <1>1. job \in [Nodes -> JobRecord]
    BY DEF TypeOK
  <1> DEFINE j == [job[n] EXCEPT !.phase = ph, !.holder = NoProc,
                                 !.expired = FALSE, !.backoff = FALSE]
  <1>2. j \in JobRecord
    BY ZenonT(40), <1>1 DEF JobRecord
  <1>3. j.phase = ph /\ j.holder = NoProc /\ ~j.expired /\ ~j.backoff
    BY <1>1 DEF JobRecord
  <1>4. job' = [job EXCEPT ![n] = j]
    BY DEF MoveTo
  <1> HIDE DEF j
  <1> QED
    BY <1>1, <1>2, <1>3, <1>4

\* Two phases that API requests write.
LEMMA CancellingPhase == "cancelling" \in Phase /\ "preflight" \in Phase
  BY DEF Phase, L!Phase, L!ActivePhase

\* force_cancel: one cancellable job becomes cancelling.
LEMMA ForceCancelEffect ==
    ASSUME TypeOK, NEW n \in Nodes, ForceCancel(n)
    PROVE  /\ job' \in [Nodes -> JobRecord]
           /\ \/ job' = job
              \/ job[n].phase \in L!Cancellable /\ job'[n].phase = "cancelling"
           /\ \A m \in Nodes : m # n => job'[m] = job[m]
  <1>1. CASE job[n].phase \in L!Cancellable
    BY <1>1, MoveToEffect, CancellingPhase DEF ForceCancel
  <1>2. CASE job[n].phase \notin L!Cancellable
    BY <1>2 DEF ForceCancel, TypeOK
  <1> QED
    BY <1>1, <1>2

\* mark_state: one row changes its state.
LEMMA SetStateEffect ==
    ASSUME TypeOK, NEW n \in Nodes,
           NEW s \in {"provisioning", "ready", "failed", "terminated"},
           SetState(n, s)
    PROVE  /\ row' \in [Nodes -> RowRecord]
           /\ \A m \in Nodes :
                /\ row'[m].state = "absent" <=> row[m].state = "absent"
                /\ row'[m].state = "purged" <=> row[m].state = "purged"
  <1>1. row \in [Nodes -> RowRecord]
    BY DEF TypeOK
  <1> QED
    BY <1>1 DEF SetState, Present, RowRecord

\* The terminating flag of one row changes.
LEMMA SetFlagEffect ==
    ASSUME TypeOK, NEW n \in Nodes, NEW f \in {"no", "bare", "stamped"},
           SetFlag(n, f)
    PROVE  /\ row' \in [Nodes -> RowRecord]
           /\ \A m \in Nodes : row'[m].state = row[m].state
  <1>1. row \in [Nodes -> RowRecord]
    BY DEF TypeOK
  <1> QED
    BY <1>1 DEF SetFlag, RowRecord

\* purge_node: one row and its job go.
LEMMA PurgeNodeEffect ==
    ASSUME TypeOK, NEW n \in Nodes, PurgeNode(n)
    PROVE  /\ row' \in [Nodes -> RowRecord]
           /\ job' \in [Nodes -> JobRecord]
           /\ waiting' \in [Nodes -> BOOLEAN]
           /\ row'[n].state = "purged" /\ job'[n].phase = "purged"
           /\ ~waiting'[n]
           /\ \A m \in Nodes : m # n => /\ row'[m] = row[m]
                                        /\ job'[m] = job[m]
                                        /\ waiting'[m] = waiting[m]
  <1>1. /\ row \in [Nodes -> RowRecord]
        /\ job \in [Nodes -> JobRecord]
        /\ waiting \in [Nodes -> BOOLEAN]
    BY DEF TypeOK
  <1>2. [state |-> "purged", terminating |-> "no", agent |-> FALSE]
           \in RowRecord
    BY DEF RowRecord
  <1>3. [phase |-> "purged", attempt |-> 0, holder |-> NoProc,
         expired |-> FALSE, backoff |-> FALSE] \in JobRecord
    BY ConstantsAssumption DEF JobRecord, Phase, L!Phase
  <1> QED
    BY <1>1, <1>2, <1>3 DEF PurgeNode

\* The sweep: the instances of one node go, those of late threads included.
LEMMA SweepNodeEffect ==
    ASSUME TypeOK, NEW n \in Nodes, SweepNode(n)
    PROVE  /\ ec2' \in [Nodes -> Ec2Record]
           /\ op' \in [Threads -> OpRecord]
           /\ ~ec2'[n].tracked /\ ~ec2'[n].stray
           /\ \A m \in Nodes : m # n => ec2'[m] = ec2[m]
           /\ \A t \in Threads :
                /\ op'[t].node = op[t].node /\ op'[t].owner = op[t].owner
                /\ op'[t].proc = op[t].proc /\ op'[t].kind = op[t].kind
                /\ op'[t].step = "idle" <=> op[t].step = "idle"
                /\ op'[t].step = "launched" =>
                      op[t].step = "launched" /\ op[t].node # n
  <1>1. ec2 \in [Nodes -> Ec2Record] /\ op \in [Threads -> OpRecord]
    BY DEF TypeOK
  <1>2. [tracked |-> FALSE, stray |-> FALSE] \in Ec2Record
    BY DEF Ec2Record
  <1>3. /\ ec2' \in [Nodes -> Ec2Record]
        /\ ~ec2'[n].tracked /\ ~ec2'[n].stray
        /\ \A m \in Nodes : m # n => ec2'[m] = ec2[m]
    BY <1>1, <1>2 DEF SweepNode
  <1>4. ASSUME NEW t \in Threads
        PROVE  /\ op'[t] \in OpRecord
               /\ op'[t].node = op[t].node /\ op'[t].owner = op[t].owner
               /\ op'[t].proc = op[t].proc /\ op'[t].kind = op[t].kind
               /\ op'[t].step = "idle" <=> op[t].step = "idle"
               /\ op'[t].step = "launched" =>
                     op[t].step = "launched" /\ op[t].node # n
    BY ZenonT(40), <1>1 DEF SweepNode, OpRecord
  <1>5. op' \in [Threads -> OpRecord]
    BY <1>4 DEF SweepNode
  <1> QED
    BY <1>3, <1>4, <1>5

\* Causes are only ever added.
LEMMA BlameEffect ==
    ASSUME TypeOK, NEW n \in Nodes, NEW c \in Causes,
           NEW condition \in BOOLEAN, Blame(n, c, condition)
    PROVE  /\ cause' \in [Nodes -> SUBSET Causes]
           /\ condition => cause'[n] # {}
           /\ \A m \in Nodes : cause[m] # {} => cause'[m] # {}
  <1>1. cause \in [Nodes -> SUBSET Causes]
    BY DEF TypeOK
  <1> QED
    BY <1>1 DEF Blame

\* A request has one more step to take.
LEMMA AwaitTyped ==
    ASSUME TypeOK, NEW n \in Nodes, NEW step \in Pending, Await(n, step)
    PROVE  /\ api' \in [Nodes -> SUBSET Pending]
           /\ \A m \in Nodes : api'[m] \subseteq api[m] \cup {step}
           /\ \A m \in Nodes : m # n => api'[m] = api[m]
  <1>1. api \in [Nodes -> SUBSET Pending]
    BY DEF TypeOK
  <1> QED
    BY <1>1 DEF Await

\* A request has one step fewer to take.
LEMMA ReturnTyped ==
    ASSUME TypeOK, NEW n \in Nodes, NEW step, Return(n, step)
    PROVE  /\ api' \in [Nodes -> SUBSET Pending]
           /\ \A m \in Nodes : api'[m] \subseteq api[m]
  <1>1. api \in [Nodes -> SUBSET Pending]
    BY DEF TypeOK
  <1> QED
    BY <1>1 DEF Return

\* An idle coroutine is well typed.
LEMMA IdleTyped == Idle \in WorkerRecord /\ Idle.pc = "idle"
  BY ConstantsAssumption DEF Idle, WorkerRecord, Results

\* One coroutine becomes idle.
LEMMA GoIdleEffect ==
    ASSUME TypeOK, NEW w \in Worker, GoIdle(w)
    PROVE  /\ worker' \in [Worker -> WorkerRecord]
           /\ worker'[w] = Idle /\ worker'[w].pc = "idle"
           /\ \A v \in Worker : v # w => worker'[v] = worker[v]
  <1>1. worker \in [Worker -> WorkerRecord]
    BY DEF TypeOK
  <1> QED
    BY <1>1, IdleTyped DEF GoIdle

\* One coroutine goes on with the same node.
LEMMA GotoEffect ==
    ASSUME TypeOK, NEW w \in Worker,
           NEW pc \in {"mirror_ready", "mirror_failed", "fail_deps",
                       "sweep", "purge"},
           Goto(w, pc)
    PROVE  /\ worker' \in [Worker -> WorkerRecord]
           /\ worker'[w].pc = pc /\ worker'[w].node = worker[w].node
           /\ \A v \in Worker : v # w => worker'[v] = worker[v]
  <1>1. worker \in [Worker -> WorkerRecord]
    BY DEF TypeOK
  <1>2. worker[w].node \in Nodes \cup {NoNode}
    BY <1>1 DEF WorkerRecord
  <1> DEFINE r == At(pc, worker[w].node)
  <1>3. r \in WorkerRecord
    BY ZenonT(40), <1>2, IdleTyped DEF At, WorkerRecord
  <1>4. r.pc = pc /\ r.node = worker[w].node
    BY DEF At, Idle
  <1>5. worker' = [worker EXCEPT ![w] = r]
    BY DEF Goto
  <1> HIDE DEF r
  <1> QED
    BY <1>1, <1>3, <1>4, <1>5

\* One coroutine's phase handler ends.
LEMMA FinishEffect ==
    ASSUME TypeOK, NEW w \in Worker, NEW r \in Results, Finish(w, r)
    PROVE  /\ worker' \in [Worker -> WorkerRecord]
           /\ worker'[w].pc = "finished" /\ worker'[w].node = worker[w].node
           /\ worker'[w].phase = worker[w].phase
           /\ worker'[w].renewing = worker[w].renewing
           /\ \A v \in Worker : v # w => worker'[v] = worker[v]
  <1>1. worker \in [Worker -> WorkerRecord]
    BY DEF TypeOK
  <1> DEFINE x == [worker[w] EXCEPT !.pc = "finished", !.result = r]
  <1>2. x \in WorkerRecord
    BY ZenonT(40), <1>1 DEF WorkerRecord
  <1>3. /\ x.pc = "finished" /\ x.node = worker[w].node
        /\ x.phase = worker[w].phase /\ x.renewing = worker[w].renewing
    BY <1>1 DEF WorkerRecord
  <1>4. worker' = [worker EXCEPT ![w] = x]
    BY DEF Finish
  <1> HIDE DEF x
  <1> QED
    BY <1>1, <1>2, <1>3, <1>4

\* An idle thread is well typed and awaited by nobody.
LEMMA NoOpTyped ==
    NoOp \in OpRecord /\ NoOp.step = "idle" /\ NoOp.owner = NoWorker
  BY DEF NoOp, OpRecord

\* A thread ends: it frees its lock and hands over its result.
LEMMA OpEndsEffect ==
    ASSUME TypeOK, References, NEW t \in Threads, NEW r \in Results,
           OpEnds(t, r)
    PROVE  /\ op' \in [Threads -> OpRecord]
           /\ lock' \in [Nodes -> Threads \cup {"free", "stale"}]
           /\ worker' \in [Worker -> WorkerRecord]
           /\ op'[t] = NoOp
           /\ \A u \in Threads : u # t => op'[u] = op[u]
           /\ op[t].owner = NoWorker => worker' = worker
           /\ op[t].owner # NoWorker =>
                /\ op[t].owner \in Worker
                /\ worker'[op[t].owner].pc = "finished"
                /\ worker'[op[t].owner].node = worker[op[t].owner].node
                /\ worker'[op[t].owner].phase = worker[op[t].owner].phase
                /\ worker'[op[t].owner].renewing
                      = worker[op[t].owner].renewing
           /\ \A v \in Worker : v # op[t].owner => worker'[v] = worker[v]
  <1>1. /\ op \in [Threads -> OpRecord]
        /\ lock \in [Nodes -> Threads \cup {"free", "stale"}]
        /\ worker \in [Worker -> WorkerRecord]
    BY DEF TypeOK
  <1>2. op[t].owner \in Worker \cup {NoWorker}
    BY <1>1 DEF OpRecord
  <1>3. /\ op' \in [Threads -> OpRecord] /\ op'[t] = NoOp
        /\ \A u \in Threads : u # t => op'[u] = op[u]
    BY <1>1, NoOpTyped DEF OpEnds
  <1>4. lock' \in [Nodes -> Threads \cup {"free", "stale"}]
    BY ZenonT(40), <1>1 DEF OpEnds
  <1>5. CASE op[t].owner = NoWorker
    BY <1>1, <1>3, <1>4, <1>5 DEF OpEnds
  <1>6. CASE op[t].owner # NoWorker
    <2>1. Finish(op[t].owner, r) /\ op[t].owner \in Worker
      BY <1>2, <1>6 DEF OpEnds
    <2> QED
      BY <1>3, <1>4, <1>6, <2>1, FinishEffect
  <1> QED
    BY <1>5, <1>6

-----------------------------------------------------------------------------
(* What leaves References alone.                                           *)

RowsStay == \A m \in Nodes : row[m].state # "absent" => row'[m].state # "absent"

\* Coroutines and threads that stay refer to rows that stay.
LEMMA ReferencesOfRows ==
    ASSUME References, RowsStay, UNCHANGED <<worker, op, reaper>>
    PROVE  References'
  BY DEF References, RowsStay

\* Only coroutine w moves, and no thread's result is awaited by it.
LEMMA ReferencesOfWorker ==
    ASSUME TypeOK, References, RowsStay, UNCHANGED <<op, reaper>>,
           NEW w \in Worker,
           \A v \in Worker : v # w => worker'[v] = worker[v],
           \A t \in Threads : op[t].owner # w,
           worker'[w].pc # "idle" => worker'[w].node \in Nodes,
           worker'[w].pc \in {"claimed", "running", "finished"}
              => worker'[w].phase \in ActivePhase
    PROVE  References'
  <1>1. \A t \in Threads : op[t].owner \in Worker \cup {NoWorker}
    BY DEF TypeOK, OpRecord
  <1> QED
    BY <1>1 DEF References, RowsStay

\* A coroutine outside the pulumi phases awaits no thread.
LEMMA NotAwaited ==
    ASSUME TypeOK, References, NEW w \in Worker,
           \/ worker[w].pc # "running"
           \/ worker[w].phase \notin {"provisioning", "cancelling"}
    PROVE  \A t \in Threads : op[t].owner # w
  BY ConstantsAssumption DEF References

-----------------------------------------------------------------------------
(* Every step keeps the types.                                             *)

\* The steps of requests.
LEMMA ApiStepTyped ==
    ASSUME TypeOK, References, NEW n \in Nodes, ApiStep(n)
    PROVE  TypeOK' /\ References'
  <1>1. CASE Place(n)
    <2>1. Await(n, "enqueue") /\ "enqueue" \in Pending
      BY <1>1 DEF Place, Pending
    <2>2. row \in [Nodes -> RowRecord] /\ waiting \in [Nodes -> BOOLEAN]
      BY DEF TypeOK
    <2>3. row' \in [Nodes -> RowRecord] /\ RowsStay
      BY <1>1, <2>2 DEF Place, RowRecord, RowsStay
    <2>4. waiting' \in [Nodes -> BOOLEAN]
      BY <1>1, <2>2 DEF Place
    <2> QED
      BY <1>1, <2>1, <2>3, <2>4, AwaitTyped, ReferencesOfRows DEF Place, TypeOK
  <1>2. CASE Enqueue(n)
    <2>1. RowsStay
      BY <1>2 DEF Enqueue, RowsStay
    <2> QED
      BY <1>2, <2>1, ReturnTyped, MoveToEffect, CancellingPhase,
         ReferencesOfRows DEF Enqueue, TypeOK
  <1>3. CASE EnqueueFails(n)
    <2>1. RowsStay
      BY <1>3 DEF EnqueueFails, RowsStay
    <2>2. faults' \in 0 .. MaxFaults
      BY <1>3, InjectTyped DEF EnqueueFails, TypeOK
    <2> QED
      BY <1>3, <2>1, <2>2, ReturnTyped, ReferencesOfRows
         DEF EnqueueFails, TypeOK
  <1>4. CASE DeleteNode(n)
    <2>1. asked' \in 0 .. MaxAsked
      BY <1>4, AskTyped DEF DeleteNode
    <2>2. CASE job[n].phase = "terminated"
      <3>1. PurgeNode(n) /\ Blame(n, "unswept", Live(n)) /\ api' = api
        BY <1>4, <2>2 DEF DeleteNode
      <3>2. Live(n) \in BOOLEAN /\ "unswept" \in Causes
        BY DEF Live, TypeOK, Ec2Record, Causes
      <3>3. RowsStay
        BY <3>1, PurgeNodeEffect DEF RowsStay
      <3> QED
        BY ZenonT(40),
           <1>4, <2>1, <3>1, <3>2, <3>3, PurgeNodeEffect, BlameEffect,
           ReferencesOfRows DEF DeleteNode, TypeOK
    <2>3. CASE job[n].phase = "none"
      <3>1. Await(n, "soft") /\ "soft" \in Pending
        BY <1>4, <2>3 DEF DeleteNode, Pending
      <3>2. UNCHANGED <<job, row, waiting, cause>> /\ RowsStay
        BY <1>4, <2>3 DEF DeleteNode, RowsStay
      <3> QED
        BY ZenonT(40), <1>4, <2>1, <3>1, <3>2, AwaitTyped, ReferencesOfRows
           DEF DeleteNode, TypeOK
    <2>4. CASE job[n].phase \notin {"terminated", "none"}
      <3>1. Await(n, "flag") /\ "flag" \in Pending /\ ForceCancel(n)
        BY <1>4, <2>4 DEF DeleteNode, Pending
      <3>2. UNCHANGED <<row, waiting, cause>> /\ RowsStay
        BY <1>4, <2>4 DEF DeleteNode, RowsStay
      <3> QED
        BY ZenonT(40), <1>4, <2>1, <3>1, <3>2, AwaitTyped, ForceCancelEffect,
           ReferencesOfRows DEF DeleteNode, TypeOK
    <2> QED
      BY ZenonT(40), <2>2, <2>3, <2>4
  <1>5. CASE SoftDelete(n)
    <2>1. row' \in [Nodes -> RowRecord] /\ RowsStay
      BY <1>5, SetStateEffect DEF SoftDelete, TypeOK, RowsStay
    <2> QED
      BY <1>5, <2>1, ReturnTyped, ReferencesOfRows DEF SoftDelete, TypeOK
  <1>6. CASE MarkTerminating(n)
    <2>1. row' \in [Nodes -> RowRecord] /\ RowsStay
      BY <1>6, SetFlagEffect DEF MarkTerminating, TypeOK, RowsStay
    <2> QED
      BY <1>6, <2>1, ReturnTyped, ReferencesOfRows DEF MarkTerminating, TypeOK
  <1>7. CASE TerminateDeployment(n)
    <2>1. "destroy" \in Pending /\ RowsStay
      BY ZenonT(40), <1>7 DEF TerminateDeployment, Pending, RowsStay
    <2> QED
      BY <1>7, <2>1, AskTyped, AwaitTyped, ReferencesOfRows
         DEF TerminateDeployment, TypeOK
  <1>8. CASE InitiateDestroy(n)
    <2>1. row' \in [Nodes -> RowRecord] /\ RowsStay
      BY <1>8, SetFlagEffect DEF InitiateDestroy, RowsStay
    <2>2. api' \in [Nodes -> SUBSET Pending]
      BY <1>8 DEF InitiateDestroy, TypeOK, Pending
    <2> QED
      BY <1>8, <2>1, <2>2, ReferencesOfRows DEF InitiateDestroy, TypeOK
  <1>9. CASE InitiateCancel(n)
    <2>1. RowsStay
      BY <1>9 DEF InitiateCancel, RowsStay
    <2> QED
      BY <1>9, <2>1, ReturnTyped, ForceCancelEffect, ReferencesOfRows
         DEF InitiateCancel, TypeOK
  <1>10. CASE InitiateCancelFails(n)
    <2>1. row' \in [Nodes -> RowRecord] /\ RowsStay
      BY ZenonT(40),
         <1>10, SetFlagEffect DEF InitiateCancelFails, TypeOK, RowsStay
    <2> QED
      BY <1>10, <2>1, InjectTyped, ReturnTyped,
           ReferencesOfRows DEF InitiateCancelFails, TypeOK
  <1>11. CASE RetryProvisioning(n)
    <2>1. "mirror" \in Pending /\ RowsStay
      BY <1>11 DEF RetryProvisioning, Pending, RowsStay
    <2>2. [phase |-> "preflight", attempt |-> 0, holder |-> NoProc,
           expired |-> FALSE, backoff |-> FALSE] \in JobRecord
      BY ConstantsAssumption, CancellingPhase DEF JobRecord
    <2>3. job' \in [Nodes -> JobRecord]
      BY <1>11, <2>2 DEF RetryProvisioning, TypeOK
    <2> QED
      BY ZenonT(40), <1>11, <2>1, <2>3, AskTyped, AwaitTyped, ReferencesOfRows
         DEF RetryProvisioning, TypeOK
  <1>12. CASE RetryMirror(n)
    <2>1. row' \in [Nodes -> RowRecord] /\ RowsStay
      BY <1>12, SetStateEffect DEF RetryMirror, TypeOK, RowsStay
    <2> QED
      BY <1>12, <2>1, ReturnTyped, ReferencesOfRows DEF RetryMirror, TypeOK
  <1>13. CASE ApiDies(n)
    <2>1. RowsStay
      BY <1>13 DEF ApiDies, RowsStay
    <2> QED
      BY ZenonT(40), <1>13, <2>1, InjectTyped, ReturnTyped, ReferencesOfRows
         DEF ApiDies, TypeOK
  <1> QED
    BY <1>1, <1>2, <1>3, <1>4, <1>5, <1>6, <1>7, <1>8, <1>9, <1>10, <1>11,
       <1>12, <1>13 DEF ApiStep

\* The steps of nodes and of time.
LEMMA NodeStepTyped ==
    ASSUME TypeOK, References, NEW n \in Nodes, NodeStep(n)
    PROVE  TypeOK' /\ References'
  <1>0. row \in [Nodes -> RowRecord] /\ job \in [Nodes -> JobRecord]
    BY DEF TypeOK
  <1>1. CASE Register(n)
    <2>1. row' \in [Nodes -> RowRecord] /\ RowsStay
      BY ZenonT(40), <1>0, <1>1 DEF Register, RowRecord, RowsStay
    <2> QED
      BY <1>1, <2>1, InjectTyped, ReferencesOfRows DEF Register, TypeOK
  <1>2. CASE OpenChannel(n)
    <2>1. row' \in [Nodes -> RowRecord] /\ RowsStay
      BY <1>0, <1>2 DEF OpenChannel, SetState, Present, RowRecord, RowsStay
    <2>2. waiting' \in [Nodes -> BOOLEAN]
      BY <1>2 DEF OpenChannel, TypeOK
    <2> QED
      BY <1>2, <2>1, <2>2, ReferencesOfRows DEF OpenChannel, TypeOK
  <1>3. CASE LeaseExpires(n)
    <2>1. job' \in [Nodes -> JobRecord]
      BY ZenonT(40), <1>0, <1>3 DEF LeaseExpires, JobRecord
    <2>2. faults' \in 0 .. MaxFaults /\ RowsStay
      BY <1>3, InjectTyped DEF LeaseExpires, TypeOK, RowsStay
    <2> QED
      BY <1>3, <2>1, <2>2, ReferencesOfRows DEF LeaseExpires, TypeOK
  <1>4. CASE BackoffElapses(n)
    <2>1. job' \in [Nodes -> JobRecord]
      BY ZenonT(40), <1>0, <1>4 DEF BackoffElapses, JobRecord
    <2>2. RowsStay
      BY <1>4 DEF BackoffElapses, RowsStay
    <2> QED
      BY <1>4, <2>1, <2>2, ReferencesOfRows DEF BackoffElapses, TypeOK
  <1> QED
    BY <1>1, <1>2, <1>3, <1>4 DEF NodeStep

\* Shutdown and Crash: every thread of p that goes on is awaited by nobody.
LEMMA LoopEndsEffect ==
    ASSUME TypeOK, References, NEW p \in Procs, LoopEnds(p),
           op' \in [Threads -> OpRecord],
           \A t \in Threads :
              IF op[t].proc = p
              THEN /\ op'[t].owner = NoWorker
                   /\ op'[t].step # "idle" => op'[t].node \in Nodes
              ELSE op'[t] = op[t]
    PROVE  /\ worker' \in [Worker -> WorkerRecord]
           /\ reaper' \in [Procs -> ReaperRecord]
           /\ leader' \in Procs \cup {NoProc}
           /\ active' \subseteq Procs
           /\ References'
  <1>1. /\ worker \in [Worker -> WorkerRecord]
        /\ reaper \in [Procs -> ReaperRecord]
        /\ NoReap \in ReaperRecord /\ NoReap.pc = "idle"
    BY DEF TypeOK, NoReap, ReaperRecord
  <1>2. /\ worker' \in [Worker -> WorkerRecord]
        /\ \A w \in Worker : IF Proc(w) = p THEN worker'[w].pc = "idle"
                                            ELSE worker'[w] = worker[w]
    BY <1>1, IdleTyped DEF LoopEnds
  <1>3. /\ reaper' \in [Procs -> ReaperRecord] /\ reaper'[p].pc = "idle"
        /\ \A q \in Procs : q # p => reaper'[q] = reaper[q]
    BY <1>1 DEF LoopEnds
  <1>4. leader' \in Procs \cup {NoProc} /\ active' \subseteq Procs
    BY DEF LoopEnds, TypeOK
  <1>5. \A t \in Threads : op[t].owner \in Worker \cup {NoWorker}
    BY ZenonT(40) DEF TypeOK, OpRecord
  <1>6. References'
    BY SMTT(40), <1>2, <1>3, <1>5 DEF References, LoopEnds
  <1> QED
    BY <1>2, <1>3, <1>4, <1>6

\* One reaper moves.
LEMMA ReaperMoves ==
    ASSUME TypeOK, References, RowsStay, UNCHANGED <<worker, op>>,
           NEW p \in Procs, reaper' \in [Procs -> ReaperRecord],
           \A q \in Procs : q # p => reaper'[q] = reaper[q],
           reaper'[p].pc # "idle" => /\ reaper'[p].node \in Nodes
                                     /\ row'[reaper'[p].node].state # "absent"
    PROVE  References'
  BY DEF References, RowsStay

\* The steps of processes.
LEMMA ProcStepTyped ==
    ASSUME TypeOK, References, NEW p \in Procs, ProcStep(p)
    PROVE  TypeOK' /\ References'
  <1>0. /\ op \in [Threads -> OpRecord] /\ ec2 \in [Nodes -> Ec2Record]
        /\ lock \in [Nodes -> Threads \cup {"free", "stale"}]
        /\ reaper \in [Procs -> ReaperRecord]
        /\ NoReap \in ReaperRecord /\ NoReap.pc = "idle"
    BY DEF TypeOK, NoReap, ReaperRecord
  <1> DEFINE n == reaper[p].node
  <1>1. CASE TakeLock(p)
    <2>1. RowsStay
      BY <1>1 DEF TakeLock, RowsStay
    <2> QED
      BY <1>1, <2>1, ReferencesOfRows DEF TakeLock, TypeOK
  <1>2. CASE LoseLock(p)
    <2>1. RowsStay
      BY <1>2 DEF LoseLock, RowsStay
    <2> QED
      BY <1>2, <2>1, InjectTyped, ReferencesOfRows DEF LoseLock, TypeOK
  <1>3. CASE Shutdown(p)
    <2>1. ASSUME NEW t \in Threads
          PROVE  /\ op'[t] \in OpRecord
                 /\ IF op[t].proc = p
                    THEN /\ op'[t].owner = NoWorker
                         /\ op'[t].step # "idle" => op'[t].node \in Nodes
                    ELSE op'[t] = op[t]
      <3>1. op[t] \in OpRecord
        BY <1>0
      <3>2. op'[t] = IF op[t].proc = p THEN [op[t] EXCEPT !.owner = NoWorker]
                                       ELSE op[t]
        BY <1>0, <1>3 DEF Shutdown
      <3> QED
        BY <3>1, <3>2 DEF OpRecord, References
    <2>2. op' \in [Threads -> OpRecord]
      BY <1>3, <2>1 DEF Shutdown
    <2> QED
      BY ZenonT(40), <1>3, <2>1, <2>2, InjectTyped, LoopEndsEffect
         DEF Shutdown, LoopEnds, TypeOK
  <1>4. CASE Crash(p)
    <2>1. /\ op' \in [Threads -> OpRecord]
          /\ \A t \in Threads :
               IF op[t].proc = p
               THEN /\ op'[t].owner = NoWorker
                    /\ op'[t].step # "idle" => op'[t].node \in Nodes
               ELSE op'[t] = op[t]
      BY <1>0, <1>4, NoOpTyped DEF Crash
    <2>2. lock' \in [Nodes -> Threads \cup {"free", "stale"}]
      BY <1>0, <1>4 DEF Crash
    <2>3. ec2' \in [Nodes -> Ec2Record]
      BY ZenonT(40), <1>0, <1>4 DEF Crash, Ec2Record
    <2> QED
      BY ZenonT(40), <1>4, <2>1, <2>2, <2>3, InjectTyped, LoopEndsEffect
         DEF Crash, LoopEnds, TypeOK
  <1>5. CASE \E m \in Nodes : ReaperFind(p, m)
    <2>1. PICK m \in Nodes : ReaperFind(p, m)
      BY <1>5
    <2>2. [pc |-> "rearm", node |-> m] \in ReaperRecord
      BY DEF ReaperRecord
    <2>3. /\ reaper' \in [Procs -> ReaperRecord]
          /\ reaper'[p].node = m
          /\ \A q \in Procs : q # p => reaper'[q] = reaper[q]
      BY <1>0, <2>1, <2>2 DEF ReaperFind
    <2>4. RowsStay /\ row'[m].state # "absent"
      BY <2>1 DEF ReaperFind, RowsStay, Stuck, Present
    <2> QED
      BY <2>1, <2>3, <2>4, ReaperMoves DEF ReaperFind, TypeOK
  <1>6. CASE ReaperRearm(p)
    <2>1. n \in Nodes /\ row[n].state # "absent"
      BY <1>6 DEF ReaperRearm, References
    <2>2. /\ reaper' \in [Procs -> ReaperRecord]
          /\ reaper'[p].pc # "idle" => reaper'[p].node = n
          /\ \A q \in Procs : q # p => reaper'[q] = reaper[q]
      BY <1>0, <1>6 DEF ReaperRearm, ReaperRecord
    <2>3. job' \in [Nodes -> JobRecord]
      BY <1>6, <2>1, ForceCancelEffect DEF ReaperRearm, TypeOK
    <2>4. faults' \in 0 .. MaxFaults /\ RowsStay
      BY <1>6, InjectTyped DEF ReaperRearm, TypeOK, RowsStay
    <2>5. References'
      BY <1>6, <2>1, <2>2, <2>4, ReaperMoves DEF ReaperRearm
    <2> QED
      BY <1>6, <2>2, <2>3, <2>4, <2>5 DEF ReaperRearm, TypeOK
  <1>7. CASE ReaperSweep(p)
    <2>1. n \in Nodes /\ row[n].state # "absent"
      BY <1>7 DEF ReaperSweep, References
    <2>2. /\ reaper' \in [Procs -> ReaperRecord]
          /\ reaper'[p].node = n
          /\ \A q \in Procs : q # p => reaper'[q] = reaper[q]
      BY <1>0, <1>7 DEF ReaperSweep, ReaperRecord
    <2>3. /\ JobOver(n) \in BOOLEAN /\ Live(n) \in BOOLEAN
          /\ "live_job" \in Causes /\ "sweep_failed" \in Causes
      BY DEF JobOver, Live, Causes, TypeOK, Ec2Record
    <2>4. cause' \in [Nodes -> SUBSET Causes]
      BY ZenonT(40), <1>7, <2>1, <2>3, BlameEffect DEF ReaperSweep
    <2>5. /\ ec2' \in [Nodes -> Ec2Record] /\ op' \in [Threads -> OpRecord]
          /\ faults' \in 0 .. MaxFaults
          /\ \A t \in Threads :
               /\ op'[t].node = op[t].node /\ op'[t].owner = op[t].owner
               /\ op'[t].proc = op[t].proc
               /\ op'[t].step = "idle" <=> op[t].step = "idle"
      <3>1. CASE SweepNode(n)
        BY ZenonT(40), <2>1, <3>1, SweepNodeEffect DEF SweepNode, TypeOK
      <3>2. CASE SweepFails(n)
        BY <3>2, InjectTyped DEF SweepFails, TypeOK
      <3> QED
        BY <1>7, <3>1, <3>2 DEF ReaperSweep
    <2>6. References'
      BY SMTT(40), <1>7, <2>1, <2>2, <2>5 DEF ReaperSweep, References
    <2> QED
      BY <1>7, <2>2, <2>4, <2>5, <2>6 DEF ReaperSweep, TypeOK
  <1>8. CASE ReaperPurge(p)
    <2>1. n \in Nodes
      BY ZenonT(40), <1>8 DEF ReaperPurge, References
    <2>2. /\ reaper' \in [Procs -> ReaperRecord] /\ reaper'[p].pc = "idle"
          /\ \A q \in Procs : q # p => reaper'[q] = reaper[q]
      BY ZenonT(40), <1>0, <1>8 DEF ReaperPurge
    <2>3. /\ job' \in [Nodes -> JobRecord] /\ row' \in [Nodes -> RowRecord]
          /\ waiting' \in [Nodes -> BOOLEAN] /\ RowsStay
          /\ faults' \in 0 .. MaxFaults
      BY <1>8, <2>1, PurgeNodeEffect, InjectTyped
         DEF ReaperPurge, TypeOK, RowsStay
    <2> QED
      BY ZenonT(40), <1>8, <2>2, <2>3, ReaperMoves DEF ReaperPurge, TypeOK
  <1> QED
    BY <1>1, <1>2, <1>3, <1>4, <1>5, <1>6, <1>7, <1>8 DEF ProcStep

\* The steps of coroutines.
LEMMA WorkerStepTyped ==
    ASSUME TypeOK, References, NEW w \in Worker, WorkerStep(w)
    PROVE  TypeOK' /\ References'
  <1> DEFINE n == worker[w].node
  <1>0. /\ worker \in [Worker -> WorkerRecord] /\ worker[w] \in WorkerRecord
        /\ op \in [Threads -> OpRecord] /\ job \in [Nodes -> JobRecord]
        /\ Proc(w) \in Procs
    BY DEF TypeOK, Worker, Proc
  <1>1. CASE \E m \in Nodes : ClaimNextJob(w, m)
    <2>1. PICK m \in Nodes : ClaimNextJob(w, m)
      BY <1>1
    <2>2. job[m] \in JobRecord /\ job[m].phase \in ActivePhase
      BY <1>0, <2>1 DEF ClaimNextJob, Claimable
    <2> DEFINE j == [job[m] EXCEPT !.holder = Proc(w), !.expired = FALSE]
               r == [Idle EXCEPT !.pc = "claimed", !.node = m,
                                 !.phase = job[m].phase,
                                 !.attempt = job[m].attempt]
    <2>3. j \in JobRecord
      BY ZenonT(40), <1>0, <2>2 DEF JobRecord
    <2>4. job[m].attempt \in 0 .. MaxAttempts - 1
      BY <2>2 DEF JobRecord
    <2>5. /\ r \in WorkerRecord
          /\ r.pc = "claimed" /\ r.node = m /\ r.phase = job[m].phase
      BY ZenonT(40), <2>2, <2>4, IdleTyped DEF WorkerRecord
    <2>6. /\ job' = [job EXCEPT ![m] = j]
          /\ worker' = [worker EXCEPT ![w] = r]
      BY ZenonT(40), <2>1 DEF ClaimNextJob
    <2> HIDE DEF j, r
    <2>7. job' \in [Nodes -> JobRecord] /\ worker' \in [Worker -> WorkerRecord]
      BY <1>0, <2>3, <2>5, <2>6
    <2>8. /\ worker'[w].node = m /\ worker'[w].phase \in ActivePhase
          /\ \A v \in Worker : v # w => worker'[v] = worker[v]
      BY <1>0, <2>2, <2>5, <2>6
    <2>9. RowsStay /\ worker[w].pc = "idle" /\ UNCHANGED <<op, reaper>>
      BY <2>1 DEF ClaimNextJob, RowsStay
    <2>10. References'
      BY ZenonT(40), <2>8, <2>9, NotAwaited, ReferencesOfWorker
    <2> QED
      BY <2>1, <2>7, <2>10 DEF ClaimNextJob, TypeOK
  <1>2. CASE LoadContextFails(w)
    <2>1. RowsStay
      BY <1>2 DEF LoadContextFails, RowsStay
    <2> QED
      BY <1>2, <2>1, InjectTyped, GoIdleEffect, NotAwaited, ReferencesOfWorker
         DEF LoadContextFails, TypeOK
  <1>3. CASE StartHandler(w)
    <2> DEFINE r == [worker[w] EXCEPT !.pc = "running", !.renewing = TRUE]
               o == [kind |-> IF worker[w].phase = "provisioning"
                              THEN "up" ELSE "destroy",
                     node |-> worker[w].node, step |-> "start",
                     saw |-> FALSE, owner |-> w, proc |-> Proc(w)]
    <2>1. /\ worker[w].pc = "claimed" /\ n \in Nodes
          /\ worker[w].phase \in ActivePhase
      BY <1>3 DEF StartHandler, References
    <2>2. /\ r \in WorkerRecord /\ r.pc = "running" /\ r.node = n
          /\ r.phase = worker[w].phase
      BY ZenonT(40), <1>0 DEF WorkerRecord
    <2>3. o \in OpRecord /\ o.owner = w /\ o.proc = Proc(w) /\ o.node = n
      BY <1>0, <2>1 DEF OpRecord
    <2>4. worker' = [worker EXCEPT ![w] = r]
      BY <1>3 DEF StartHandler
    <2>5. \/ op' = op
          \/ /\ worker[w].phase \in {"provisioning", "cancelling"}
             /\ \E t \in Threads : op' = [op EXCEPT ![t] = o]
      BY <1>3 DEF StartHandler
    <2> HIDE DEF r, o
    <2>6. /\ worker' \in [Worker -> WorkerRecord]
          /\ worker'[w] = r
          /\ \A v \in Worker : v # w => worker'[v] = worker[v]
      BY <1>0, <2>2, <2>4
    <2>7. op' \in [Threads -> OpRecord]
      BY <1>0, <2>3, <2>5
    <2>8. RowsStay /\ reaper' = reaper
      BY <1>3 DEF StartHandler, RowsStay
    <2>9. \A t \in Threads : op[t].owner # w
      BY <2>1, NotAwaited
    <2>10. References'
      <3>1. CASE op' = op
        BY ZenonT(40), <2>1, <2>2, <2>6, <2>8, <2>9, <3>1, ReferencesOfWorker
      <3>2. CASE /\ worker[w].phase \in {"provisioning", "cancelling"}
                 /\ \E t \in Threads : op' = [op EXCEPT ![t] = o]
        <4>1. PICK t \in Threads : op' = [op EXCEPT ![t] = o]
          BY ZenonT(40), <3>2
        <4>2. op'[t] = o /\ \A u \in Threads : u # t => op'[u] = op[u]
          BY <1>0, <4>1
        <4>3. \A u \in Threads : op[u].owner \in Worker \cup {NoWorker}
          BY ZenonT(40), <1>0 DEF OpRecord
        <4> QED
          BY SMTT(40), <2>1, <2>2, <2>3, <2>6, <2>8, <2>9, <3>2, <4>2, <4>3
             DEF References, RowsStay
      <3> QED
        BY <2>5, <3>1, <3>2
    <2> QED
      BY <1>3, <2>6, <2>7, <2>10 DEF StartHandler, TypeOK
  <1>4. CASE HandlerRaises(w)
    <2>1. PICK r \in {"transient", "permanent"} : Finish(w, r)
      BY <1>4 DEF HandlerRaises
    <2>2. RowsStay /\ r \in Results /\ worker[w].pc = "claimed"
      BY ZenonT(40), <1>4 DEF HandlerRaises, RowsStay, Results
    <2>3. n \in Nodes /\ worker[w].phase \in ActivePhase
      BY ZenonT(40), <2>2 DEF References
    <2> QED
      BY ZenonT(40),
         <1>4, <2>1, <2>2, <2>3, InjectTyped, FinishEffect, NotAwaited,
         ReferencesOfWorker DEF HandlerRaises, TypeOK
  <1>5. CASE FinishPreflight(w)
    <2>1. PICK r \in Results : Finish(w, r)
      BY ZenonT(40), <1>5 DEF FinishPreflight
    <2>2. /\ RowsStay /\ worker[w].pc = "running"
          /\ worker[w].phase = "preflight"
      BY ZenonT(40), <1>5 DEF FinishPreflight, RowsStay
    <2>3. n \in Nodes /\ worker[w].phase \in ActivePhase
      BY ZenonT(40), <2>2 DEF References
    <2> QED
      BY ZenonT(40),
         <1>5, <2>1, <2>2, <2>3, FinishEffect, NotAwaited, ReferencesOfWorker
         DEF FinishPreflight, TypeOK
  <1>6. CASE FinishBootstrap(w)
    <2>1. PICK r \in Results : Finish(w, r)
      BY ZenonT(40), <1>6 DEF FinishBootstrap, Results
    <2>2. /\ RowsStay /\ worker[w].pc = "running"
          /\ worker[w].phase = "bootstrapping"
      BY ZenonT(40), <1>6 DEF FinishBootstrap, RowsStay
    <2>3. n \in Nodes /\ worker[w].phase \in ActivePhase
      BY <2>2 DEF References
    <2> QED
      BY ZenonT(40),
         <1>6, <2>1, <2>2, <2>3, FinishEffect, NotAwaited, ReferencesOfWorker
         DEF FinishBootstrap, TypeOK
  <1>7. CASE RenewLease(w)
    <2>1. job' \in [Nodes -> JobRecord]
      BY ZenonT(40), <1>0, <1>7 DEF RenewLease, JobRecord
    <2>2. RowsStay
      BY <1>7 DEF RenewLease, RowsStay
    <2> QED
      BY <1>7, <2>1, <2>2, ReferencesOfRows DEF RenewLease, TypeOK
  <1>8. CASE RenewerStops(w)
    <2>1. worker' \in [Worker -> WorkerRecord]
      BY ZenonT(40), <1>0, <1>8 DEF RenewerStops, WorkerRecord
    <2>2. \A v \in Worker : /\ worker'[v].pc = worker[v].pc
                            /\ worker'[v].node = worker[v].node
                            /\ worker'[v].phase = worker[v].phase
      BY <1>0, <1>8 DEF RenewerStops, WorkerRecord
    <2>3. \A t \in Threads : op[t].owner \in Worker \cup {NoWorker}
      BY <1>0 DEF OpRecord
    <2>4. References'
      BY <1>8, <2>2, <2>3 DEF RenewerStops, References
    <2> QED
      BY <1>8, <2>1, <2>4 DEF RenewerStops, TypeOK
  <1>9. CASE RenewerRaises(w)
    <2>1. job' \in [Nodes -> JobRecord]
      <3> DEFINE j == [job[n] EXCEPT !.holder = NoProc, !.expired = FALSE]
      <3>1. n \in Nodes
        BY <1>9 DEF RenewerRaises, References
      <3>2. j \in JobRecord
        BY ZenonT(40), <1>0, <3>1 DEF JobRecord
      <3>3. \/ job' = job
            \/ job' = [job EXCEPT ![n] = IF job[n].holder = Proc(w)
                                         THEN j ELSE job[n]]
        BY <1>9 DEF RenewerRaises
      <3> HIDE DEF j
      <3> QED
        BY <1>0, <3>1, <3>2, <3>3
    <2>2. ASSUME NEW t \in Threads
          PROVE  /\ op'[t] \in OpRecord
                 /\ op'[t].node = op[t].node /\ op'[t].step = op[t].step
                 /\ op'[t].proc = op[t].proc
                 /\ op'[t].owner = IF op[t].owner = w THEN NoWorker
                                                      ELSE op[t].owner
      BY ZenonT(40), <1>0, <1>9 DEF RenewerRaises, OpRecord
    <2>3. op' \in [Threads -> OpRecord]
      BY <1>9, <2>2 DEF RenewerRaises
    <2>4. \A t \in Threads : op[t].owner \in Worker \cup {NoWorker}
      BY <1>0 DEF OpRecord
    <2>5. GoIdle(w) /\ row' = row /\ reaper' = reaper
      BY ZenonT(40), <1>9 DEF RenewerRaises
    <2>6. References'
      BY <2>2, <2>4, <2>5, GoIdleEffect DEF References
    <2> QED
      BY <1>9, <2>1, <2>3, <2>5, <2>6, GoIdleEffect, InjectTyped
         DEF RenewerRaises, TypeOK
  <1>10. CASE CommitAdvance(w)
    <2> DEFINE next == NextPhase(worker[w].phase)
    <2>1. worker[w].pc = "finished" /\ n \in Nodes /\ RowsStay
      BY <1>10 DEF CommitAdvance, References, RowsStay
    <2>2. next \in Phase
      BY DEF NextPhase, L!NextPhase, Phase, L!Phase, L!ActivePhase
    <2>3. job' \in [Nodes -> JobRecord]
      BY <1>10, <2>1, <2>2, MoveToEffect DEF CommitAdvance
    <2>4. \/ Goto(w, "mirror_ready") \/ Goto(w, "sweep") \/ GoIdle(w)
      BY ZenonT(40), <1>10 DEF CommitAdvance
    <2>5. /\ worker' \in [Worker -> WorkerRecord]
          /\ \A v \in Worker : v # w => worker'[v] = worker[v]
          /\ worker'[w].pc # "idle" => worker'[w].node \in Nodes
          /\ worker'[w].pc \in {"idle", "mirror_ready", "sweep"}
      BY <2>1, <2>4, GotoEffect, GoIdleEffect
    <2> QED
      BY <1>10, <2>1, <2>3, <2>5, NotAwaited, ReferencesOfWorker
         DEF CommitAdvance, TypeOK
  <1>11. CASE CommitRetry(w)
    <2> DEFINE j == [job[n] EXCEPT !.attempt = worker[w].attempt + 1,
                                   !.backoff = TRUE, !.holder = NoProc,
                                   !.expired = FALSE]
    <2>1. worker[w].pc = "finished" /\ n \in Nodes /\ RowsStay
      BY <1>11 DEF CommitRetry, References, RowsStay
    <2>2. worker[w].attempt \in 0 .. MaxAttempts - 1
      BY <1>0 DEF WorkerRecord
    <2>3. worker[w].attempt + 1 < MaxAttempts
      BY <1>11 DEF CommitRetry, Verdict
    <2>4. worker[w].attempt + 1 \in 0 .. MaxAttempts - 1
      BY <2>2, <2>3, ConstantsAssumption
    <2>5. j \in JobRecord
      BY ZenonT(40), <1>0, <2>1, <2>4 DEF JobRecord
    <2>6. job' = [job EXCEPT ![n] = j]
      BY <1>11 DEF CommitRetry
    <2> HIDE DEF j
    <2>7. job' \in [Nodes -> JobRecord]
      BY <1>0, <2>1, <2>5, <2>6
    <2> QED
      BY ZenonT(40),
         <1>11, <2>1, <2>7, GoIdleEffect, NotAwaited, ReferencesOfWorker
         DEF CommitRetry, TypeOK
  <1>12. CASE CommitFail(w)
    <2>1. worker[w].pc = "finished" /\ n \in Nodes /\ RowsStay
      BY ZenonT(40), <1>12 DEF CommitFail, References, RowsStay
    <2>2. "failed" \in Phase
      BY ZenonT(40) DEF Phase, L!Phase
    <2>3. job' \in [Nodes -> JobRecord]
      BY ZenonT(40), <1>12, <2>1, <2>2, MoveToEffect DEF CommitFail
    <2> QED
      BY <1>12, <2>1, <2>3, GotoEffect, NotAwaited, ReferencesOfWorker
         DEF CommitFail, TypeOK
  <1>13. CASE CommitDropped(w)
    <2>1. RowsStay /\ faults' \in 0 .. MaxFaults
      BY ZenonT(40), <1>13, InjectTyped DEF CommitDropped, RowsStay, TypeOK
    <2> QED
      BY ZenonT(40), <1>13, <2>1, GoIdleEffect, NotAwaited, ReferencesOfWorker
         DEF CommitDropped, TypeOK
  <1>14. CASE MirrorReady(w)
    <2>1. worker[w].pc = "mirror_ready" /\ n \in Nodes
      BY ZenonT(40), <1>14 DEF MirrorReady, References
    <2>2. /\ row' \in [Nodes -> RowRecord] /\ RowsStay
          /\ faults' \in 0 .. MaxFaults
      BY ZenonT(40), <1>14, <2>1, SetStateEffect, InjectTyped
         DEF MirrorReady, RowsStay, TypeOK
    <2> QED
      BY ZenonT(40),
         <1>14, <2>1, <2>2, GoIdleEffect, NotAwaited, ReferencesOfWorker
         DEF MirrorReady, TypeOK
  <1>15. CASE MirrorFailed(w)
    <2>1. worker[w].pc = "mirror_failed" /\ n \in Nodes
      BY ZenonT(40), <1>15 DEF MirrorFailed, References
    <2>2. /\ row' \in [Nodes -> RowRecord] /\ RowsStay
          /\ faults' \in 0 .. MaxFaults
      BY ZenonT(40), <1>15, <2>1, SetStateEffect, InjectTyped
         DEF MirrorFailed, RowsStay, TypeOK
    <2> QED
      BY ZenonT(40),
         <1>15, <2>1, <2>2, GotoEffect, NotAwaited, ReferencesOfWorker
         DEF MirrorFailed, TypeOK
  <1>16. CASE FailDeps(w)
    <2>1. /\ waiting' \in [Nodes -> BOOLEAN] /\ RowsStay
          /\ faults' \in 0 .. MaxFaults
      BY ZenonT(40), <1>16, InjectTyped DEF FailDeps, RowsStay, TypeOK
    <2> QED
      BY ZenonT(40), <1>16, <2>1, GoIdleEffect, NotAwaited, ReferencesOfWorker
         DEF FailDeps, TypeOK
  <1>17. CASE Sweep(w)
    <2>1. worker[w].pc = "sweep" /\ n \in Nodes
      BY ZenonT(40), <1>17 DEF Sweep, References
    <2>2. Live(n) \in BOOLEAN /\ "sweep_failed" \in Causes
      BY ZenonT(40) DEF Live, Causes, TypeOK, Ec2Record
    <2>3. cause' \in [Nodes -> SUBSET Causes]
      BY SMTT(40), <1>17, <2>1, <2>2, BlameEffect DEF Sweep, TypeOK
    <2>4. /\ ec2' \in [Nodes -> Ec2Record] /\ op' \in [Threads -> OpRecord]
          /\ faults' \in 0 .. MaxFaults
          /\ \A t \in Threads :
               /\ op'[t].node = op[t].node /\ op'[t].owner = op[t].owner
               /\ op'[t].proc = op[t].proc
               /\ op'[t].step = "idle" <=> op[t].step = "idle"
      <3>1. CASE SweepNode(n)
        BY ZenonT(40), <2>1, <3>1, SweepNodeEffect DEF SweepNode, TypeOK
      <3>2. CASE SweepFails(n)
        BY <3>2, InjectTyped DEF SweepFails, TypeOK
      <3> QED
        BY ZenonT(40), <1>17, <3>1, <3>2 DEF Sweep
    <2>5. /\ worker' \in [Worker -> WorkerRecord]
          /\ worker'[w].pc = "purge" /\ worker'[w].node = n
          /\ \A v \in Worker : v # w => worker'[v] = worker[v]
      BY ZenonT(40), <1>17, GotoEffect DEF Sweep
    <2>6. \A t \in Threads : op[t].owner \in (Worker \cup {NoWorker}) \ {w}
      BY ZenonT(40), <1>0, <2>1, NotAwaited DEF OpRecord
    <2>7. References'
      BY SMTT(40), <1>17, <2>1, <2>4, <2>5, <2>6 DEF Sweep, References
    <2> QED
      BY <1>17, <2>3, <2>4, <2>5, <2>7 DEF Sweep, TypeOK
  <1>18. CASE Purge(w)
    <2>1. worker[w].pc = "purge" /\ n \in Nodes
      BY ZenonT(40), <1>18 DEF Purge, References
    <2>2. /\ job' \in [Nodes -> JobRecord] /\ row' \in [Nodes -> RowRecord]
          /\ waiting' \in [Nodes -> BOOLEAN] /\ RowsStay
          /\ faults' \in 0 .. MaxFaults
      BY <1>18, <2>1, PurgeNodeEffect, InjectTyped DEF Purge, TypeOK, RowsStay
    <2> QED
      BY ZenonT(40),
         <1>18, <2>1, <2>2, GoIdleEffect, NotAwaited, ReferencesOfWorker
         DEF Purge, TypeOK
  <1> QED
    BY ZenonT(40),
       <1>1, <1>2, <1>3, <1>4, <1>5, <1>6, <1>7, <1>8, <1>9, <1>10, <1>11,
       <1>12, <1>13, <1>14, <1>15, <1>16, <1>17, <1>18 DEF WorkerStep

\* The operation of thread t is over: what its handler resumes with.
LEMMA OpReturnsTyped ==
    ASSUME TypeOK, References, NEW t \in Threads, OpReturns(t) \/ OpRaises(t)
    PROVE  /\ \E r \in Results : OpEnds(t, r)
           /\ faults' \in 0 .. MaxFaults
  BY ZenonT(40), InjectTyped DEF OpReturns, OpRaises, Results, TypeOK

\* A thread that ends leaves its coroutine awaiting nothing.
LEMMA OpEndsReferences ==
    ASSUME TypeOK, References, NEW t \in Threads, NEW r \in Results,
           OpEnds(t, r), UNCHANGED <<row, reaper>>
    PROVE  References'
  <1>1. \A u \in Threads : op[u].owner \in Worker \cup {NoWorker}
    BY ZenonT(40) DEF TypeOK, OpRecord
  <1>2. op[t].owner # NoWorker =>
          /\ worker[op[t].owner].node \in Nodes
          /\ worker[op[t].owner].phase \in ActivePhase
    BY ZenonT(40), <1>1 DEF References
  <1>3. ASSUME NEW u \in Threads, op'[u].owner # NoWorker
        PROVE  u # t /\ op'[u] = op[u] /\ op[u].owner # op[t].owner
    BY SMTT(40), <1>3, OpEndsEffect, NoOpTyped DEF References
  <1>4. op'[t].step = "idle" /\ \A u \in Threads : u # t => op'[u] = op[u]
    BY ZenonT(40), OpEndsEffect, NoOpTyped
  <1>5. \A w \in Worker :
          /\ worker'[w].pc # "idle" => worker'[w].node \in Nodes
          /\ worker'[w].pc \in {"claimed", "running", "finished"}
                => worker'[w].phase \in ActivePhase
    BY ZenonT(40), <1>1, <1>2, OpEndsEffect DEF References
  <1>6. \A u \in Threads : op'[u].owner # NoWorker
           => worker'[op'[u].owner] = worker[op'[u].owner]
    BY <1>1, <1>3, OpEndsEffect
  <1> QED
    BY <1>3, <1>4, <1>5, <1>6 DEF References

\* The steps of threads.
LEMMA OpStepTyped ==
    ASSUME TypeOK, References, NEW t \in Threads, OpStep(t)
    PROVE  TypeOK' /\ References'
  <1> DEFINE n == op[t].node
  <1>0. /\ op \in [Threads -> OpRecord] /\ ec2 \in [Nodes -> Ec2Record]
        /\ lock \in [Nodes -> Threads \cup {"free", "stale"}]
    BY DEF TypeOK
  <1>1. CASE OpLock(t)
    <2> DEFINE o == [op[t] EXCEPT !.step = "locked", !.saw = ec2[n].tracked]
    <2>1. n \in Nodes
      BY <1>1 DEF OpLock, References
    <2>2. ec2[n].tracked \in BOOLEAN
      BY <1>0, <2>1 DEF Ec2Record
    <2>3. /\ o \in OpRecord /\ o.step = "locked" /\ o.node = n
          /\ o.owner = op[t].owner /\ o.proc = op[t].proc
      BY ZenonT(40), <1>0, <2>2 DEF OpRecord
    <2>4. op' = [op EXCEPT ![t] = o]
      BY <1>1 DEF OpLock
    <2>5. lock' \in [Nodes -> Threads \cup {"free", "stale"}]
      BY ZenonT(40), <1>0, <1>1 DEF OpLock
    <2> HIDE DEF o
    <2>6. op' \in [Threads -> OpRecord]
      BY <1>0, <2>3, <2>4
    <2>7. /\ op'[t].node = n /\ op'[t].owner = op[t].owner
          /\ op'[t].proc = op[t].proc
          /\ \A u \in Threads : u # t => op'[u] = op[u]
      BY <1>0, <2>3, <2>4
    <2>8. References'
      BY SMTT(40), <1>1, <2>1, <2>7 DEF OpLock, References
    <2> QED
      BY <1>1, <2>5, <2>6, <2>8 DEF OpLock, TypeOK
  <1>2. ASSUME n \in Nodes, UNCHANGED <<worker, row, reaper>>,
               NEW s \in {"retry", "launched"},
               op' = [op EXCEPT ![t].step = s]
        PROVE  op' \in [Threads -> OpRecord] /\ References'
    <2>1. /\ op' \in [Threads -> OpRecord]
          /\ \A u \in Threads :
               /\ op'[u].node = op[u].node /\ op'[u].owner = op[u].owner
               /\ op'[u].proc = op[u].proc
               /\ u # t => op'[u].step = op[u].step
      BY <1>0, <1>2 DEF OpRecord
    <2> QED
      BY <1>2, <2>1 DEF References
  <1>3. CASE OpBreakLock(t)
    <2>1. n \in Nodes
      BY <1>3 DEF OpBreakLock, References
    <2>2. /\ lock' \in [Nodes -> Threads \cup {"free", "stale"}]
          /\ faults' \in 0 .. MaxFaults
      BY <1>0, <1>3, InjectTyped DEF OpBreakLock, TypeOK
    <2>3. op' \in [Threads -> OpRecord] /\ References'
      BY ZenonT(40), <1>2, <1>3, <2>1 DEF OpBreakLock
    <2> QED
      BY <1>3, <2>2, <2>3 DEF OpBreakLock, TypeOK
  <1>4. CASE OpLockFails(t)
    <2>1. OpEnds(t, "permanent") /\ "permanent" \in Results
      BY <1>4 DEF OpLockFails, Results
    <2>2. References'
      BY <1>4, <2>1, OpEndsReferences DEF OpLockFails
    <2> QED
      BY ZenonT(40), <1>4, <2>1, <2>2, OpEndsEffect DEF OpLockFails, TypeOK
  <1>5. CASE UpLaunch(t)
    <2>1. n \in Nodes /\ "late_up" \in Causes
      BY <1>5 DEF UpLaunch, References, Causes
    <2>2. cause' \in [Nodes -> SUBSET Causes]
      BY ZenonT(40), <1>5, <2>1, BlameEffect DEF UpLaunch
    <2>3. op' \in [Threads -> OpRecord] /\ References'
      BY ZenonT(40), <1>2, <1>5, <2>1 DEF UpLaunch
    <2> QED
      BY <1>5, <2>2, <2>3 DEF UpLaunch, TypeOK
  <1>6. ASSUME OpReturns(t) \/ OpRaises(t), ec2' \in [Nodes -> Ec2Record],
               UNCHANGED <<job, row, waiting, leader, active, reaper, api,
                           asked, cause>>
        PROVE  TypeOK' /\ References'
    <2>1. PICK r \in Results : OpEnds(t, r)
      BY <1>6, OpReturnsTyped
    <2>2. References'
      BY <1>6, <2>1, OpEndsReferences
    <2>3. faults' \in 0 .. MaxFaults
      BY ZenonT(40), <1>6, OpReturnsTyped
    <2> QED
      BY <1>6, <2>1, <2>2, <2>3, OpEndsEffect DEF TypeOK
  <1>7. CASE UpSave(t)
    <2>1. n \in Nodes
      BY ZenonT(40), <1>7 DEF UpSave, References
    <2>2. ec2[n].tracked \in BOOLEAN /\ ec2[n].stray \in BOOLEAN
      BY ZenonT(40), <1>0, <2>1 DEF Ec2Record
    <2>3. ec2' \in [Nodes -> Ec2Record]
      BY ZenonT(40), <1>0, <1>7, <2>2 DEF UpSave, Ec2Record
    <2> QED
      BY ZenonT(40), <1>6, <1>7, <2>3 DEF UpSave
  <1>8. CASE UpNoop(t)
    BY <1>0, <1>6, <1>8 DEF UpNoop
  <1>9. CASE UpFails(t)
    BY ZenonT(40), <1>0, <1>6, <1>9 DEF UpFails
  <1>10. CASE DestroyDone(t)
    <2>1. n \in Nodes /\ op[t].saw \in BOOLEAN
      BY <1>0, <1>10 DEF DestroyDone, References, OpRecord
    <2>2. ec2[n].tracked \in BOOLEAN /\ ec2[n].stray \in BOOLEAN
      BY ZenonT(40), <1>0, <2>1 DEF Ec2Record
    <2>3. ec2' \in [Nodes -> Ec2Record]
      BY <1>0, <1>10, <2>1, <2>2 DEF DestroyDone, Ec2Record
    <2> QED
      BY ZenonT(40), <1>6, <1>10, <2>3 DEF DestroyDone
  <1>11. CASE DestroyFails(t)
    BY <1>0, <1>6, <1>11 DEF DestroyFails
  <1> QED
    BY <1>1, <1>3, <1>4, <1>5, <1>7, <1>8, <1>9, <1>10, <1>11 DEF OpStep

-----------------------------------------------------------------------------
\* The initial state.
LEMMA InitTyped == Init => TypeOK /\ References
  <1> SUFFICES ASSUME Init PROVE TypeOK /\ References
    BY ZenonT(40)
  <1>1. /\ waiting \in [Nodes -> BOOLEAN] /\ leader = NoProc /\ active = {}
        /\ lock \in [Nodes -> Threads \cup {"free", "stale"}]
        /\ api \in [Nodes -> SUBSET Pending]
        /\ cause \in [Nodes -> SUBSET Causes]
    BY ZenonT(40) DEF Init
  <1>2. job \in [Nodes -> JobRecord]
    BY SMTT(40), ConstantsAssumption DEF Init, JobRecord, Phase, L!Phase
  <1>3. row \in [Nodes -> RowRecord] /\ ec2 \in [Nodes -> Ec2Record]
    BY ZenonT(40) DEF Init, RowRecord, Ec2Record
  <1>4. worker \in [Worker -> WorkerRecord] /\ op \in [Threads -> OpRecord]
    BY ZenonT(40), IdleTyped, NoOpTyped DEF Init
  <1>5. reaper \in [Procs -> ReaperRecord]
    BY ZenonT(40) DEF Init, NoReap, ReaperRecord
  <1>6. asked \in 0 .. MaxAsked /\ faults \in 0 .. MaxFaults
    BY ConstantsAssumption DEF Init
  <1>7. TypeOK
    BY ZenonT(40), <1>1, <1>2, <1>3, <1>4, <1>5, <1>6 DEF TypeOK
  <1>8. References
    BY ZenonT(40), IdleTyped, NoOpTyped DEF Init, References, NoReap
  <1> QED
    BY <1>7, <1>8

\* Every step.
LEMMA NextTyped == TypeOK /\ References /\ [Next]_vars => TypeOK' /\ References'
  <1> SUFFICES ASSUME TypeOK, References, [Next]_vars
               PROVE  TypeOK' /\ References'
    OBVIOUS
  <1>1. CASE Next
    BY ZenonT(40),
       <1>1, ApiStepTyped, NodeStepTyped, ProcStepTyped, WorkerStepTyped,
       OpStepTyped DEF Next
  <1>2. CASE UNCHANGED vars
    BY ZenonT(40), <1>2 DEF vars, TypeOK, References
  <1> QED
    BY <1>1, <1>2

\* Every reachable state is well typed: attempt_count never reaches
\* TRANSIENT_MAX_ATTEMPTS, and coroutines, threads and reapers refer to nodes
\* that exist and to coroutines that await them.
THEOREM TypesCorrect == Spec => [](TypeOK /\ References)
  BY InitTyped, NextTyped, PTL DEF Spec
=============================================================================
