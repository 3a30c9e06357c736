-------------------------- MODULE DeploymentProofs --------------------------
(***************************************************************************)
(* Placement never overcommits a node and never leaves a deployment bound  *)
(* to a node that is gone, for any number of deployments, nodes, tasks and *)
(* failures.                                                               *)
(***************************************************************************)
EXTENDS Deployments, TLAPS

\* A task names the deployment and the node that its next step is about.
OnDep == {"decide", "bind", "cold", "abort", "enqueue", "load", "terminate",
          "destroy", "cancel", "reset", "delete", "drop_row"}

OnNode == {"bind", "enqueue", "load", "link", "drive", "destroy", "cancel",
           "flag"}

References ==
    \A k \in Tasks :
      /\ task[k].pc \in OnDep => task[k].dep \in Deps
      /\ task[k].pc \in OnNode => task[k].node \in Nodes

\* Two placers never hold the same row.
LockExclusive ==
    \A j, k \in Tasks :
      task[j].pc = "bind" /\ task[k].pc = "bind" /\ task[j].node = task[k].node
      => j = k

IInv ==
    /\ TypeOK
    /\ References
    /\ LockExclusive
    /\ GpuWithinCapacity
    /\ RoomHeld
    /\ BindingSound

\* What almost every step does for the placers: none takes a lock, a locked
\* row keeps what the lock protects, and no row grows past its capacity.
RowsRespected ==
    /\ \A k \in Tasks : task'[k].pc = "bind" => task'[k] = task[k]
    /\ \A n \in Nodes :
         /\ inv'[n].alloc \in 0 .. GpuTotal
         /\ Locked(n) => /\ inv'[n].state = inv[n].state
                         /\ inv'[n].terminating = inv[n].terminating
                         /\ inv'[n].alloc = inv[n].alloc

\* What almost every step does for the bindings: no row disappears, and a
\* deployment that starts to wait or to load has a node that exists.
BindingsRespected ==
    /\ \A n \in Nodes : Present(n) => Present(n)'
    /\ \A d \in Deps :
         \/ dep'[d] = dep[d]
         \/ /\ dep'[d].node \in {dep[d].node, NoNode}
            /\ dep'[d].state \notin {"PENDING_NODE", "DEPLOYING"}
         \/ \E n \in Nodes : dep'[d].node = n /\ Present(n)'

\* Respected rows give the three invariants of the placers.
LEMMA RoomFromRows ==
    ASSUME IInv, RowsRespected
    PROVE  LockExclusive' /\ GpuWithinCapacity' /\ RoomHeld'
  <1>1. LockExclusive'
    BY DEF IInv, RowsRespected, LockExclusive
  <1>2. GpuWithinCapacity'
    BY DEF RowsRespected, GpuWithinCapacity
  <1>3. ASSUME NEW k \in Tasks, task'[k].pc = "bind"
        PROVE  HasRoom(task[k].node, Gpus(task[k].dep))'
    <2>1. task'[k] = task[k] /\ task[k].pc = "bind"
      BY <1>3 DEF RowsRespected
    <2>2. task[k].node \in Nodes /\ Locked(task[k].node)
      BY <2>1 DEF IInv, References, OnNode, Locked
    <2>3. HasRoom(task[k].node, Gpus(task[k].dep))
      BY <2>1 DEF IInv, RoomHeld
    <2> QED
      BY <2>1, <2>2, <2>3 DEF RowsRespected, HasRoom, Usable, Gpus
  <1>4. RoomHeld'
    BY <1>3 DEF RoomHeld
  <1> QED
    BY <1>1, <1>2, <1>4

\* Respected bindings give the invariant of the bindings.
LEMMA BoundFromBindings ==
    ASSUME IInv, BindingsRespected
    PROVE  BindingSound'
  <1>1. ASSUME NEW d \in Deps, dep'[d].node # NoNode
        PROVE  Present(dep[d].node)'
    <2>1. PICK m \in Nodes : m = dep'[d].node /\ Present(m)'
      <3>1. dep[d].node \in Nodes \cup {NoNode}
        BY DEF IInv, TypeOK, DepRecord
      <3> QED
        BY <1>1, <3>1 DEF IInv, BindingSound, BindingsRespected
    <2> QED
      BY <2>1 DEF Present
  <1>2. ASSUME NEW d \in Deps,
               dep'[d].state \in {"PENDING_NODE", "DEPLOYING"}
        PROVE  dep'[d].node # NoNode
    BY <1>2, DeploymentConstants DEF IInv, BindingSound, BindingsRespected
  <1> QED
    BY <1>1, <1>2 DEF BindingSound

-----------------------------------------------------------------------------
\* A step leaves the tasks alone, or moves one of them, not into the lock.
TaskMoves ==
    \/ UNCHANGED task
    \/ /\ task' \in [Tasks -> TaskRecord]
       /\ \E k \in Tasks :
            /\ \A j \in Tasks \ {k} : task'[j] = task[j]
            /\ task'[k].pc # "bind"
            /\ task'[k].pc \in OnDep => task'[k].dep \in Deps
            /\ task'[k].pc \in OnNode => task'[k].node \in Nodes

\* The rows keep their types, their capacity, and what locks protect.
RowsMove ==
    /\ inv' \in [Nodes -> NodeRecord]
    /\ \A n \in Nodes :
         /\ inv'[n].alloc \in 0 .. GpuTotal
         /\ Locked(n) => /\ inv'[n].state = inv[n].state
                         /\ inv'[n].terminating = inv[n].terminating
                         /\ inv'[n].alloc = inv[n].alloc
         /\ Present(n) => Present(n)'

DepsMove ==
    /\ dep' \in [Deps -> DepRecord]
    /\ \A d \in Deps :
         \/ dep'[d] = dep[d]
         \/ /\ dep'[d].node \in {dep[d].node, NoNode}
            /\ dep'[d].state \notin {"PENDING_NODE", "DEPLOYING"}
         \/ \E n \in Nodes : dep'[d].node = n /\ Present(n)'

CountsTyped == asked' \in 0 .. MaxAsked /\ injected' \subseteq Faults

\* A step of the four kinds below keeps the whole invariant.
LEMMA StepKeeps ==
    ASSUME IInv, TaskMoves, RowsMove, DepsMove, CountsTyped
    PROVE  IInv'
  <1>1. /\ task' \in [Tasks -> TaskRecord]
        /\ References'
        /\ \A k \in Tasks : task'[k].pc = "bind" => task'[k] = task[k]
    BY DEF IInv, TypeOK, References, TaskMoves
  <1>2. TypeOK'
    BY <1>1 DEF TypeOK, RowsMove, DepsMove, CountsTyped
  <1>3. LockExclusive' /\ GpuWithinCapacity' /\ RoomHeld'
    BY <1>1, RoomFromRows DEF RowsRespected, RowsMove
  <1>4. BindingSound'
    BY BoundFromBindings DEF BindingsRespected, RowsMove, DepsMove
  <1> QED
    BY <1>1, <1>2, <1>3, <1>4 DEF IInv

\* Rows that do not change move as required.
LEMMA RowsStay ==
    ASSUME IInv, UNCHANGED inv
    PROVE  RowsMove
  BY DEF IInv, TypeOK, GpuWithinCapacity, RowsMove, Present

\* Deployments that do not change move as required.
LEMMA DepsStay ==
    ASSUME IInv, UNCHANGED dep
    PROVE  DepsMove
  BY DEF IInv, TypeOK, DepsMove

\* Counters that do not change keep their types.
LEMMA CountsStay ==
    ASSUME IInv, UNCHANGED <<asked, injected>>
    PROVE  CountsTyped
  BY DEF IInv, TypeOK, CountsTyped

\* A user's request is counted within its bound.
LEMMA AskTyped ==
    ASSUME IInv, Ask, UNCHANGED injected
    PROVE  CountsTyped
  BY DeploymentConstants DEF IInv, TypeOK, CountsTyped, Ask

\* An injected failure is one of Faults.
LEMMA InjectTyped ==
    ASSUME IInv, NEW f, Inject(f), UNCHANGED asked
    PROVE  CountsTyped
  BY DEF IInv, TypeOK, CountsTyped, Inject

\* An idle task is well typed.
LEMMA FreeTyped == Free \in TaskRecord /\ Free.pc = "idle"
  BY DEF Free, TaskRecord

\* A task that ends refers to nothing.
LEMMA FinishMoves ==
    ASSUME IInv, NEW k \in Tasks, Finish(k)
    PROVE  TaskMoves
  BY FreeTyped DEF IInv, TypeOK, Finish, TaskMoves, OnDep, OnNode

\* A task that begins refers to what it is begun with.
LEMMA BeginMoves ==
    ASSUME IInv, NEW k \in Tasks, NEW t \in TaskRecord, Begin(k, t),
           t.pc # "bind", t.pc \in OnDep => t.dep \in Deps,
           t.pc \in OnNode => t.node \in Nodes
    PROVE  TaskMoves
  BY DEF IInv, TypeOK, Begin, TaskMoves

PC == {"idle", "decide", "bind", "cold", "abort", "enqueue", "load", "link",
       "drive", "terminate", "destroy", "cancel", "flag", "reset", "delete",
       "drop_row"}

\* A task that goes on refers to what it referred to before.
LEMMA GotoMoves ==
    ASSUME IInv, NEW k \in Tasks, NEW pc \in PC \ {"bind"}, Goto(k, pc),
           pc \in OnDep => task[k].dep \in Deps,
           pc \in OnNode => task[k].node \in Nodes
    PROVE  TaskMoves
  <1>1. task[k] \in TaskRecord /\ task \in [Tasks -> TaskRecord]
    BY DEF IInv, TypeOK
  <1> DEFINE r == [task[k] EXCEPT !.pc = pc]
  <1>2. r \in TaskRecord /\ r.pc = pc /\ r.dep = task[k].dep
        /\ r.node = task[k].node
    BY <1>1 DEF TaskRecord, PC
  <1>3. task' = [task EXCEPT ![k] = r]
    BY <1>1 DEF Goto
  <1> HIDE DEF r
  <1> QED
    BY <1>1, <1>2, <1>3 DEF TaskMoves

-----------------------------------------------------------------------------
\* One row changes, within its capacity and its lock.
LEMMA RowChanges ==
    ASSUME IInv, NEW n \in Nodes, NEW r \in NodeRecord,
           inv' = [inv EXCEPT ![n] = r], r.alloc \in 0 .. GpuTotal,
           Locked(n) => /\ r.state = inv[n].state
                        /\ r.terminating = inv[n].terminating
                        /\ r.alloc = inv[n].alloc,
           Present(n) => r.state \notin {"absent", "purged"}
    PROVE  RowsMove
  BY DEF IInv, TypeOK, GpuWithinCapacity, RowsMove, Present

\* release_gpu never takes gpu_allocated below 0.
LEMMA ReleaseMoves ==
    ASSUME IInv, NEW n, NEW c \in {0, 1}, Release(n, c)
    PROVE  RowsMove
  <1>1. CASE CanRelease(n, c)
    <2>1. n \in Nodes /\ inv[n] \in NodeRecord /\ inv[n].alloc \in c .. GpuTotal
      BY <1>1 DEF IInv, TypeOK, GpuWithinCapacity, CanRelease, Present
    <2> DEFINE r == [inv[n] EXCEPT !.alloc = @ - c]
    <2>2. r \in NodeRecord /\ r.alloc \in 0 .. GpuTotal
          /\ r.state = inv[n].state
      BY <2>1, DeploymentConstants DEF NodeRecord
    <2>3. inv' = [inv EXCEPT ![n] = r]
      BY <1>1 DEF Release
    <2> HIDE DEF r
    <2> QED
      BY ZenonT(40), <2>1, <2>2, <2>3, RowChanges DEF Release, Present
  <1>2. CASE ~CanRelease(n, c)
    BY <1>2, RowsStay DEF Release
  <1> QED
    BY <1>1, <1>2

\* The terminating flag waits for the lock.
LEMMA SetFlagMoves ==
    ASSUME IInv, NEW n, NEW flag \in BOOLEAN, SetFlag(n, flag)
    PROVE  RowsMove
  <1>1. CASE Present(n)
    <2>1. n \in Nodes /\ inv[n] \in NodeRecord
          /\ inv[n].alloc \in 0 .. GpuTotal
      BY <1>1 DEF IInv, TypeOK, GpuWithinCapacity, Present
    <2> DEFINE r == [inv[n] EXCEPT !.terminating = flag]
    <2>2. r \in NodeRecord /\ r.alloc = inv[n].alloc
          /\ r.state = inv[n].state
      BY <2>1 DEF NodeRecord
    <2>3. inv' = [inv EXCEPT ![n] = r]
      BY <1>1 DEF SetFlag
    <2> HIDE DEF r
    <2> QED
      BY ZenonT(40), <2>1, <2>2, <2>3, RowChanges DEF SetFlag, Present
  <1>2. CASE ~Present(n)
    BY <1>2, RowsStay DEF SetFlag
  <1> QED
    BY <1>1, <1>2

\* The job and the agent of a node are not what a lock protects.
LEMMA JobMoves ==
    ASSUME IInv, NEW n \in Nodes,
           NEW j \in {"none", "live", "reporting", "done", "cancelling"},
           inv' = [inv EXCEPT ![n].job = j]
    PROVE  RowsMove
  <1>1. inv[n] \in NodeRecord /\ inv[n].alloc \in 0 .. GpuTotal
    BY DEF IInv, TypeOK, GpuWithinCapacity
  <1> DEFINE r == [inv[n] EXCEPT !.job = j]
  <1>2. r \in NodeRecord /\ r.alloc = inv[n].alloc /\ r.state = inv[n].state
        /\ r.terminating = inv[n].terminating
    BY <1>1 DEF NodeRecord
  <1>3. inv' = [inv EXCEPT ![n] = r]
    OBVIOUS
  <1> HIDE DEF r
  <1> QED
    BY ZenonT(40), <1>1, <1>2, <1>3, RowChanges DEF Present

\* force_cancel changes nothing that a lock protects.
LEMMA CancelMoves ==
    ASSUME IInv, NEW n \in Nodes, inv' = Cancelled(n)
    PROVE  RowsMove
  BY ZenonT(40), JobMoves, RowsStay DEF Cancelled

DepStates == Terminal \cup Live \cup {"none", "CREATED", "deleted"}

\* An UPDATE that unbinds, or binds to a row that exists.
LEMMA SetDepMoves ==
    ASSUME IInv, NEW d \in Deps, NEW st \in DepStates,
           NEW n \in Nodes \cup {NoNode}, SetDep(d, st, n),
           \/ n \in {dep[d].node, NoNode}
              /\ st \notin {"PENDING_NODE", "DEPLOYING"}
           \/ n \in Nodes /\ Present(n)'
    PROVE  DepsMove
  BY DEF IInv, TypeOK, DepsMove, DepRecord, DepStates, SetDep

\* An UPDATE of the state alone leaves the binding as it is.
LEMMA SetStateMoves ==
    ASSUME IInv, NEW d \in Deps, NEW st \in {"FAILED", "RUNNING"},
           SetState(d, st)
    PROVE  DepsMove
  <1>1. dep[d].node \in Nodes \cup {NoNode} /\ st \in DepStates
    BY DEF IInv, TypeOK, DepRecord, DepStates, Terminal, Live
  <1> QED
    BY <1>1, SetDepMoves DEF SetState

-----------------------------------------------------------------------------
\* The first step of every request.
LEMMA RequestKeeps ==
    ASSUME IInv, NEW k \in Tasks, Request(k)
    PROVE  IInv'
  <1>1. ASSUME NEW d \in Deps, Deploy(k, d)
        PROVE  IInv'
    <2> DEFINE t == [Free EXCEPT !.pc = "decide", !.dep = d]
    <2>1. t \in TaskRecord /\ t.pc = "decide" /\ t.dep = d
      BY ZenonT(40) DEF Free, TaskRecord
    <2>2. Begin(k, t)
      BY <1>1 DEF Deploy
    <2> HIDE DEF t
    <2>3. TaskMoves
      BY <2>1, <2>2, BeginMoves DEF OnNode
    <2>4. DepsMove
      BY <1>1 DEF Deploy, IInv, TypeOK, DepsMove, DepRecord
    <2> QED
      BY <1>1, <2>3, <2>4, RowsStay, CountsStay, StepKeeps DEF Deploy
  <1>2. ASSUME NEW d \in Deps, Terminate(k, d)
        PROVE  IInv'
    <2> DEFINE t == [Free EXCEPT !.pc = "terminate", !.dep = d,
                                 !.node = dep[d].node, !.saw = dep[d].state]
    <2>1. /\ dep[d].node \in Nodes \cup {NoNode}
          /\ dep[d].state \in Terminal \cup Live \cup {"CREATED"}
      BY <1>2 DEF Terminate, Stored, IInv, TypeOK, DepRecord
    <2>2. t \in TaskRecord /\ t.pc = "terminate" /\ t.dep = d
      BY ZenonT(40), <2>1 DEF Free, TaskRecord
    <2>3. Begin(k, t)
      BY <1>2 DEF Terminate
    <2> HIDE DEF t
    <2>4. TaskMoves
      BY <2>2, <2>3, BeginMoves DEF OnNode
    <2> QED
      BY <1>2, <2>4, RowsStay, DepsStay, AskTyped, StepKeeps DEF Terminate
  <1>3. ASSUME NEW d \in Deps, Start(k, d)
        PROVE  IInv'
    <2> DEFINE t == [Free EXCEPT !.pc = "reset", !.dep = d]
    <2>1. t \in TaskRecord /\ t.pc = "reset" /\ t.dep = d
      BY ZenonT(40) DEF Free, TaskRecord
    <2>2. Begin(k, t)
      BY <1>3 DEF Start
    <2> HIDE DEF t
    <2>3. TaskMoves
      BY <2>1, <2>2, BeginMoves DEF OnNode
    <2> QED
      BY <1>3, <2>3, RowsStay, DepsStay, AskTyped, StepKeeps DEF Start
  <1>4. ASSUME NEW d \in Deps, Delete(k, d)
        PROVE  IInv'
    <2> DEFINE t == [Free EXCEPT !.pc = "delete", !.dep = d,
                                 !.node = dep[d].node, !.deleting = TRUE]
    <2>1. dep[d].node \in Nodes \cup {NoNode}
      BY DEF IInv, TypeOK, DepRecord
    <2>2. t \in TaskRecord /\ t.pc = "delete" /\ t.dep = d
      BY ZenonT(40), <2>1 DEF Free, TaskRecord
    <2>3. Begin(k, t)
      BY <1>4 DEF Delete
    <2> HIDE DEF t
    <2>4. TaskMoves
      BY <2>2, <2>3, BeginMoves DEF OnNode
    <2> QED
      BY <1>4, <2>4, RowsStay, DepsStay, AskTyped, StepKeeps DEF Delete
  <1>5. ASSUME NEW n \in Nodes, DeleteNode(k, n)
        PROVE  IInv'
    <2>1. CASE inv[n].job # "none"
      <3> DEFINE t == [Free EXCEPT !.pc = "flag", !.node = n]
      <3>1. t \in TaskRecord /\ t.pc = "flag" /\ t.node = n
        BY ZenonT(40) DEF Free, TaskRecord
      <3>2. Begin(k, t)
        BY <1>5, <2>1 DEF DeleteNode
      <3> HIDE DEF t
      <3>3. TaskMoves
        BY <3>1, <3>2, BeginMoves DEF OnDep
      <3> QED
        BY <1>5, <2>1, <3>3, CancelMoves, DepsStay, AskTyped, StepKeeps
           DEF DeleteNode
    <2>2. CASE inv[n].job = "none"
      <3> DEFINE r == [inv[n] EXCEPT !.state = "terminated"]
      <3>1. inv[n] \in NodeRecord /\ inv[n].alloc \in 0 .. GpuTotal
        BY DEF IInv, TypeOK, GpuWithinCapacity
      <3>2. r \in NodeRecord /\ r.alloc = inv[n].alloc
            /\ r.state = "terminated"
        BY <3>1 DEF NodeRecord
      <3>3. inv' = [inv EXCEPT ![n] = r]
        BY <1>5, <2>2 DEF DeleteNode
      <3> HIDE DEF r
      <3>4. RowsMove
        BY ZenonT(40), <1>5, <3>1, <3>2, <3>3, RowChanges DEF DeleteNode
      <3>5. TaskMoves
        BY <1>5, <2>2 DEF DeleteNode, TaskMoves
      <3> QED
        BY <1>5, <3>4, <3>5, DepsStay, AskTyped, StepKeeps DEF DeleteNode
    <2> QED
      BY <2>1, <2>2
  <1> QED
    BY <1>1, <1>2, <1>3, <1>4, <1>5 DEF Request

\* The placer takes the lock of a row that nobody holds and that has room.
LEMMA DecideKeeps ==
    ASSUME IInv, NEW k \in Tasks, Decide(k)
    PROVE  IInv'
  <1>0. task[k] \in TaskRecord /\ task \in [Tasks -> TaskRecord]
        /\ task[k].dep \in Deps
    BY ZenonT(40) DEF Decide, IInv, TypeOK, References, OnDep
  <1>1. CASE \E n \in Best(task[k].dep) :
               task' = [task EXCEPT ![k].pc = "bind", ![k].node = n,
                                    ![k].saw = inv[n].state]
    <2>1. PICK n \in Best(task[k].dep) :
                 task' = [task EXCEPT ![k].pc = "bind", ![k].node = n,
                                      ![k].saw = inv[n].state]
      BY ZenonT(40), <1>1
    <2>2. n \in Nodes /\ ~Locked(n) /\ HasRoom(n, Gpus(task[k].dep))
      BY DEF Best, Candidates
    <2>3. inv[n].state \in {"ready", "provisioning"}
      BY <2>2 DEF HasRoom, Usable
    <2> DEFINE r == [task[k] EXCEPT !.pc = "bind", !.node = n,
                                    !.saw = inv[n].state]
    <2>4. r \in TaskRecord /\ r.pc = "bind" /\ r.node = n
          /\ r.dep = task[k].dep
      BY ZenonT(40), <1>0, <2>2, <2>3 DEF TaskRecord
    <2>5. task' = [task EXCEPT ![k] = r]
      BY ZenonT(40), <1>0, <2>1
    <2> HIDE DEF r
    <2>6. /\ task' \in [Tasks -> TaskRecord] /\ task'[k] = r
          /\ \A j \in Tasks \ {k} : task'[j] = task[j]
      BY <1>0, <2>4, <2>5
    <2>7. UNCHANGED <<dep, inv, asked, injected>>
      BY ZenonT(40) DEF Decide
    <2>8. TypeOK' /\ GpuWithinCapacity' /\ BindingSound'
      BY <2>6, <2>7 DEF IInv, TypeOK, GpuWithinCapacity, BindingSound, Present
    <2>9. References'
      BY <1>0, <2>2, <2>4, <2>6 DEF IInv, References
    <2>10. LockExclusive'
      BY ZenonT(40), <2>2, <2>4, <2>6 DEF IInv, LockExclusive, Locked
    <2>11. RoomHeld'
      BY ZenonT(40),
         <2>2, <2>4, <2>6, <2>7 DEF IInv, RoomHeld, HasRoom, Usable, Gpus
    <2> QED
      BY ZenonT(40), <2>8, <2>9, <2>10, <2>11 DEF IInv
  <1>2. CASE \E pc \in {"cold", "abort"} : Goto(k, pc)
    <2>1. TaskMoves
      BY <1>0, <1>2, GotoMoves DEF PC, OnNode
    <2> QED
      BY ZenonT(40), <2>1, RowsStay, DepsStay, CountsStay, StepKeeps DEF Decide
  <1> QED
    BY ZenonT(40), <1>1, <1>2 DEF Decide

\* It gives the lock back with the room it found taken.
LEMMA BindKeeps ==
    ASSUME IInv, NEW k \in Tasks, Bind(k)
    PROVE  IInv'
  <1>1. PICK d \in Deps, n \in Nodes : d = task[k].dep /\ n = task[k].node
    BY DEF Bind, IInv, References, OnDep, OnNode
  <1>2. HasRoom(n, Gpus(d)) /\ Gpus(d) \in {0, 1}
    BY <1>1 DEF Bind, IInv, RoomHeld, Gpus
  <1>3. inv \in [Nodes -> NodeRecord] /\ inv[n] \in NodeRecord
    BY DEF IInv, TypeOK
  <1> DEFINE r == [inv[n] EXCEPT !.alloc = @ + Gpus(d)]
  <1>4. r \in NodeRecord /\ r.alloc \in 0 .. GpuTotal
        /\ r.state = inv[n].state
    BY <1>2, <1>3, DeploymentConstants DEF NodeRecord, HasRoom
  <1>5. inv' = [inv EXCEPT ![n] = r]
    BY <1>1, <1>2 DEF Bind, Allocate
  <1> HIDE DEF r
  <1>6. /\ inv' \in [Nodes -> NodeRecord] /\ inv'[n] = r
        /\ \A m \in Nodes \ {n} : inv'[m] = inv[m]
    BY <1>3, <1>4, <1>5
  <1>7. Present(n)' /\ \A m \in Nodes : Present(m) => Present(m)'
    BY <1>2, <1>4, <1>6 DEF Present, HasRoom, Usable
  <1>8. TaskMoves
    <2>1. CASE task[k].saw = "ready"
      <3>1. task[k] \in TaskRecord /\ task \in [Tasks -> TaskRecord]
        BY DEF IInv, TypeOK
      <3> DEFINE t == [task[k] EXCEPT !.pc = "load", !.saw = "warm"]
      <3>2. t \in TaskRecord /\ t.pc = "load" /\ t.dep = d /\ t.node = n
        BY ZenonT(40), <1>1, <3>1 DEF TaskRecord
      <3>3. task' = [task EXCEPT ![k] = t]
        BY ZenonT(40), <2>1, <3>1 DEF Bind
      <3> HIDE DEF t
      <3> QED
        BY <3>1, <3>2, <3>3 DEF TaskMoves
    <2>2. CASE task[k].saw = "provisioning"
      BY <2>2, FinishMoves DEF Bind
    <2> QED
      BY <2>1, <2>2 DEF Bind
  <1>9. DepsMove
    <2>1. \E st \in DepStates : SetDep(d, st, n)
      BY <1>1 DEF Bind, DepStates, Live
    <2> QED
      BY <1>7, <2>1, SetDepMoves
  <1>10. UNCHANGED <<asked, injected>>
    BY DEF Bind
  <1>11. task'[k].pc # "bind" /\ task' \in [Tasks -> TaskRecord]
         /\ \A j \in Tasks \ {k} : task'[j] = task[j]
    BY FreeTyped DEF Bind, Finish, IInv, TypeOK, TaskRecord
  <1>12. TypeOK'
    BY <1>6, <1>9, <1>10, <1>11 DEF IInv, TypeOK, DepsMove
  <1>13. References'
    BY <1>8 DEF IInv, References, TaskMoves
  <1>14. LockExclusive'
    BY <1>11 DEF IInv, LockExclusive
  <1>15. GpuWithinCapacity'
    BY <1>4, <1>6 DEF IInv, GpuWithinCapacity
  <1>16. RoomHeld'
    <2>1. ASSUME NEW j \in Tasks, task'[j].pc = "bind"
          PROVE  HasRoom(task[j].node, Gpus(task[j].dep))'
      <3>1. j # k /\ task'[j] = task[j] /\ task[j].pc = "bind"
        BY <1>11, <2>1
      <3>2. task[j].node \in Nodes /\ task[j].node # n
        BY <1>1, <3>1 DEF Bind, IInv, References, OnNode, LockExclusive
      <3>3. HasRoom(task[j].node, Gpus(task[j].dep))
        BY <3>1 DEF IInv, RoomHeld
      <3> QED
        BY <1>6, <3>1, <3>2, <3>3 DEF HasRoom, Usable, Gpus
    <2> QED
      BY <2>1 DEF RoomHeld
  <1>17. BindingSound'
    BY <1>7, <1>9, BoundFromBindings DEF BindingsRespected, DepsMove
  <1> QED
    BY <1>12, <1>13, <1>14, <1>15, <1>16, <1>17 DEF IInv

\* The steps of requests other than the two above.
LEMMA ApiKeeps ==
    ASSUME IInv, NEW k \in Tasks,
           \/ \E n \in Nodes : CreatePlaceholder(k, n)
           \/ Abort(k)
           \/ EnqueueJob(k)
           \/ EnqueueFails(k)
           \/ TerminateTerminal(k)
           \/ TerminateClaim(k)
           \/ InitiateDestroy(k)
           \/ ForceCancel(k)
           \/ MarkTerminating(k)
           \/ StartReset(k)
           \/ DeleteTeardown(k)
           \/ DropRow(k)
    PROVE  IInv'
  <1>0. /\ task[k] \in TaskRecord /\ task \in [Tasks -> TaskRecord]
        /\ task[k].node \in Nodes \cup {NoNode}
        /\ inv \in [Nodes -> NodeRecord]
        /\ task[k].pc \in OnDep => task[k].dep \in Deps
        /\ task[k].pc \in OnNode => task[k].node \in Nodes
        /\ Gpus(task[k].dep) \in {0, 1}
    BY DEF IInv, TypeOK, References, TaskRecord, Gpus
  <1>1. ASSUME NEW n \in Nodes, CreatePlaceholder(k, n)
        PROVE  IInv'
    <2>1. task[k].dep \in Deps /\ inv[n].state = "absent"
          /\ inv[n] \in NodeRecord
      BY ZenonT(40), <1>0, <1>1 DEF CreatePlaceholder, OnDep
    <2> DEFINE r == [inv[n] EXCEPT !.state = "provisioning",
                                   !.alloc = Gpus(task[k].dep)]
    <2>a. Gpus(task[k].dep) \in 0 .. GpuTotal /\ Gpus(task[k].dep) \in Nat
      BY <1>0, DeploymentConstants
    <2>2. r \in NodeRecord /\ r.alloc = Gpus(task[k].dep)
          /\ r.state = "provisioning"
      BY ZenonT(40), <2>1, <2>a DEF NodeRecord
    <2>3. inv' = [inv EXCEPT ![n] = r]
      BY ZenonT(40), <1>0, <1>1 DEF CreatePlaceholder
    <2> HIDE DEF r
    <2>4. ~Locked(n)
      BY <2>1 DEF IInv, RoomHeld, HasRoom, Usable, Locked
    <2>5. RowsMove
      BY ZenonT(40), <2>a, <2>2, <2>3, <2>4, RowChanges
    <2>6. Present(n)'
      BY <1>0, <2>2, <2>3 DEF Present
    <2>7. DepsMove
      BY <1>1, <2>1, <2>6, SetDepMoves DEF CreatePlaceholder, DepStates, Live
    <2> DEFINE t == [task[k] EXCEPT !.pc = "enqueue", !.node = n]
    <2>8. t \in TaskRecord /\ t.pc = "enqueue" /\ t.dep = task[k].dep
          /\ t.node = n
      BY ZenonT(40), <1>0 DEF TaskRecord
    <2>9. task' = [task EXCEPT ![k] = t]
      BY ZenonT(40), <1>0, <1>1 DEF CreatePlaceholder
    <2> HIDE DEF t
    <2>10. TaskMoves
      BY <1>0, <2>1, <2>8, <2>9 DEF TaskMoves
    <2> QED
      BY <1>1, <2>5, <2>7, <2>10, CountsStay, StepKeeps DEF CreatePlaceholder
  <1>2. CASE Abort(k)
    <2>1. DepsMove
      BY <1>0, <1>2, SetStateMoves DEF Abort, OnDep
    <2> QED
      BY <1>2, <2>1, FinishMoves, RowsStay, CountsStay, StepKeeps DEF Abort
  <1>3. CASE EnqueueJob(k)
    <2>1. RowsMove
      BY ZenonT(40), <1>0, <1>3, JobMoves DEF EnqueueJob, OnNode
    <2> QED
      BY ZenonT(40), <1>3, <2>1, FinishMoves, DepsStay, CountsStay, StepKeeps
         DEF EnqueueJob
  <1>4. CASE EnqueueFails(k)
    <2>1. RowsMove
      BY <1>0, <1>4, ReleaseMoves DEF EnqueueFails
    <2>2. DepsMove
      BY ZenonT(40),
         <1>0, <1>4, SetStateMoves DEF EnqueueFails, OnDep
    <2>3. CountsTyped
      BY <1>4, InjectTyped, CountsStay DEF EnqueueFails
    <2> QED
      BY <1>4, <2>1, <2>2, <2>3, FinishMoves, StepKeeps DEF EnqueueFails
  <1>5. CASE TerminateTerminal(k)
    <2>1. task[k].dep \in Deps
      BY ZenonT(40), <1>0, <1>5 DEF TerminateTerminal, OnDep
    <2>2. TaskMoves
      BY ZenonT(40),
         <1>5, <2>1, GotoMoves, FinishMoves DEF TerminateTerminal, PC, Present
    <2> QED
      BY <1>5, <2>2, RowsStay, DepsStay, CountsStay, StepKeeps
         DEF TerminateTerminal
  <1>6. CASE TerminateClaim(k)
    <2>1. task[k].dep \in Deps
      BY ZenonT(40), <1>0, <1>6 DEF TerminateClaim, OnDep
    <2>2. CASE dep[task[k].dep].state = task[k].saw
      <3>1. DepsMove
        BY ZenonT(40), <1>6, <2>1, <2>2, SetDepMoves
           DEF TerminateClaim, DepStates, Terminal
      <3>2. CASE /\ task[k].node \in Nodes
                 /\ Release(task[k].node, Gpus(task[k].dep))
                 /\ Goto(k, "destroy") \/ Finish(k)
        <4>1. RowsMove
          BY <1>0, <3>2, ReleaseMoves
        <4>2. TaskMoves
          BY ZenonT(40), <2>1, <3>2, GotoMoves, FinishMoves DEF PC
        <4> QED
          BY <1>6, <3>1, <4>1, <4>2, CountsStay, StepKeeps DEF TerminateClaim
      <3>3. CASE Finish(k) /\ UNCHANGED inv
        BY ZenonT(40),
           <1>6, <3>1, <3>3, FinishMoves, RowsStay, CountsStay, StepKeeps
           DEF TerminateClaim
      <3> QED
        BY ZenonT(40), <1>6, <2>2, <3>2, <3>3 DEF TerminateClaim
    <2>3. CASE dep[task[k].dep].state # task[k].saw
      BY ZenonT(40),
         <1>6, <2>3, FinishMoves, RowsStay, DepsStay, CountsStay, StepKeeps
         DEF TerminateClaim
    <2> QED
      BY ZenonT(40), <2>2, <2>3
  <1>7. CASE InitiateDestroy(k)
    <2>1. task[k].dep \in Deps /\ task[k].node \in Nodes
      BY ZenonT(40), <1>0, <1>7 DEF InitiateDestroy, OnDep, OnNode
    <2>2. RowsMove
      BY ZenonT(40), <1>7, SetFlagMoves DEF InitiateDestroy
    <2>3. TaskMoves
      BY ZenonT(40),
         <1>7, <2>1, GotoMoves DEF InitiateDestroy, PC
    <2> QED
      BY <1>7, <2>2, <2>3, DepsStay, CountsStay, StepKeeps DEF InitiateDestroy
  <1>8. CASE ForceCancel(k)
    <2>1. task[k].dep \in Deps /\ task[k].node \in Nodes
      BY ZenonT(40), <1>0, <1>8 DEF ForceCancel, OnDep, OnNode
    <2>2. TaskMoves
      BY <1>8, <2>1, GotoMoves, FinishMoves DEF ForceCancel, AfterDestroy, PC
    <2> QED
      BY ZenonT(40),
         <1>8, <2>1, <2>2, CancelMoves, DepsStay, CountsStay, StepKeeps
         DEF ForceCancel
  <1>9. CASE MarkTerminating(k)
    <2>1. RowsMove
      BY ZenonT(40), <1>9, SetFlagMoves DEF MarkTerminating
    <2> QED
      BY <1>9, <2>1, FinishMoves, DepsStay, CountsStay, StepKeeps
         DEF MarkTerminating
  <1>10. CASE StartReset(k)
    <2>1. task[k].dep \in Deps
      BY ZenonT(40),
         <1>0, <1>10 DEF StartReset, OnDep
    <2>2. TaskMoves
      BY <1>10, <2>1, GotoMoves DEF StartReset, PC, OnNode
    <2>3. DepsMove
      BY <1>10, <2>1, SetDepMoves DEF StartReset, DepStates
    <2> QED
      BY <1>10, <2>2, <2>3, RowsStay, CountsStay, StepKeeps DEF StartReset
  <1>11. CASE DeleteTeardown(k)
    <2>1. task[k].dep \in Deps
      BY ZenonT(40),
         <1>0, <1>11 DEF DeleteTeardown, OnDep
    <2>2. TaskMoves
      BY ZenonT(40),
         <1>11, <2>1, GotoMoves DEF DeleteTeardown, PC, OnNode, Present
    <2> QED
      BY <1>11, <2>2, RowsStay, DepsStay, CountsStay, StepKeeps
         DEF DeleteTeardown
  <1>12. CASE DropRow(k)
    <2>1. DepsMove
      BY ZenonT(40), <1>0, <1>12, SetDepMoves DEF DropRow, OnDep, DepStates
    <2> QED
      BY <1>12, <2>1, FinishMoves, RowsStay, CountsStay, StepKeeps DEF DropRow
  <1> QED
    BY <1>1, <1>2, <1>3, <1>4, <1>5, <1>6, <1>7, <1>8, <1>9, <1>10, <1>11,
       <1>12

\* The steps of the linker and of a load.
LEMMA LinkerKeeps ==
    ASSUME IInv, NEW k \in Tasks,
           \/ Link(k) \/ Drive(k) \/ ListOrphans(k)
           \/ LoadSucceeds(k) \/ LoadFails(k)
           \/ WarmLoadSucceeds(k) \/ WarmLoadFails(k)
    PROVE  IInv'
  <1>0. /\ task[k] \in TaskRecord /\ task \in [Tasks -> TaskRecord]
        /\ task[k].todo \subseteq Deps /\ task[k].driven \subseteq Deps
        /\ task[k].pc \in OnDep => task[k].dep \in Deps
        /\ task[k].pc \in OnNode => task[k].node \in Nodes
    BY DEF IInv, TypeOK, References, TaskRecord
  <1>1. CASE Link(k)
    <2>1. PICK n \in Nodes : n = task[k].node
      BY <1>0, <1>1 DEF Link, OnNode
    <2>2. CASE Present(n)
      <3>1. DepsMove
        <4>1. Present(n)' /\ dep \in [Deps -> DepRecord]
          BY <1>1, <2>1, <2>2 DEF Link, Present, IInv, TypeOK
        <4>2. ASSUME NEW d \in Waiting(n)
              PROVE  /\ dep'[d] = [state |-> "DEPLOYING", node |-> n]
                     /\ dep'[d] \in DepRecord
          BY <1>1, <2>1, <2>2, <4>1
             DEF Link, Waiting, DepRecord, Live
        <4>3. \A d \in Deps \ Waiting(n) : dep'[d] = dep[d]
          BY <1>1, <2>1, <2>2 DEF Link
        <4>4. dep' \in [Deps -> DepRecord]
          <5>1. DOMAIN dep' = Deps /\ dep' = [d \in Deps |-> dep'[d]]
            BY <1>1, <2>1, <2>2 DEF Link
          <5>2. \A d \in Deps : dep'[d] \in DepRecord
            BY <4>1, <4>2, <4>3
          <5> QED
            BY <5>1, <5>2
        <4> QED
          BY <2>1, <4>1, <4>2, <4>3, <4>4 DEF DepsMove
      <3> DEFINE t == [task[k] EXCEPT !.pc = "drive", !.saw = "fresh",
                                      !.todo = Waiting(n)]
      <3>2. Waiting(n) \subseteq Deps
        BY DEF Waiting
      <3>3. t \in TaskRecord /\ t.pc = "drive" /\ t.node = n
        BY ZenonT(40), <1>0, <2>1, <3>2 DEF TaskRecord
      <3>4. task' = [task EXCEPT ![k] = t]
        BY ZenonT(40), <1>0, <1>1, <2>1, <2>2 DEF Link
      <3> HIDE DEF t
      <3>5. TaskMoves
        BY <1>0, <2>1, <3>3, <3>4 DEF TaskMoves, OnDep
      <3> QED
        BY <1>1, <3>1, <3>5, RowsStay, CountsStay, StepKeeps DEF Link
    <2>3. CASE ~Present(n)
      BY <1>1, <2>1, <2>3, FinishMoves, RowsStay, DepsStay, CountsStay, StepKeeps
         DEF Link
    <2> QED
      BY <2>2, <2>3
  <1>2. CASE Drive(k)
    <2>1. PICK d \in task[k].todo :
                 task' = [task EXCEPT ![k].pc = "load", ![k].dep = d,
                                      ![k].todo = @ \ {d},
                                      ![k].driven = @ \cup {d}]
      BY ZenonT(40), <1>2 DEF Drive
    <2> DEFINE t == [task[k] EXCEPT !.pc = "load", !.dep = d,
                                    !.todo = @ \ {d}, !.driven = @ \cup {d}]
    <2>2. t \in TaskRecord /\ t.pc = "load" /\ t.dep \in Deps
          /\ t.node = task[k].node
      BY ZenonT(40), <1>0 DEF TaskRecord
    <2>3. task' = [task EXCEPT ![k] = t]
      BY ZenonT(40), <1>0, <2>1
    <2> HIDE DEF t
    <2>4. TaskMoves
      BY ZenonT(40), <1>0, <1>2, <2>2, <2>3 DEF Drive, TaskMoves, OnNode
    <2> QED
      BY ZenonT(40),
         <1>2, <2>4, RowsStay, DepsStay, CountsStay, StepKeeps DEF Drive
  <1>3. CASE ListOrphans(k)
    <2>1. TaskMoves
      <3>1. CASE Finish(k)
        BY <3>1, FinishMoves
      <3>2. CASE task' = [task EXCEPT ![k].saw = "orphan",
                                      ![k].todo = Orphans(k)]
        <4> DEFINE t == [task[k] EXCEPT !.saw = "orphan", !.todo = Orphans(k)]
        <4>1. Orphans(k) \subseteq Deps
          BY DEF Orphans
        <4>2. t \in TaskRecord /\ t.pc = task[k].pc /\ t.node = task[k].node
          BY ZenonT(40), <1>0, <4>1 DEF TaskRecord
        <4>3. task' = [task EXCEPT ![k] = t]
          BY ZenonT(40), <1>0, <3>2
        <4> HIDE DEF t
        <4> QED
          BY <1>0, <1>3, <4>2, <4>3 DEF ListOrphans, TaskMoves, OnDep, OnNode
      <3> QED
        BY <1>3, <3>1, <3>2 DEF ListOrphans
    <2> QED
      BY <1>3, <2>1, RowsStay, DepsStay, CountsStay, StepKeeps DEF ListOrphans
  <1>4. ASSUME AfterLoad(k), task[k].pc = "load"
        PROVE  TaskMoves
    <2> DEFINE t == [task[k] EXCEPT !.pc = "drive", !.dep = NoDep]
    <2>1. t \in TaskRecord /\ t.pc = "drive" /\ t.node = task[k].node
      BY ZenonT(40), <1>0 DEF TaskRecord
    <2>2. task' = [task EXCEPT ![k] = t]
      BY ZenonT(40), <1>0, <1>4 DEF AfterLoad
    <2> HIDE DEF t
    <2> QED
      BY <1>0, <1>4, <2>1, <2>2 DEF TaskMoves, OnDep, OnNode
  <1>5. CASE LoadSucceeds(k)
    <2>1. DepsMove
      BY <1>0, <1>5, SetStateMoves DEF LoadSucceeds, OnDep
    <2> QED
      BY <1>4, <1>5, <2>1, RowsStay, CountsStay, StepKeeps DEF LoadSucceeds
  <1>6. CASE LoadFails(k)
    <2>1. LoadCharge \in {0, 1}
      BY DEF LoadCharge
    <2>2. RowsMove
      BY ZenonT(40), <1>6, <2>1, ReleaseMoves DEF LoadFails
    <2>3. DepsMove
      BY ZenonT(40), <1>0, <1>6, SetStateMoves DEF LoadFails, OnDep
    <2>4. CountsTyped
      BY <1>6, InjectTyped, CountsStay DEF LoadFails
    <2> QED
      BY <1>4, <1>6, <2>2, <2>3, <2>4, StepKeeps DEF LoadFails
  <1>7. CASE WarmLoadSucceeds(k)
    <2>1. DepsMove
      BY <1>0, <1>7, SetStateMoves DEF WarmLoadSucceeds, OnDep
    <2> QED
      BY <1>7, <2>1, FinishMoves, RowsStay, CountsStay, StepKeeps
         DEF WarmLoadSucceeds
  <1>8. CASE WarmLoadFails(k)
    <2>1. Gpus(task[k].dep) \in {0, 1}
      BY DEF Gpus
    <2>2. RowsMove
      BY ZenonT(40), <1>8, <2>1, ReleaseMoves DEF WarmLoadFails
    <2>3. DepsMove
      BY ZenonT(40), <1>0, <1>8, SetStateMoves DEF WarmLoadFails, OnDep
    <2>4. CountsTyped
      BY <1>8, InjectTyped, CountsStay DEF WarmLoadFails
    <2> QED
      BY <1>8, <2>2, <2>3, <2>4, FinishMoves, StepKeeps DEF WarmLoadFails
  <1> QED
    BY <1>1, <1>2, <1>3, <1>5, <1>6, <1>7, <1>8

-----------------------------------------------------------------------------
\* The steps of agents and of the provisioning.
LEMMA NodeKeeps ==
    ASSUME IInv, NEW n \in Nodes,
           \/ \E k \in Tasks : OpenChannel(k, n)
           \/ Register(n) \/ Provision(n) \/ FailDeployments(n)
           \/ DropChannel(n)
    PROVE  IInv'
  <1>0. /\ inv[n] \in NodeRecord /\ inv \in [Nodes -> NodeRecord]
        /\ inv[n].alloc \in 0 .. GpuTotal
        /\ inv[n].state \in {"absent", "provisioning", "ready", "failed",
                             "terminated", "purged"}
    BY DEF IInv, TypeOK, GpuWithinCapacity, NodeRecord
  <1>1. ASSUME NEW k \in Tasks, OpenChannel(k, n)
        PROVE  IInv'
    <2> DEFINE st == IF inv[n].state = "provisioning" THEN "ready"
                                                      ELSE inv[n].state
               r == [inv[n] EXCEPT !.agent = "connected", !.state = st]
               t == [Free EXCEPT !.pc = "link", !.node = n]
    <2>1. /\ st \in {"absent", "provisioning", "ready", "failed",
                     "terminated", "purged"}
          /\ inv[n].state \notin {"absent", "purged"}
             => st \notin {"absent", "purged"}
      BY <1>0
    <2>2. inv' = [inv EXCEPT ![n] = r]
      BY ZenonT(40), <1>0, <1>1 DEF OpenChannel
    <2> HIDE DEF st
    <2>3. r \in NodeRecord /\ r.alloc = inv[n].alloc /\ r.state = st
      BY ZenonT(40), <1>0, <2>1 DEF NodeRecord
    <2>4. t \in TaskRecord /\ t.pc = "link" /\ t.node = n
      BY ZenonT(40) DEF Free, TaskRecord
    <2>5. Begin(k, t)
      BY <1>1 DEF OpenChannel
    <2> HIDE DEF r, t
    <2>6. TaskMoves
      BY <2>4, <2>5, BeginMoves DEF OnDep
    <2>7. RowsMove
      BY ZenonT(40),
         <1>0, <1>1, <2>1, <2>2, <2>3, RowChanges DEF OpenChannel, Present
    <2> QED
      BY <1>1, <2>6, <2>7, DepsStay, CountsStay, StepKeeps DEF OpenChannel
  <1>2. CASE Register(n)
    <2> DEFINE r == [inv[n] EXCEPT !.agent = "registered",
                                   !.terminating = FALSE]
    <2>1. r \in NodeRecord /\ r.alloc = inv[n].alloc
          /\ r.state = inv[n].state
      BY ZenonT(40), <1>0 DEF NodeRecord
    <2>2. inv' = [inv EXCEPT ![n] = r]
      BY ZenonT(40), <1>0, <1>2 DEF Register
    <2> HIDE DEF r
    <2>3. RowsMove
      BY ZenonT(40), <1>0, <1>2, <2>1, <2>2, RowChanges DEF Register, Present
    <2>4. TaskMoves
      BY <1>2 DEF Register, TaskMoves
    <2> QED
      BY <1>2, <2>3, <2>4, DepsStay, CountsStay, StepKeeps DEF Register
  <1>3. CASE BootstrapDone(n)
    <2>1. RowsMove /\ TaskMoves
      BY ZenonT(40), <1>3, JobMoves DEF BootstrapDone, TaskMoves
    <2> QED
      BY <1>3, <2>1, DepsStay, CountsStay, StepKeeps DEF BootstrapDone
  <1>4. CASE ProvisioningFails(n)
    <2> DEFINE r == [inv[n] EXCEPT !.job = "reporting", !.state = "failed"]
    <2>1. r \in NodeRecord /\ r.alloc = inv[n].alloc /\ r.state = "failed"
      BY ZenonT(40), <1>0 DEF NodeRecord
    <2>2. inv' = [inv EXCEPT ![n] = r]
      BY ZenonT(40), <1>0, <1>4 DEF ProvisioningFails
    <2> HIDE DEF r
    <2>3. RowsMove
      BY ZenonT(40), <1>0, <1>4, <2>1, <2>2, RowChanges DEF ProvisioningFails
    <2>4. TaskMoves
      BY <1>4 DEF ProvisioningFails, TaskMoves
    <2> QED
      BY <1>4, <2>3, <2>4, DepsStay, CountsStay, StepKeeps
         DEF ProvisioningFails
  <1>5. CASE FailDeployments(n)
    <2>1. RowsMove /\ TaskMoves
      BY ZenonT(40), <1>5, JobMoves DEF FailDeployments, TaskMoves
    <2>2. \A d \in Deps :
            \/ dep'[d] = dep[d]
            \/ dep'[d] = [dep[d] EXCEPT !.state = "FAILED"]
      BY <1>5 DEF FailDeployments
    <2>3. \A d \in Deps :
            /\ dep[d] \in DepRecord
            /\ [dep[d] EXCEPT !.state = "FAILED"] \in DepRecord
            /\ [dep[d] EXCEPT !.state = "FAILED"].node = dep[d].node
            /\ [dep[d] EXCEPT !.state = "FAILED"].state = "FAILED"
      BY DEF IInv, TypeOK, DepRecord, Terminal
    <2>4. dep' = [d \in Deps |-> dep'[d]]
      BY <1>5 DEF FailDeployments
    <2>5. DepsMove
      BY ZenonT(40), <2>2, <2>3, <2>4 DEF DepsMove
    <2> QED
      BY <1>5, <2>1, <2>5, CountsStay, StepKeeps DEF FailDeployments
  <1>6. CASE DropChannel(n)
    <2> DEFINE r == [inv[n] EXCEPT !.agent = "registered"]
    <2>1. r \in NodeRecord /\ r.alloc = inv[n].alloc
          /\ r.state = inv[n].state /\ r.terminating = inv[n].terminating
      BY <1>0 DEF NodeRecord
    <2>2. inv' = [inv EXCEPT ![n] = r]
      BY <1>0, <1>6 DEF DropChannel
    <2> HIDE DEF r
    <2>3. RowsMove
      BY ZenonT(40), <1>0, <2>1, <2>2, RowChanges DEF Present
    <2>4. TaskMoves
      BY <1>6 DEF DropChannel, TaskMoves
    <2> QED
      BY <1>6, <2>3, <2>4, DepsStay, InjectTyped, StepKeeps DEF DropChannel
  <1> QED
    BY <1>1, <1>2, <1>3, <1>4, <1>5, <1>6 DEF Provision

\* The purge takes a row away, which the lemmas above do not allow: it unbinds
\* every deployment first, and waits for the placer that has locked the row.
LEMMA PurgeKeeps ==
    ASSUME IInv, NEW n \in Nodes, PurgeNode(n)
    PROVE  IInv'
  <1>1. ~Locked(n) /\ UNCHANGED <<task, asked, injected>> /\ PurgeDeps(n)
    BY DEF PurgeNode
  <1> DEFINE r == [state |-> "purged", terminating |-> FALSE, alloc |-> 0,
                   job |-> "none", agent |-> "none"]
  <1>2. r \in NodeRecord /\ r.alloc = 0
    BY DEF NodeRecord
  <1>3. inv' = [inv EXCEPT ![n] = r]
    BY DEF PurgeNode
  <1> HIDE DEF r
  <1>4. /\ inv' \in [Nodes -> NodeRecord] /\ inv'[n].alloc = 0
        /\ \A m \in Nodes \ {n} : inv'[m] = inv[m]
    BY <1>2, <1>3 DEF IInv, TypeOK
  <1>5. ASSUME NEW d \in Deps
        PROVE  /\ dep'[d] \in DepRecord
               /\ dep[d].node # n => dep'[d] = dep[d]
               /\ dep[d].node = n => /\ dep'[d].node = NoNode
                                     /\ dep'[d].state \in Terminal
    <2>1. dep[d] \in DepRecord
      BY DEF IInv, TypeOK
    <2> QED
      BY <1>1, <2>1 DEF PurgeDeps, DepRecord, Terminal
  <1>6. dep' = [d \in Deps |-> dep'[d]]
    BY <1>1 DEF PurgeDeps
  <1>7. TypeOK' /\ References' /\ LockExclusive'
    BY <1>1, <1>4, <1>5, <1>6 DEF IInv, TypeOK, References, LockExclusive
  <1>8. GpuWithinCapacity'
    <2>1. 0 \in 0 .. GpuTotal
      BY DeploymentConstants
    <2> QED
      BY ZenonT(40), <1>4, <2>1 DEF IInv, GpuWithinCapacity
  <1>9. RoomHeld'
    <2>1. ASSUME NEW k \in Tasks, task[k].pc = "bind"
          PROVE  inv'[task[k].node] = inv[task[k].node]
      BY <1>1, <1>4, <2>1 DEF IInv, References, OnNode, Locked
    <2> QED
      BY <1>1, <2>1 DEF IInv, RoomHeld, HasRoom, Usable, Gpus
  <1>10. BindingSound'
    <2>1. ASSUME NEW d \in Deps, dep'[d].node # NoNode
          PROVE  Present(dep[d].node)'
      <3>1. dep'[d] = dep[d] /\ dep[d].node # n /\ Present(dep[d].node)
        BY <1>5, <2>1 DEF IInv, BindingSound
      <3> QED
        BY <1>4, <3>1 DEF Present
    <2>2. ASSUME NEW d \in Deps,
                 dep'[d].state \in {"PENDING_NODE", "DEPLOYING"}
          PROVE  dep'[d].node # NoNode
      BY <1>5, <2>2 DEF IInv, BindingSound, Terminal
    <2> QED
      BY <2>1, <2>2 DEF BindingSound
  <1> QED
    BY <1>7, <1>8, <1>9, <1>10 DEF IInv

\* What fails: a placement is rolled back, a cancellation raises, the control
\* plane dies and lets every lock go.
LEMMA FailureKeeps ==
    ASSUME IInv, Failure
    PROVE  IInv'
  <1>1. ASSUME NEW k \in Tasks, PlaceRaises(k)
        PROVE  IInv'
    <2>1. task[k] \in TaskRecord /\ task \in [Tasks -> TaskRecord]
          /\ task[k].dep \in Deps
      BY <1>1 DEF PlaceRaises, IInv, TypeOK, References, OnDep
    <2> DEFINE t == [task[k] EXCEPT !.pc = "abort", !.node = NoNode]
    <2>2. t \in TaskRecord /\ t.pc = "abort" /\ t.dep = task[k].dep
      BY ZenonT(40), <2>1 DEF TaskRecord
    <2>3. task' = [task EXCEPT ![k] = t]
      BY ZenonT(40), <1>1, <2>1 DEF PlaceRaises
    <2> HIDE DEF t
    <2>4. TaskMoves
      BY <2>1, <2>2, <2>3 DEF TaskMoves, OnNode
    <2> QED
      BY <1>1, <2>4, RowsStay, DepsStay, InjectTyped, StepKeeps
         DEF PlaceRaises
  <1>2. ASSUME NEW k \in Tasks, ForceCancelFails(k)
        PROVE  IInv'
    <2>1. task[k].dep \in Deps
      BY <1>2 DEF ForceCancelFails, IInv, References, OnDep
    <2>2. RowsMove
      BY ZenonT(40), <1>2, SetFlagMoves DEF ForceCancelFails
    <2>3. TaskMoves
      BY <1>2, <2>1, GotoMoves, FinishMoves
         DEF ForceCancelFails, AfterDestroy, PC, OnNode
    <2> QED
      BY <1>2, <2>2, <2>3, DepsStay, InjectTyped, StepKeeps
         DEF ForceCancelFails
  <1>3. CASE Crash
    <2>1. /\ task' \in [Tasks -> TaskRecord]
          /\ \A k \in Tasks : task'[k].pc = "idle"
      BY ZenonT(40), <1>3, FreeTyped DEF Crash
    <2>2. References' /\ LockExclusive' /\ RoomHeld'
      BY ZenonT(40), <2>1 DEF References, LockExclusive, RoomHeld, OnDep, OnNode
    <2>3. ASSUME NEW n \in Nodes
          PROVE  /\ inv'[n] \in NodeRecord
                 /\ inv'[n].alloc = inv[n].alloc
                 /\ inv'[n].state = inv[n].state
      <3>1. inv[n] \in NodeRecord
        BY ZenonT(40) DEF IInv, TypeOK
      <3> QED
        BY ZenonT(40), <1>3, <3>1 DEF Crash, NodeRecord
    <2>4. inv' = [n \in Nodes |-> inv'[n]]
      BY ZenonT(40), <1>3 DEF Crash
    <2>5. UNCHANGED dep /\ CountsTyped
      BY ZenonT(40), <1>3, InjectTyped DEF Crash
    <2>6. TypeOK'
      BY <2>1, <2>3, <2>4, <2>5 DEF IInv, TypeOK, CountsTyped
    <2>7. GpuWithinCapacity'
      BY <2>3 DEF IInv, GpuWithinCapacity
    <2>8. BindingSound'
      BY <2>3, <2>5 DEF IInv, BindingSound, Present
    <2> QED
      BY ZenonT(40), <2>2, <2>6, <2>7, <2>8 DEF IInv
  <1> QED
    BY <1>1, <1>2, <1>3, NodeKeeps DEF Failure

\* The invariant holds at the start.
LEMMA InitIInv == Init => IInv
  <1> SUFFICES ASSUME Init PROVE IInv
    OBVIOUS
  <1>1. \A k \in Tasks : task[k] = Free
    BY DEF Init
  <1>2. References /\ LockExclusive /\ RoomHeld
    BY <1>1, FreeTyped DEF References, LockExclusive, RoomHeld, OnDep, OnNode
  <1>3. dep \in [Deps -> DepRecord] /\ inv \in [Nodes -> NodeRecord]
    BY DEF Init, DepRecord, NodeRecord
  <1>4. TypeOK
    BY <1>3, FreeTyped, DeploymentConstants DEF Init, TypeOK
  <1>5. GpuWithinCapacity
    BY DeploymentConstants DEF Init, GpuWithinCapacity
  <1>6. BindingSound
    BY DEF Init, BindingSound
  <1> QED
    BY <1>2, <1>4, <1>5, <1>6 DEF IInv

\* Every step keeps the invariant.
LEMMA NextIInv == IInv /\ [Next]_vars => IInv'
  <1> SUFFICES ASSUME IInv, [Next]_vars PROVE IInv'
    OBVIOUS
  <1>1. ASSUME NEW k \in Tasks, Proceed(k)
        PROVE  IInv'
    BY <1>1, DecideKeeps, BindKeeps, ApiKeeps, LinkerKeeps DEF Proceed
  <1>2. CASE UNCHANGED vars
    <2>1. TaskMoves
      BY <1>2 DEF vars, TaskMoves
    <2> QED
      BY <1>2, <2>1, RowsStay, DepsStay, CountsStay, StepKeeps DEF vars
  <1> QED
    BY <1>1, <1>2, RequestKeeps, NodeKeeps, PurgeKeeps, FailureKeeps DEF Next

\* The conjunction that is inductive: the three invariants of placement need
\* each other, and the two facts about tasks.
THEOREM DeploymentInvariant == Spec => []IInv
  BY InitIInv, NextIInv, PTL DEF Spec

-----------------------------------------------------------------------------
\* Types hold whatever deployments, nodes, requests and failures there are.
THEOREM DeploymentTypes == Spec => []TypeOK
  <1>1. IInv => TypeOK
    BY DEF IInv
  <1> QED
    BY <1>1, DeploymentInvariant, PTL

\* release_gpu's guard and the placer's row lock keep gpu_allocated between 0
\* and gpu_total on every node, although failed loads and terminations may
\* release the same GPU twice.
THEOREM NeverOvercommitted == Spec => []GpuWithinCapacity
  <1>1. IInv => GpuWithinCapacity
    BY DEF IInv
  <1> QED
    BY <1>1, DeploymentInvariant, PTL

\* The row that PoolPlacer has selected FOR UPDATE SKIP LOCKED has room until
\* the placement commits: allocate_gpu never fails after the selection.
THEOREM SelectedRoomHeld == Spec => []RoomHeld
  <1>1. IInv => RoomHeld
    BY DEF IInv
  <1> QED
    BY <1>1, DeploymentInvariant, PTL

\* purge_node leaves no deployment pointing at the row it deletes, and no step
\* makes a deployment wait or load without a node.
THEOREM BindingsSound == Spec => []BindingSound
  <1>1. IInv => BindingSound
    BY DEF IInv
  <1> QED
    BY <1>1, DeploymentInvariant, PTL
=============================================================================
