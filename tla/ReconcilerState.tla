-------------------------- MODULE ReconcilerState ---------------------------
(***************************************************************************)
(* The state of the provisioning state machine and the database statements *)
(* that several of its parts share: the job queue (provisioning_jobs), the *)
(* inventory rows, the reconciler coroutines, the Pulumi threads, the AWS  *)
(* instances, the advisory lock, the reaper and the API requests in flight. *)
(*                                                                         *)
(* Time is abstract: a lease, a backoff or a grace period is either running *)
(* or has elapsed.                                                         *)
(***************************************************************************)
EXTENDS Integers, FiniteSets

CONSTANTS
    Nodes,        \* node ids, one placeholder row and at most one job each
    Procs,        \* inferia-app processes; a process keeps its lease_holder
    Coros,        \* reconciler coroutines of a process (WorkerPool)
    Threads,      \* executor threads that can hold a Pulumi operation
    NoProc, NoNode, NoWorker,
    MaxAttempts,  \* TRANSIENT_MAX_ATTEMPTS
    MaxAsked,     \* bound: how many teardowns and retries users request
    MaxFaults,    \* bound: how many failures are injected
    MaxPending,   \* bound: API requests of a node between their two commits
    Faults        \* which failures the environment may inject

\* "crash": a process or an API request dies.  "stop": a process shuts down.
\* "lock": the connection holding the advisory lock drops.  "db": a database
\* call raises.  "aws": an AWS or Pulumi call fails.  "rejoin": an agent
\* registers again.  "stall": the event loop is blocked past a lease.
FaultKinds == {"crash", "stop", "lock", "db", "aws", "rejoin", "stall"}

Worker == Procs \X Coros

ASSUME ConstantsAssumption ==
    /\ MaxAttempts \in Nat \ {0}
    /\ MaxPending \in Nat
    /\ MaxFaults \in Nat
    /\ MaxAsked \in Nat
    /\ Faults \subseteq FaultKinds
    /\ NoProc \notin Procs
    /\ NoNode \notin Nodes
    /\ NoWorker \notin Worker
    /\ {"free", "stale"} \cap Threads = {}

VARIABLES
    job,      \* provisioning_jobs, by node
    row,      \* compute_inventory, by node
    waiting,  \* is a PENDING_NODE deployment bound to the node?
    worker,   \* the coroutines of the reconcilers
    op,       \* the Pulumi operations running in threads
    ec2,      \* the node's instances: in the Pulumi state, and outside it
    lock,     \* the Pulumi file lock of the node's stack
    leader,   \* the session holding the advisory lock
    active,   \* the processes whose reconciler loop and reaper run
    reaper,   \* the TerminationReaper of each process
    api,      \* API requests between their two commits
    asked,    \* how many teardowns and retries users have requested
    faults,   \* how many failures have been injected
    cause     \* history: what has put the node's instances at risk of leaking

vars == <<job, row, waiting, worker, op, ec2, lock, leader, active, reaper,
          api, asked, faults, cause>>

L == INSTANCE JobLifecycle WITH phase <- [n \in Nodes |-> job[n].phase]

Phase == L!Phase
ActivePhase == L!ActivePhase
NextPhase(ph) == L!NextPhase(ph)

Proc(w) == w[1]

Results == {"ok", "transient", "permanent"}

Idle == [pc |-> "idle", node |-> NoNode, phase |-> "none", attempt |-> 0,
         renewing |-> FALSE, result |-> "none"]

At(pc, n) == [Idle EXCEPT !.pc = pc, !.node = n]

NoOp == [kind |-> "none", node |-> NoNode, step |-> "idle", saw |-> FALSE,
         owner |-> NoWorker, proc |-> NoProc]

NoReap == [pc |-> "idle", node |-> NoNode]

JobRecord == [phase : Phase, attempt : 0 .. MaxAttempts - 1,
              holder : Procs \cup {NoProc}, expired : BOOLEAN,
              backoff : BOOLEAN]

RowRecord == [state : {"absent", "provisioning", "ready", "failed",
                       "terminated", "purged"},
              terminating : {"no", "bare", "stamped"}, agent : BOOLEAN]

WorkerRecord ==
    [pc : {"idle", "claimed", "running", "finished", "mirror_ready",
           "mirror_failed", "fail_deps", "sweep", "purge"},
     node : Nodes \cup {NoNode}, phase : ActivePhase \cup {"none"},
     attempt : 0 .. MaxAttempts - 1, renewing : BOOLEAN,
     result : Results \cup {"none"}]

OpRecord ==
    [kind : {"none", "up", "destroy"}, node : Nodes \cup {NoNode},
     step : {"idle", "start", "retry", "locked", "launched", "gone"},
     saw : BOOLEAN, owner : Worker \cup {NoWorker},
     proc : Procs \cup {NoProc}]

Ec2Record == [tracked : BOOLEAN, stray : BOOLEAN]

ReaperRecord == [pc : {"idle", "rearm", "sweep", "purge"},
                 node : Nodes \cup {NoNode}]

\* What an API request has still to do.
Pending == {"enqueue", "flag", "cancel", "mirror", "soft", "destroy"}

Causes == {"late_up", "sweep_failed", "live_job", "unswept"}

\* Every variable keeps its type; in particular attempt_count stays below
\* TRANSIENT_MAX_ATTEMPTS, because the attempt that reaches it fails the job.
TypeOK ==
    /\ job \in [Nodes -> JobRecord]
    /\ row \in [Nodes -> RowRecord]
    /\ waiting \in [Nodes -> BOOLEAN]
    /\ worker \in [Worker -> WorkerRecord]
    /\ op \in [Threads -> OpRecord]
    /\ ec2 \in [Nodes -> Ec2Record]
    /\ lock \in [Nodes -> Threads \cup {"free", "stale"}]
    /\ leader \in Procs \cup {NoProc}
    /\ active \subseteq Procs
    /\ reaper \in [Procs -> ReaperRecord]
    /\ api \in [Nodes -> SUBSET Pending]
    /\ asked \in 0 .. MaxAsked
    /\ faults \in 0 .. MaxFaults
    /\ cause \in [Nodes -> SUBSET Causes]

Init ==
    /\ job = [n \in Nodes |-> [phase |-> "none", attempt |-> 0,
                               holder |-> NoProc, expired |-> FALSE,
                               backoff |-> FALSE]]
    /\ row = [n \in Nodes |-> [state |-> "absent", terminating |-> "no",
                               agent |-> FALSE]]
    /\ waiting = [n \in Nodes |-> FALSE]
    /\ worker = [w \in Worker |-> Idle]
    /\ op = [t \in Threads |-> NoOp]
    /\ ec2 = [n \in Nodes |-> [tracked |-> FALSE, stray |-> FALSE]]
    /\ lock = [n \in Nodes |-> "free"]
    /\ leader = NoProc
    /\ active = {}
    /\ reaper = [p \in Procs |-> NoReap]
    /\ api = [n \in Nodes |-> {}]
    /\ asked = 0
    /\ faults = 0
    /\ cause = [n \in Nodes |-> {}]

-----------------------------------------------------------------------------
\* A user asks for a teardown or a retry.
Ask ==
    /\ asked < MaxAsked
    /\ asked' = asked + 1

\* The environment injects a failure.
Inject(f) ==
    /\ f \in Faults
    /\ faults < MaxFaults
    /\ faults' = faults + 1

-----------------------------------------------------------------------------
\* The job moves to ph with its lease and its backoff cleared, as every
\* statement that changes the phase does; attempt_count is kept.
MoveTo(n, ph) ==
    job' = [job EXCEPT ![n] = [@ EXCEPT !.phase = ph, !.holder = NoProc,
                                        !.expired = FALSE, !.backoff = FALSE]]

\* Mutant of ForceCancel: the WHERE clause on the phase is gone.
ForceCancelAnyPhase(n) == MoveTo(n, "cancelling")

\* force_cancel: any job but a cancelling or terminated one.
ForceCancel(n) ==
    IF job[n].phase \in L!Cancellable THEN MoveTo(n, "cancelling")
                                      ELSE UNCHANGED job

Present(n) == row[n].state \notin {"absent", "purged"}

SetState(n, s) ==
    row' = IF Present(n) THEN [row EXCEPT ![n].state = s] ELSE row

SetFlag(n, f) ==
    row' = IF Present(n) THEN [row EXCEPT ![n].terminating = f] ELSE row

\* An instance of the node runs that nothing has terminated yet.
Launched(n) == \E t \in Threads : op[t].node = n /\ op[t].step = "launched"

Live(n) == ec2[n].tracked \/ ec2[n].stray \/ Launched(n)

Blame(n, c, condition) ==
    cause' = [cause EXCEPT ![n] = IF condition THEN @ \cup {c} ELSE @]

\* purge_node: one transaction deletes the row, the job and the residue, and
\* fails and unbinds the deployments.
PurgeNode(n) ==
    /\ row' = [row EXCEPT ![n] = [state |-> "purged", terminating |-> "no",
                                  agent |-> FALSE]]
    /\ job' = [job EXCEPT ![n] = [phase |-> "purged", attempt |-> 0,
                                  holder |-> NoProc, expired |-> FALSE,
                                  backoff |-> FALSE]]
    /\ waiting' = [waiting EXCEPT ![n] = FALSE]

\* sweep_node_instances terminates every instance tagged with the node id,
\* one a thread has launched and not yet recorded included.
SweepNode(n) ==
    /\ ec2' = [ec2 EXCEPT ![n] = [tracked |-> FALSE, stray |-> FALSE]]
    /\ op' = [t \in Threads |->
                IF op[t].node = n /\ op[t].step = "launched"
                THEN [op[t] EXCEPT !.step = "gone"] ELSE op[t]]
    /\ UNCHANGED faults

\* The sweep raises, or has no credentials and returns nothing.
SweepFails(n) ==
    /\ Inject("aws")
    /\ UNCHANGED <<ec2, op>>
=============================================================================
