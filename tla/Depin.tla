-------------------------------- MODULE Depin --------------------------------
(***************************************************************************)
(* A deployment on a direct-adapter provider (Nosana, Akash, k8s): the     *)
(* background coroutine that provisions its node                           *)
(* (model_deployment/direct_provision.py), the terminate, start and delete *)
(* routes that meet it (deployment_server.py), the liveness worker that    *)
(* recovers what a restart or a dead job leaves behind                     *)
(* (workers/depin_liveness_worker.py) and the provider's heartbeats        *)
(* (scheduling/inventory_http.py).                                         *)
(*                                                                         *)
(* One deployment is followed through several starts.  Each start has its  *)
(* own placeholder node, coroutine and provider job, numbered alike.  The  *)
(* age thresholds of the liveness worker are left open: a sweep may find a *)
(* deployment too old at any time.                                         *)
(***************************************************************************)
EXTENDS Naturals

CONSTANTS
    Starts,     \* how often the deployment is started
    MaxCrashes  \* bound on control-plane restarts

VARIABLES
    adapter,    \* the provider's adapter
    st,         \* state of the deployment row, "GONE" when deleted
    target,     \* target_node_id: the start whose node it is, 0 when NULL
    starts,     \* starts so far
    node,       \* per start, the inventory row: state, real provider id
    job,        \* per start, the provider's job
    co,         \* per start, where its coroutine is
    tm,         \* the terminate or delete request being served
    lw,         \* the liveness worker
    hb,         \* a heartbeat being applied to the deployment
    excused,    \* starts whose job may outlive its record, with a reason
    crashes

vars == <<adapter, st, target, starts, node, job, co, tm, lw, hb, excused, crashes>>

Gens == 1..Starts
Adapters == {"nosana", "akash", "k8s"}
Ended == {"FAILED", "TERMINATED", "STOPPED"}
Waiting == {"PENDING_NODE", "DEPLOYING"}
States == Ended \union Waiting \union {"none", "RUNNING", "GONE"}
Alive == {"up", "serving"}
Idle == [at |-> "off", of |-> 0, seen |-> "none"]
Steps == {"off", "claim", "look", "mark", "drop", "status", "fail", "failstop", "stop"}

TypeOK ==
    /\ adapter \in Adapters
    /\ st \in States
    /\ target \in 0..Starts /\ starts \in 0..Starts
    /\ node \in [Gens -> [st : {"none", "provisioning", "ready", "terminated"}, pii : BOOLEAN]]
    /\ job \in [Gens -> {"none", "up", "serving", "ended", "unknown"}]
    /\ co \in [Gens -> {"off", "begin", "provision", "wait", "finalize", "gate",
                        "probe", "failed", "release", "stop"}]
    /\ tm \in [at : Steps, of : 0..Starts, seen : States \union {"delete"}]
    /\ lw \in [at : Steps, of : 0..Starts, seen : States \union {"delete"}]
    /\ hb \in BOOLEAN
    /\ excused \subseteq Gens
    /\ crashes \in 0..MaxCrashes

Init ==
    /\ adapter \in Adapters
    /\ st = "none" /\ target = 0 /\ starts = 0
    /\ node = [g \in Gens |-> [st |-> "none", pii |-> FALSE]]
    /\ job = [g \in Gens |-> "none"]
    /\ co = [g \in Gens |-> "off"]
    /\ tm = Idle /\ lw = Idle /\ hb = FALSE
    /\ excused = {}
    /\ crashes = 0

-----------------------------------------------------------------------------
(* update_state, unguarded: no effect on a deleted row. *)
Write(s) == IF st = "GONE" THEN "GONE" ELSE s
Go(g, to) == co' = [co EXCEPT ![g] = to]
Excuse(G) == excused' = excused \union (G \intersect Gens)

(* A coroutine writes the state unguarded: what it overwrites, when it is  *)
(* not its own run's state, is remembered.                                 *)
Overwrite(g, s) ==
    /\ st' = Write(s)
    /\ IF target # g \/ (s = "RUNNING" /\ st # "PENDING_NODE")
       THEN Excuse({g, target}) ELSE UNCHANGED excused

(* A compare-and-set on the state alone also succeeds when the deployment  *)
(* was started again since the state was read.                             *)
ExcuseIfStale(g) == IF target # g THEN Excuse({g, target}) ELSE UNCHANGED excused

(* deprovision_node: the job stops, or the call fails and is only logged. *)
StopJob(g) ==
    \/ job' = [job EXCEPT ![g] = IF @ \in Alive THEN "ended" ELSE @] /\ UNCHANGED excused
    \/ job[g] \in Alive /\ Excuse({g}) /\ UNCHANGED job

(* deploy, or start of an ended deployment: stale binding cleared, a new   *)
(* placeholder bound, the coroutine scheduled.                             *)
Start(g) ==
    /\ g = starts + 1 /\ st \in Ended \union {"none"}
    /\ st' = "PENDING_NODE" /\ target' = g /\ starts' = g
    /\ node' = [node EXCEPT ![g] = [st |-> "provisioning", pii |-> FALSE]]
    /\ Go(g, "begin")
    /\ UNCHANGED <<adapter, job, tm, lw, hb, excused, crashes>>

-----------------------------------------------------------------------------
(* provision_direct_node. *)
CoRest == <<adapter, target, starts, tm, lw, hb, crashes>>

(* Unknown adapter or a pool without GPU types: FAILED; a deployment that  *)
(* left PENDING_NODE: nothing was created yet.                             *)
Begin(g) ==
    /\ co[g] = "begin"
    /\ \/ st = "PENDING_NODE" /\ Go(g, "provision") /\ UNCHANGED <<st, excused>>
       \/ st # "PENDING_NODE" /\ Go(g, "off") /\ UNCHANGED <<st, excused>>
       \/ Overwrite(g, "FAILED") /\ Go(g, "off")
    /\ UNCHANGED <<node, job>> /\ UNCHANGED CoRest

(* provision_node comes to one of three ends: the job and its id; no job;  *)
(* or a job whose id never arrives, since the call timed out or failed     *)
(* after the provider had made it.                                         *)
Launched(g) ==
    job' = [job EXCEPT ![g] = "up"] /\ Go(g, "wait") /\ UNCHANGED excused
NotLaunched(g) ==
    Go(g, "failed") /\ UNCHANGED <<job, excused>>
AnswerLost(g) ==
    job' = [job EXCEPT ![g] = "unknown"] /\ Go(g, "failed") /\ Excuse({g})

(* Nosana: a definition that cannot be built (no metadata, a training job  *)
(* or a job without a model lacking its image) is refused before anything  *)
(* is sent.                                                                *)
NosanaDefinitionRefused(g) == NotLaunched(g)

(* The launch may be refused by the sidecar too, and takes a minute at the *)
(* most.                                                                   *)
NosanaProvisionNode(g) ==
    adapter = "nosana" /\ (NosanaDefinitionRefused(g) \/ Launched(g) \/ AnswerLost(g))

(* Akash: the description of the workload is always built; the sidecar's   *)
(* error may come after it created the deployment.                         *)
AkashProvisionNode(g) ==
    adapter = "akash" /\ (NotLaunched(g) \/ Launched(g) \/ AnswerLost(g))

(* Kubernetes: the pod's name is known, and lost with the exception.       *)
K8sProvisionNode(g) ==
    adapter = "k8s" /\ (NotLaunched(g) \/ Launched(g) \/ AnswerLost(g))

(* The simulation mode that provision_direct_node looks for is one that no *)
(* adapter has.                                                            *)
Provision(g) ==
    /\ co[g] = "provision"
    /\ NosanaProvisionNode(g) \/ AkashProvisionNode(g) \/ K8sProvisionNode(g)
    /\ UNCHANGED <<st, node>> /\ UNCHANGED CoRest

(* wait_for_ready returns once the job runs.  Otherwise it raises when the *)
(* wait timed out; only Nosana's raises when the job ended, the others     *)
(* catch that error themselves and poll on.                                *)
NosanaReady(g) == adapter = "nosana" /\ job[g] \in Alive
AkashReady(g) == adapter = "akash" /\ job[g] \in Alive
K8sReady(g) == adapter = "k8s" /\ job[g] \in Alive
Ready(g) == NosanaReady(g) \/ AkashReady(g) \/ K8sReady(g)

(* After the wait the cancellation guard re-reads the state. *)
Guard(g) ==
    /\ co[g] = "wait"
    /\ \/ Ready(g) /\ st = "PENDING_NODE" /\ Go(g, "finalize") /\ UNCHANGED <<job, excused>>
       \/ Ready(g) /\ st # "PENDING_NODE" /\ StopJob(g) /\ Go(g, "off")
       \/ Go(g, "failed") /\ UNCHANGED <<job, excused>>
    /\ UNCHANGED <<st, node>> /\ UNCHANGED CoRest

(* finalize_direct_node: only a row still provisioning takes the job. *)
FinalizeDirectNode(g) ==
    /\ node[g].st = "provisioning"
    /\ node' = [node EXCEPT ![g] = [st |-> "ready", pii |-> TRUE]]

Finalize(g) ==
    /\ co[g] = "finalize"
    /\ \/ FinalizeDirectNode(g) /\ Go(g, "gate") /\ UNCHANGED <<job, excused>>
       \/ node[g].st # "provisioning" /\ StopJob(g) /\ Go(g, "off") /\ UNCHANGED node
    /\ UNCHANGED st /\ UNCHANGED CoRest

(* The readiness gate: RUNNING at once and unguarded for an endpoint that  *)
(* cannot be probed, DEPLOYING by compare-and-set for one that can, an     *)
(* error when no usable URL came back.                                     *)
Probeable == adapter = "nosana"

Gate(g) ==
    /\ co[g] = "gate"
    /\ \/ ~Probeable /\ Overwrite(g, "RUNNING") /\ Go(g, "off") /\ UNCHANGED job
       \/ /\ Probeable /\ st = "PENDING_NODE"
          /\ st' = "DEPLOYING" /\ Go(g, "probe") /\ ExcuseIfStale(g) /\ UNCHANGED job
       \/ /\ Probeable /\ st # "PENDING_NODE"
          /\ StopJob(g) /\ Go(g, "off") /\ UNCHANGED st
       \/ Probeable /\ Go(g, "failed") /\ UNCHANGED <<st, job, excused>>
    /\ UNCHANGED node /\ UNCHANGED CoRest

(* _wait_endpoint_serving: what the polling may come to now. *)
EndpointVerdicts(g) ==
    IF st # "DEPLOYING" THEN {"cancelled"}
    ELSE {"timeout"} \union (IF job[g] = "ended" THEN {"crashed"} ELSE {})
                     \union (IF job[g] = "serving" THEN {"ready"} ELSE {})

(* Serving is RUNNING by compare-and-set; crashed and timed out raise. *)
Probe(g) ==
    /\ co[g] = "probe"
    /\ \/ /\ "cancelled" \in EndpointVerdicts(g)
          /\ StopJob(g) /\ Go(g, "off") /\ UNCHANGED st
       \/ /\ "ready" \in EndpointVerdicts(g)
          /\ st' = "RUNNING" /\ Go(g, "off") /\ ExcuseIfStale(g) /\ UNCHANGED job
       \/ /\ EndpointVerdicts(g) \intersect {"crashed", "timeout"} # {}
          /\ Go(g, "failed") /\ UNCHANGED <<st, job, excused>>
    /\ UNCHANGED node /\ UNCHANGED CoRest

(* The except branch: FAILED unguarded, GPU released and node terminated,  *)
(* the job stopped.                                                        *)
Failed(g) ==
    /\ co[g] = "failed"
    /\ Overwrite(g, "FAILED") /\ Go(g, "release")
    /\ UNCHANGED <<node, job>> /\ UNCHANGED CoRest

ReleaseNode(g) ==
    /\ co[g] = "release"
    /\ node' = [node EXCEPT ![g].st = "terminated"] /\ Go(g, "stop")
    /\ UNCHANGED <<st, job, excused>> /\ UNCHANGED CoRest

(* A mutant: the job of a failed provisioning is not stopped. *)
StopAfterFailureForgets(g) ==
    /\ co[g] = "stop"
    /\ Go(g, "off")
    /\ UNCHANGED <<st, node, job, excused>> /\ UNCHANGED CoRest

StopAfterFailure(g) ==
    /\ co[g] = "stop"
    /\ StopJob(g) /\ Go(g, "off")
    /\ UNCHANGED <<st, node>> /\ UNCHANGED CoRest

Coroutine(g) ==
    \/ Begin(g) \/ Provision(g) \/ Guard(g) \/ Finalize(g) \/ Gate(g)
    \/ Probe(g) \/ Failed(g) \/ ReleaseNode(g) \/ StopAfterFailure(g)

-----------------------------------------------------------------------------
(* terminate_deployment_core, and delete of an ended deployment. *)
TmRest == <<adapter, starts, co, lw, hb, crashes>>

(* The state and the bound node are read; an ended deployment goes on to   *)
(* the node it may still own.                                              *)
Terminate ==
    /\ tm.at = "off" /\ st \notin {"none", "GONE"}
    /\ st \in Ended => target # 0
    /\ tm' = [at |-> IF st \in Ended THEN "look" ELSE "claim", of |-> target, seen |-> st]
    /\ UNCHANGED <<st, target, node, job, excused>> /\ UNCHANGED TmRest

Delete ==
    /\ tm.at = "off" /\ st \in Ended
    /\ tm' = [at |-> IF target = 0 THEN "drop" ELSE "look", of |-> target, seen |-> "delete"]
    /\ UNCHANGED <<st, target, node, job, excused>> /\ UNCHANGED TmRest

(* A mutant: the loser of the compare-and-set unbinds too. *)
ClaimUnbinds ==
    /\ tm.at = "claim"
    /\ target' = 0
    /\ IF st = tm.seen
       THEN /\ st' = "TERMINATED"
            /\ tm' = IF tm.of = 0 THEN Idle ELSE [tm EXCEPT !.at = "look"]
            /\ ExcuseIfStale(tm.of)
       ELSE tm' = Idle /\ UNCHANGED <<st, excused>>
    /\ UNCHANGED <<node, job>> /\ UNCHANGED TmRest

(* The guarded TERMINATED; only the winner unbinds and releases, and the   *)
(* last reference leads to the node's destruction.                         *)
Claim ==
    /\ tm.at = "claim"
    /\ IF st = tm.seen
       THEN /\ st' = "TERMINATED" /\ target' = 0
            /\ tm' = IF tm.of = 0 THEN Idle ELSE [tm EXCEPT !.at = "look"]
            /\ ExcuseIfStale(tm.of)
       ELSE tm' = Idle /\ UNCHANGED <<st, target, excused>>
    /\ UNCHANGED <<node, job>> /\ UNCHANGED TmRest

(* _initiate_node_destroy: read the node, stop the job it records if any,  *)
(* mark the node terminated.                                               *)
LookAtNode ==
    /\ tm.at = "look"
    /\ IF node[tm.of].pii THEN StopJob(tm.of) ELSE UNCHANGED <<job, excused>>
    /\ tm' = [tm EXCEPT !.at = "mark"]
    /\ UNCHANGED <<st, target, node>> /\ UNCHANGED TmRest

MarkNode ==
    /\ tm.at = "mark"
    /\ node' = [node EXCEPT ![tm.of].st = "terminated"]
    /\ tm' = IF tm.seen = "delete" THEN [tm EXCEPT !.at = "drop"] ELSE Idle
    /\ UNCHANGED <<st, target, job, excused>> /\ UNCHANGED TmRest

(* The row is dropped, whatever happened to it since it was read. *)
DropRow ==
    /\ tm.at = "drop"
    /\ IF st \in Ended THEN UNCHANGED excused ELSE Excuse({target})
    /\ st' = "GONE" /\ target' = 0
    /\ tm' = Idle
    /\ UNCHANGED <<node, job>> /\ UNCHANGED TmRest

Request == Claim \/ LookAtNode \/ MarkNode \/ DropRow

-----------------------------------------------------------------------------
(* The liveness worker. *)
LwRest == <<adapter, target, starts, co, tm, hb, crashes>>

(* Mutants: the sweep passes over one of the lists. *)
SweepRunning ==
    /\ lw.at = "off" /\ target # 0 /\ st \in {"RUNNING", "DEPLOYING"}
    /\ lw' = [at |-> "status", of |-> target, seen |-> st]
    /\ UNCHANGED <<st, node, job, excused>> /\ UNCHANGED LwRest

(* A mutant: running deployments are not swept. *)
SweepWaiting ==
    /\ lw.at = "off" /\ target # 0 /\ st \in {"DEPLOYING", "PENDING_NODE"}
    /\ lw' = [at |-> IF st = "DEPLOYING" THEN "status"
                     ELSE IF node[target].pii THEN "failstop" ELSE "fail",
              of |-> target, seen |-> st]
    /\ UNCHANGED <<st, node, job, excused>> /\ UNCHANGED LwRest

(* A sweep lists the deployments of one state and resolves the bound node; *)
(* whether it has a job to stop is decided on what is read here.           *)
Sweep ==
    /\ lw.at = "off" /\ target # 0
    /\ \/ st \in {"RUNNING", "DEPLOYING"} /\ lw' = [at |-> "status", of |-> target, seen |-> st]
       \/ /\ st = "PENDING_NODE"
          /\ lw' = [at |-> IF node[target].pii THEN "failstop" ELSE "fail", of |-> target, seen |-> st]
    /\ UNCHANGED <<st, node, job, excused>> /\ UNCHANGED LwRest

(* get_node_status: only Nosana's adapter answers, the others know        *)
(* nothing; a failed call is not an answer either.                         *)
KnownEnded(g) == adapter = "nosana" /\ job[g] = "ended"

(* _check_running and _check_deploying: a job that is known to have ended, *)
(* and for a DEPLOYING one an endpoint that serves, or too much time.      *)
Status ==
    /\ lw.at = "status"
    /\ LET g == lw.of IN
         \/ /\ node[g].pii /\ KnownEnded(g)
            /\ lw' = [lw EXCEPT !.at = "failstop"] /\ UNCHANGED st
         \/ /\ lw.seen = "DEPLOYING" /\ node[g].pii /\ job[g] = "serving"
            /\ st' = IF st = "DEPLOYING" THEN "RUNNING" ELSE st
            /\ lw' = Idle
         \/ /\ lw.seen = "DEPLOYING"
            /\ lw' = [lw EXCEPT !.at = IF node[g].pii THEN "failstop" ELSE "fail"] /\ UNCHANGED st
         \/ lw' = Idle /\ UNCHANGED st
    /\ UNCHANGED <<node, job, excused>> /\ UNCHANGED LwRest

(* _fail_and_teardown: only the winner of the compare-and-set tears down.  *)
Fail ==
    /\ lw.at \in {"fail", "failstop"}
    /\ IF st = lw.seen
       THEN /\ st' = "FAILED"
            /\ lw' = [lw EXCEPT !.at = IF lw.at = "failstop" THEN "stop" ELSE "mark"]
            /\ ExcuseIfStale(lw.of)
       ELSE lw' = Idle /\ UNCHANGED <<st, excused>>
    /\ UNCHANGED <<node, job>> /\ UNCHANGED LwRest

SweepStop ==
    /\ lw.at = "stop"
    /\ StopJob(lw.of)
    /\ lw' = [lw EXCEPT !.at = "mark"]
    /\ UNCHANGED <<st, node>> /\ UNCHANGED LwRest

SweepMark ==
    /\ lw.at = "mark"
    /\ node' = [node EXCEPT ![lw.of].st = "terminated"]
    /\ lw' = Idle
    /\ UNCHANGED <<st, job, excused>> /\ UNCHANGED LwRest

Liveness == Sweep \/ Status \/ Fail \/ SweepStop \/ SweepMark

(* A look at a deployment that is too old, or whose job has an outcome. *)
FoundOld == Status /\ (lw'.at \in {"fail", "failstop"} \/ st' # st)

-----------------------------------------------------------------------------
(* The heartbeat of a job that ended, which only the Nosana sidecar sends: *)
(* the state is read, then written.                                        *)
HeartbeatRead ==
    /\ ~hb /\ target # 0 /\ adapter = "nosana"
    /\ node[target].pii /\ job[target] \in {"ended"}
    /\ st \notin Ended
    /\ hb' = TRUE
    /\ UNCHANGED <<adapter, st, target, starts, node, job, co, tm, lw, excused, crashes>>

HeartbeatWrite ==
    /\ hb
    /\ hb' = FALSE
    /\ \E s \in {"FAILED", "STOPPED"} : st' = Write(s)
    /\ IF target # 0 /\ job[target] \notin {"ended"}
       THEN Excuse({target}) ELSE UNCHANGED excused
    /\ UNCHANGED <<adapter, target, starts, node, job, co, tm, lw, crashes>>

(* The provider: a job starts serving, or it ends. *)
JobServes(g) ==
    /\ job[g] = "up"
    /\ job' = [job EXCEPT ![g] = "serving"]
    /\ UNCHANGED <<adapter, st, target, starts, node, co, tm, lw, hb, excused, crashes>>

JobDies(g) ==
    /\ job[g] \in Alive \union {"unknown"}
    /\ job' = [job EXCEPT ![g] = "ended"]
    /\ UNCHANGED <<adapter, st, target, starts, node, co, tm, lw, hb, excused, crashes>>

(* A restart of the control plane ends every coroutine and request. *)
Crash ==
    /\ crashes < MaxCrashes
    /\ crashes' = crashes + 1
    /\ Excuse({g \in Gens : co[g] # "off" \/ tm.of = g \/ lw.of = g})
    /\ co' = [g \in Gens |-> "off"]
    /\ tm' = Idle /\ lw' = Idle /\ hb' = FALSE
    /\ UNCHANGED <<adapter, st, target, starts, node, job>>

Next ==
    \/ \E g \in Gens : Start(g) \/ Coroutine(g) \/ JobServes(g) \/ JobDies(g)
    \/ Terminate \/ Delete \/ Request \/ Liveness
    \/ HeartbeatRead \/ HeartbeatWrite \/ Crash

Spec == Init /\ [][Next]_vars

(* Coroutines and requests run on, and the worker sweeps for ever; a       *)
(* sweep's look at an old deployment finds it too old in the end.          *)
Fairness ==
    /\ \A g \in Gens : WF_vars(Coroutine(g))
    /\ WF_vars(Request) /\ WF_vars(Liveness) /\ SF_vars(FoundOld)

FairSpec == Spec /\ Fairness

-----------------------------------------------------------------------------
Quiet == (\A g \in Gens : co[g] = "off") /\ tm.at = "off" /\ lw.at = "off" /\ ~hb

(* When nothing is in progress, a paid job runs only for a deployment that *)
(* is in use and bound to the node that records it, unless a restart cut a *)
(* step short, the answer to its launch was lost, the provider refused to  *)
(* stop it, an unguarded RUNNING or a late heartbeat overwrote the state,  *)
(* or a step of an earlier run passed its compare-and-set after the        *)
(* deployment had been started again.                                      *)
JobLeakHasCause ==
    Quiet => \A g \in Gens :
       job[g] \in Alive \union {"unknown"} =>
          \/ g \in excused
          \/ st \in Waiting \union {"RUNNING"} /\ target = g /\ node[g].pii

(* A deployment at rest in RUNNING is bound to a node, unless an unguarded *)
(* RUNNING overtook a terminate.                                           *)
RunningHasNode ==
    Quiet /\ st = "RUNNING" /\ target = 0 => excused # {}

(* A deployment never waits for ever for its node or its model, whatever   *)
(* crashes, dies or is lost on the way: the liveness worker ends it.       *)
WaitingSettles == (st \in Waiting) ~> (st \notin Waiting)

(* A Nosana deployment whose recorded job has ended does not stay RUNNING. *)
DeadJobNoticed ==
    (adapter = "nosana" /\ st = "RUNNING" /\ target # 0 /\ node[target].pii /\ job[target] = "ended")
       ~> ~(st = "RUNNING" /\ target # 0 /\ node[target].pii /\ job[target] = "ended")
=============================================================================
