------------------------------- MODULE Sidecar -------------------------------
(***************************************************************************)
(* The DePIN sidecar's Nosana service (depin-sidecar/src/server.ts and     *)
(* modules/nosana/nosana_service.ts) in API mode, with the orchestrator's  *)
(* adapter (providers/nosana/nosana_adapter.py) and heartbeat route        *)
(* (scheduling/inventory_http.py) that it talks to.                        *)
(*                                                                         *)
(* One model deployment is launched once by the orchestrator.  The sidecar *)
(* creates and starts a Nosana deployment (a "job" here), watches it and   *)
(* launches another one when it ends by itself.  The configuration poll,   *)
(* which runs every ten seconds whether or not the last one is done,       *)
(* replaces the service object when the credential changes; the watch      *)
(* loops of the replaced object go on.                                     *)
(***************************************************************************)
EXTENDS Naturals, FiniteSets

CONSTANTS
    MaxJobs,      \* bound on Nosana deployments created
    MaxServices,  \* bound on service objects created
    Polls,        \* configuration polls that may overlap
    MaxKeys,      \* how often the operator rotates the credential
    MaxTries      \* launch attempts of one redeploy (5 in the code)

VARIABLES
    job,      \* the provider's side: status of every Nosana deployment
    watch,    \* watchedDeployments of every service object
    loop,     \* watch loops: step, attempt, and the job being launched
    cur,      \* nosanaServices: the object in use, 0 when none
    key,      \* the credential in the gateway's configuration
    finger,   \* the fingerprint of the credential in use
    poll,     \* the configuration polls
    made,     \* service objects created so far
    launch,   \* the orchestrator's launch request
    row,      \* provider_instance_id of the inventory row, 0 when none
    told,     \* what the last heartbeat that found the row said
    stop,     \* the orchestrator's stop request
    excused   \* what explains a job nobody wants

vars == <<job, watch, loop, cur, key, finger, poll, made, launch, row, told, stop, excused>>

Jobs == 1..MaxJobs
Services == 1..MaxServices
Live == {"starting", "running"}
NoLoop == [at |-> "off", try |-> 0, new |-> 0]
NoCall == [at |-> "off", svc |-> 0, job |-> 0]
NoPoll == [at |-> "off", want |-> 0, svc |-> 0]

TypeOK ==
    /\ job \in [Jobs -> {"none", "draft", "starting", "running", "ended"}]
    /\ watch \in [Services -> [Jobs -> {"none", "watched", "stopped"}]]
    /\ loop \in [Services -> [Jobs ->
          [at : {"off", "look", "create", "start", "wait", "report"}, try : 0..MaxTries, new : 0..MaxJobs]]]
    /\ cur \in 0..MaxServices /\ made \in 0..MaxServices
    /\ key \in 0..MaxKeys /\ finger \in 0..MaxKeys
    /\ poll \in [Polls -> [at : {"off", "init", "clean", "set"}, want : 0..MaxKeys, svc : 0..MaxServices]]
    /\ launch \in [at : {"off", "create", "start", "wait", "done"}, svc : 0..MaxServices, job : 0..MaxJobs]
    /\ row \in 0..MaxJobs
    /\ told \in {"none", "ready", "failed", "terminated"}
    /\ stop \in {"none", "marked", "done"}
    /\ excused \subseteq {"watchers", "launching", "abandoned", "refused"}

Init ==
    /\ job = [j \in Jobs |-> "none"]
    /\ watch = [s \in Services |-> [j \in Jobs |-> "none"]]
    /\ loop = [s \in Services |-> [j \in Jobs |-> NoLoop]]
    /\ cur = 0 /\ key = 1 /\ finger = 0 /\ made = 0
    /\ poll = [p \in Polls |-> NoPoll]
    /\ launch = NoCall
    /\ row = 0 /\ told = "none" /\ stop = "none" /\ excused = {}

Excuse(e) == excused' = excused \union e

-----------------------------------------------------------------------------
(* fetchConfigFromGateway. *)
PollRest == <<job, key, launch, row, told, stop>>

(* The desired credential is compared with the one in use.  A removed one  *)
(* drops the service object and marks what it watches.                     *)
PollStart(p) ==
    /\ poll[p].at = "off"
    /\ \/ /\ key = 0 /\ cur # 0
          /\ watch' = [watch EXCEPT ![cur] =
                [j \in Jobs |-> IF @[j] = "watched" THEN "stopped" ELSE @[j]]]
          /\ cur' = 0 /\ finger' = 0
          /\ UNCHANGED <<poll, made>>
       \/ /\ key # 0 /\ ~(finger = key /\ cur # 0)
          /\ made < MaxServices
          /\ made' = made + 1
          /\ poll' = [poll EXCEPT ![p] = [at |-> "init", want |-> key, svc |-> made + 1]]
          /\ UNCHANGED <<watch, cur, finger>>
    /\ UNCHANGED <<loop, excused>> /\ UNCHANGED PollRest

(* recoverJobs: every starting or running deployment of the account gets a *)
(* watch loop in the new object, whoever watches it already; a list that   *)
(* cannot be fetched counts as empty.                                      *)
Recover(p) ==
    /\ poll[p].at = "init"
    /\ \E found \in {{j \in Jobs : job[j] \in Live}, {}} :
       LET s == poll[p].svc
           doubled == \/ \E j \in found : \E t \in Services \ {s} : loop[t][j].at # "off"
                      \/ \E j \in found : launch.job = j /\ launch.at # "off"
                      \/ \E t \in Services, j \in Jobs : loop[t][j].new \in found
       IN /\ watch' = [watch EXCEPT ![s] = [j \in Jobs |-> IF j \in found THEN "watched" ELSE "none"]]
          /\ loop' = [loop EXCEPT ![s] =
                [j \in Jobs |-> IF j \in found THEN [NoLoop EXCEPT !.at = "look"] ELSE NoLoop]]
          /\ Excuse(IF doubled THEN {"watchers"} ELSE {})
    /\ poll' = [poll EXCEPT ![p].at = "clean"]
    /\ UNCHANGED <<cur, finger, made>> /\ UNCHANGED PollRest

(* Entries whose job has ended meanwhile are dropped. *)
RecoverClean(p) ==
    /\ poll[p].at = "clean"
    /\ watch' = [watch EXCEPT ![poll[p].svc] =
          [j \in Jobs |-> IF job[j] \in Live THEN @[j] ELSE "none"]]
    /\ poll' = [poll EXCEPT ![p].at = "set"]
    /\ UNCHANGED <<loop, cur, finger, made, excused>> /\ UNCHANGED PollRest

(* init fails: the old object stays in use. *)
InitFails(p) ==
    /\ poll[p].at = "init"
    /\ poll' = [poll EXCEPT ![p] = NoPoll]
    /\ UNCHANGED <<watch, loop, cur, finger, made, excused>> /\ UNCHANGED PollRest

PollSet(p) ==
    /\ poll[p].at = "set"
    /\ cur' = poll[p].svc /\ finger' = poll[p].want
    /\ poll' = [poll EXCEPT ![p] = NoPoll]
    /\ UNCHANGED <<watch, loop, made, excused>> /\ UNCHANGED PollRest

(* The operator rotates or removes the credential. *)
Rotate ==
    /\ key # 0
    /\ key' = IF key < MaxKeys THEN key + 1 ELSE 0
    /\ UNCHANGED <<job, watch, loop, cur, finger, poll, made, launch, row, told, stop, excused>>

-----------------------------------------------------------------------------
(* launchJob, as called by the launch route and by a redeploy. *)
Fresh(j) == job[j] = "none" /\ \A i \in 1..(j - 1) : job[i] # "none"

LaunchRest == <<cur, key, finger, poll, made, told, stop>>

LaunchRequest ==
    /\ launch.at = "off" /\ \A j \in Jobs : job[j] = "none"
    /\ cur # 0
    /\ launch' = [at |-> "create", svc |-> cur, job |-> 0]
    /\ UNCHANGED <<job, watch, loop, row, excused>> /\ UNCHANGED LaunchRest

(* Created as a draft, started, then polled until it runs; a launch that   *)
(* never saw it run answers all the same.                                  *)
LaunchCreate ==
    /\ launch.at = "create"
    /\ \E j \in Jobs : /\ Fresh(j)
                       /\ job' = [job EXCEPT ![j] = "draft"]
                       /\ launch' = [launch EXCEPT !.at = "start", !.job = j]
    /\ UNCHANGED <<watch, loop, row, excused>> /\ UNCHANGED LaunchRest

LaunchStart ==
    /\ launch.at = "start"
    /\ job' = [job EXCEPT ![launch.job] = "starting"]
    /\ launch' = [launch EXCEPT !.at = "wait"]
    /\ UNCHANGED <<watch, loop, row, excused>> /\ UNCHANGED LaunchRest

(* The route starts the watch loop and answers.  The adapter waited sixty  *)
(* seconds, the launch polls for five minutes: an answer that comes too    *)
(* late is not recorded.                                                   *)
LaunchAnswer ==
    /\ launch.at = "wait" /\ job[launch.job] \in Live
    /\ watch' = [watch EXCEPT ![launch.svc][launch.job] = "watched"]
    /\ loop' = [loop EXCEPT ![launch.svc][launch.job] = [NoLoop EXCEPT !.at = "look"]]
    /\ \/ row' = launch.job /\ UNCHANGED excused
       \/ Excuse({"abandoned"}) /\ UNCHANGED row
    /\ launch' = NoCall
    /\ UNCHANGED job /\ UNCHANGED LaunchRest

(* A step fails: what was started stays. *)
LaunchFails ==
    /\ launch.at \in {"create", "start", "wait"}
    /\ Excuse(IF launch.at = "wait" /\ job[launch.job] \in Live THEN {"abandoned"} ELSE {})
    /\ launch' = NoCall
    /\ UNCHANGED <<job, watch, loop, row>> /\ UNCHANGED LaunchRest

Launch == LaunchCreate \/ LaunchStart \/ LaunchAnswer \/ LaunchFails

-----------------------------------------------------------------------------
(* watchDeployment. *)
LoopRest == <<cur, key, finger, poll, made, launch, stop>>
SetLoop(s, j, l) == loop' = [loop EXCEPT ![s][j] = l]
At(s, j, a) == [loop[s][j] EXCEPT !.at = a]

(* A heartbeat that names job j: applied when the row has that id, 404 and *)
(* ignored when it has another, lost when the request fails.               *)
Heartbeat(j, state) ==
    \/ told' = IF row = j THEN state ELSE told
    \/ UNCHANGED told

(* The entry was dropped by a recovery. *)
EntryGone(s, j) ==
    /\ loop[s][j].at = "look" /\ watch[s][j] = "none"
    /\ SetLoop(s, j, NoLoop)
    /\ UNCHANGED <<job, watch, row, told, excused>> /\ UNCHANGED LoopRest

(* One turn while the job lives. *)
Beat(s, j) ==
    /\ loop[s][j].at = "look" /\ watch[s][j] # "none"
    /\ job[j] = "running" /\ told # "ready"
    /\ Heartbeat(j, "ready")
    /\ UNCHANGED <<job, watch, loop, row, excused>> /\ UNCHANGED LoopRest

(* A mutant: a job the user stopped is redeployed. *)
RedeployStopped(s, j) ==
    /\ loop[s][j].at = "look" /\ watch[s][j] # "none"
    /\ job[j] = "ended"
    /\ SetLoop(s, j, At(s, j, "create"))
    /\ UNCHANGED <<job, watch, row, told, excused>> /\ UNCHANGED LoopRest

(* A mutant: a job that does not run yet is taken for ended. *)
RedeployEarly(s, j) ==
    /\ loop[s][j].at = "look" /\ watch[s][j] = "watched"
    /\ job[j] # "running"
    /\ SetLoop(s, j, At(s, j, "create"))
    /\ UNCHANGED <<job, watch, row, told, excused>> /\ UNCHANGED LoopRest

(* The job ended by itself after long enough, and its definition is known. *)
Redeploy(s, j) ==
    /\ loop[s][j].at = "look" /\ watch[s][j] = "watched"
    /\ job[j] = "ended"
    /\ SetLoop(s, j, At(s, j, "create"))
    /\ UNCHANGED <<job, watch, row, told, excused>> /\ UNCHANGED LoopRest


(* A mutant: a job that was stopped is not given up. *)
GiveUpWatched(s, j) ==
    /\ loop[s][j].at = "look" /\ watch[s][j] = "watched"
    /\ job[j] = "ended"
    /\ SetLoop(s, j, At(s, j, "report"))
    /\ Heartbeat(j, "failed")
    /\ UNCHANGED <<job, watch, row, excused>> /\ UNCHANGED LoopRest

(* It was stopped by the user, ended too soon (a failed heartbeat), or     *)
(* cannot be launched again.                                               *)
GiveUp(s, j) ==
    /\ loop[s][j].at = "look" /\ watch[s][j] # "none"
    /\ job[j] = "ended"
    /\ SetLoop(s, j, At(s, j, "report"))
    /\ (watch[s][j] = "watched" /\ Heartbeat(j, "failed")) \/ UNCHANGED told
    /\ UNCHANGED <<job, watch, row, excused>> /\ UNCHANGED LoopRest

(* launchJob again: the same three calls. *)
RedeployCreate(s, j) ==
    /\ loop[s][j].at = "create"
    /\ \E n \in Jobs : /\ Fresh(n)
                       /\ job' = [job EXCEPT ![n] = "draft"]
                       /\ SetLoop(s, j, [loop[s][j] EXCEPT !.at = "start", !.new = n])
    /\ UNCHANGED <<watch, row, told, excused>> /\ UNCHANGED LoopRest

RedeployStart(s, j) ==
    /\ loop[s][j].at = "start"
    /\ job' = [job EXCEPT ![loop[s][j].new] = "starting"]
    /\ SetLoop(s, j, At(s, j, "wait"))
    /\ UNCHANGED <<watch, row, told, excused>> /\ UNCHANGED LoopRest

(* The new job is watched.  The heartbeat sent for it names the old id in  *)
(* old_provider_instance_id, which the route's payload has no field for:   *)
(* the row is looked up by the new id and not found.                       *)
Redeployed(s, j) ==
    /\ loop[s][j].at = "wait"
    /\ LET n == loop[s][j].new IN
         /\ job[n] \in Live
         /\ watch' = [watch EXCEPT ![s] = [@ EXCEPT ![n] = "watched", ![j] = "none"]]
         /\ loop' = [loop EXCEPT ![s] = [@ EXCEPT ![n] = [NoLoop EXCEPT !.at = "look"], ![j] = NoLoop]]
    /\ UNCHANGED <<job, row, told, excused>> /\ UNCHANGED LoopRest

(* An attempt fails at any of its calls; after the last one the job is     *)
(* reported failed.                                                        *)
RedeployFails(s, j) ==
    /\ loop[s][j].at \in {"create", "start", "wait"}
    /\ Excuse(IF loop[s][j].at = "wait" /\ job[loop[s][j].new] \in Live THEN {"abandoned"} ELSE {})
    /\ LET l == loop[s][j] IN
         IF l.try + 1 < MaxTries
         THEN SetLoop(s, j, [at |-> "create", try |-> l.try + 1, new |-> 0]) /\ UNCHANGED told
         ELSE SetLoop(s, j, [at |-> "report", try |-> l.try, new |-> 0]) /\ Heartbeat(j, "failed")
    /\ UNCHANGED <<job, watch, row>> /\ UNCHANGED LoopRest

(* The terminated heartbeat, and the end of the loop. *)
ReportKeeps(s, j) ==
    /\ loop[s][j].at = "report"
    /\ Heartbeat(j, "terminated")
    /\ SetLoop(s, j, NoLoop)
    /\ UNCHANGED <<job, watch, row, excused>> /\ UNCHANGED LoopRest

Report(s, j) ==
    /\ loop[s][j].at = "report"
    /\ Heartbeat(j, "terminated")
    /\ watch' = [watch EXCEPT ![s][j] = "none"]
    /\ SetLoop(s, j, NoLoop)
    /\ UNCHANGED <<job, row, excused>> /\ UNCHANGED LoopRest

Watch(s, j) ==
    \/ EntryGone(s, j) \/ Beat(s, j) \/ Redeploy(s, j) \/ GiveUp(s, j) \/ RedeployCreate(s, j)
    \/ RedeployStart(s, j) \/ Redeployed(s, j) \/ RedeployFails(s, j) \/ Report(s, j)

-----------------------------------------------------------------------------
(* The stop route: the entry of the recorded job is marked before the      *)
(* provider is called.  The adapter does not look at the answer.           *)
Busy == \/ launch.at # "off"
        \/ \E s \in Services, j \in Jobs : loop[s][j].at \in {"create", "start", "wait"}

Replaced == \E i \in Jobs \ {row} : job[i] \in Live \/ \E s \in Services : loop[s][i].at # "off"

StopRequest ==
    /\ stop = "none" /\ row # 0
    /\ stop' = IF cur = 0 THEN "done" ELSE "marked"
    /\ IF cur = 0 THEN UNCHANGED watch
       ELSE watch' = [watch EXCEPT ![cur][row] = IF @ = "none" THEN "none" ELSE "stopped"]
    /\ Excuse((IF cur = 0 THEN {"refused"} ELSE {})
               \union (IF Busy \/ Replaced THEN {"launching"} ELSE {})
               \union (IF \E s \in Services : s # cur /\ loop[s][row].at # "off"
                       THEN {"watchers"} ELSE {}))
    /\ UNCHANGED <<job, loop, cur, key, finger, poll, made, launch, row, told>>

StopCall ==
    /\ stop = "marked"
    /\ stop' = "done"
    /\ \/ /\ job' = [job EXCEPT ![row] = IF @ \in Live THEN "ended" ELSE @]
          /\ Excuse(IF Busy THEN {"launching"} ELSE {})
       \/ Excuse({"refused"}) /\ UNCHANGED job
    /\ UNCHANGED <<watch, loop, cur, key, finger, poll, made, launch, row, told>>

(* The provider. *)
Runs(j) ==
    /\ job[j] = "starting"
    /\ job' = [job EXCEPT ![j] = "running"]
    /\ UNCHANGED <<watch, loop, cur, key, finger, poll, made, launch, row, told, stop, excused>>

Ends(j) ==
    /\ job[j] \in Live
    /\ job' = [job EXCEPT ![j] = "ended"]
    /\ UNCHANGED <<watch, loop, cur, key, finger, poll, made, launch, row, told, stop, excused>>

(* The sidecar restarts: everything it knew is gone. *)
Restart ==
    /\ made > 0 /\ made < MaxServices
    /\ watch' = [s \in Services |-> [j \in Jobs |-> "none"]]
    /\ loop' = [s \in Services |-> [j \in Jobs |-> NoLoop]]
    /\ poll' = [p \in Polls |-> NoPoll]
    /\ launch' = NoCall
    /\ cur' = 0 /\ finger' = 0
    /\ stop' = IF stop = "marked" THEN "done" ELSE stop
    /\ Excuse((IF Busy THEN {"abandoned"} ELSE {})
               \union (IF stop = "marked" THEN {"refused"} ELSE {}))
    /\ UNCHANGED <<job, key, made, row, told>>

Next ==
    \/ \E p \in Polls : PollStart(p) \/ Recover(p) \/ RecoverClean(p) \/ InitFails(p) \/ PollSet(p)
    \/ \E s \in Services, j \in Jobs : Watch(s, j)
    \/ \E j \in Jobs : Runs(j) \/ Ends(j)
    \/ Rotate \/ LaunchRequest \/ Launch \/ StopRequest \/ StopCall \/ Restart

Spec == Init /\ [][Next]_vars

Fairness == \A s \in Services, j \in Jobs : WF_vars(Watch(s, j))
FairSpec == Spec /\ Fairness

-----------------------------------------------------------------------------
(* A stop request is final: once it has been served, nothing is left       *)
(* running and nothing is launched again, unless the provider or the       *)
(* sidecar refused it, a launch was in progress or had been given up, the  *)
(* job had been redeployed under an id that the row does not have, or      *)
(* another service object watched it.                                      *)
StopIsFinal ==
    stop = "done" /\ excused = {} => \A j \in Jobs : job[j] \notin Live

(* The deployment never runs twice at the same time, unless two service    *)
(* objects watched the same job or a failed launch left one behind.        *)
OneJob ==
    Cardinality({j \in Jobs : job[j] \in Live}) > 1 => excused \intersect {"watchers", "abandoned"} # {}

(* The orchestrator is never told that the deployment failed or ended      *)
(* while a job of it runs that some loop redeployed: the end is reported   *)
(* only when nothing replaces the job.                                     *)
EndIsTrue ==
    told \in {"failed", "terminated"} /\ excused = {} => \A j \in Jobs : job[j] \notin Live

(* Every entry of a watch map belongs to a running loop: no job is left    *)
(* in the map, shown as watched and kept from recovery, without one.       *)
WatchedHasLoop ==
    \A s \in Services, j \in Jobs : watch[s][j] # "none" => loop[s][j].at # "off"

(* A loop whose job has ended comes to an end: it reports the job or       *)
(* hands over to a new one, after a bounded number of attempts.            *)
LoopEnds ==
    \A s \in Services, j \in Jobs :
       (loop[s][j].at # "off" /\ job[j] = "ended") ~> (loop[s][j].at = "off")
=============================================================================
