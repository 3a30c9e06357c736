----------------------------- MODULE MCExecution -----------------------------
(***************************************************************************)
(* The components that carry a deployment out, checked together: the       *)
(* deploy and terminate consumers, deployments on DePIN networks, the      *)
(* Nosana sidecar with its log streams, the control channel of a worker    *)
(* and the log endpoint.  They share no state that their modules model, so *)
(* a behaviour of the sum is a behaviour of one of them; `part` says of    *)
(* which.  The channel is taken twice, with sessions and with commands:    *)
(* neither reads what the other writes.  The channel and the logs, their   *)
(* properties and the proofs are in ChannelProofs.                         *)
(***************************************************************************)
EXTENDS ChannelProofs, FiniteSets

CONSTANTS
  Parts,                                          \* the components to check
  Deps, Kinds, Deletes, Slots,                    \* Dispatch (and MaxRetries)
  MaxCrashes,                                     \* Dispatch, Depin
  Starts,                                         \* Depin
  MaxJobs, MaxServices, Polls, MaxKeys, MaxTries  \* Sidecar

VARIABLE part   \* the component that runs

\* The deploy and terminate consumers (Dispatch)
VARIABLES
  dep, ext, alloc, ev, dh, th, health, started, cause, dispCrashes
Disp == INSTANCE Dispatch WITH
  crashes <- dispCrashes
dispVars ==
  <<dep, ext, alloc, ev, dh, th, health, started, cause, dispCrashes>>

\* Deployments on DePIN networks (Depin)
VARIABLES
  adapter, st, target, starts, node, depinJob, co, tm, lw, hb, depinExcused,
  depinCrashes
Net == INSTANCE Depin WITH
  job <- depinJob, excused <- depinExcused, crashes <- depinCrashes
depinVars ==
  <<adapter, st, target, starts, node, depinJob, co, tm, lw, hb,
  depinExcused, depinCrashes>>

\* The Nosana sidecar (Sidecar)
VARIABLES
  sideJob, watch, loop, cur, key, finger, poll, made, launch, sideRow, told,
  stop, sideExcused
Side == INSTANCE Sidecar WITH
  job <- sideJob, row <- sideRow, excused <- sideExcused
sideVars ==
  <<sideJob, watch, loop, cur, key, finger, poll, made, launch, sideRow, told,
  stop, sideExcused>>

\* The control channel of a worker (WorkerChannel)
chanVars ==
  <<chanRow, chan, conns, stream, cmd, admin, tear>>

\* The sidecar's log streams (LogStream)
logsVars ==
  <<logsClient, sub, streamer, sock, timer, should, retry, ended,
  logsExcused>>

\* The log endpoint of a deployment (LogTail)
tailVars ==
  <<provider, tailJob, tailClient, asks, endpoint, process, upstream>>

Channel == part \in {"sessions", "commands"}

\* The parts that do not run rest in their initial states.
Rest(p) ==
  /\ UNCHANGED part
  /\ IF p = "dispatch" THEN TRUE ELSE UNCHANGED dispVars
  /\ IF p = "depin" THEN TRUE ELSE UNCHANGED depinVars
  /\ IF p = "sidecar" THEN TRUE ELSE UNCHANGED sideVars
  /\ IF p = "channel" THEN TRUE ELSE UNCHANGED chanVars
  /\ IF p = "log_stream" THEN TRUE ELSE UNCHANGED logsVars
  /\ IF p = "log_tail" THEN TRUE ELSE UNCHANGED tailVars

vars == <<part, dispVars, depinVars, sideVars, chanVars, logsVars, tailVars>>

\* One initial state is enough for a part that does not run.
Resting ==
  /\ part # "dispatch" => \A d \in Deps : dep[d].kind = "cluster"
  /\ part # "depin" => adapter = "nosana"
  /\ part # "log_tail" => provider = "worker"

Init ==
  /\ part \in Parts
  /\ Disp!Init
  /\ Net!Init
  /\ Side!Init
  /\ Chan!Init
  /\ Logs!Init
  /\ Tail!Init
  /\ Resting

Next ==
  \/ part = "dispatch" /\ Disp!Next /\ Rest("dispatch")
  \/ part = "depin" /\ Net!Next /\ Rest("depin")
  \/ part = "sidecar" /\ Side!Next /\ Rest("sidecar")
  \/ part = "sessions" /\ Chan!Next /\ UNCHANGED cmd /\ Rest("channel")
  \/ part = "commands" /\ Chan!Next /\ UNCHANGED stream /\ Rest("channel")
  \/ part = "log_stream" /\ Logs!Next /\ Rest("log_stream")
  \/ part = "log_tail" /\ Tail!Next /\ Rest("log_tail")

Spec == Init /\ [][Next]_vars

\* The fairness of each component, for the part that runs.
Fairness ==
  /\ \A d \in Deps : WF_dispVars(part = "dispatch" /\ Disp!DeployRuns(d))
  /\ \A d \in Deps : SF_dispVars(part = "dispatch" /\ Disp!Begin(d))
  /\ \A d \in Deps, k \in Deletes : WF_dispVars(part = "dispatch" /\ Disp!TerminateRuns(d, k))
  /\ \A d \in Deps, k \in Deletes : SF_dispVars(part = "dispatch" /\ Disp!TerminateBegin(d, k))
  /\ \A g \in Net!Gens : WF_depinVars(part = "depin" /\ Net!Coroutine(g))
  /\ WF_depinVars(part = "depin" /\ Net!Request)
  /\ WF_depinVars(part = "depin" /\ Net!Liveness)
  /\ SF_depinVars(part = "depin" /\ Net!FoundOld)
  /\ \A s \in Side!Services, j \in Side!Jobs : WF_sideVars(part = "sidecar" /\ Side!Watch(s, j))
  /\ \A c \in Conns : WF_chanVars(Channel /\ Chan!Running(c))
  /\ \A s \in Streams : WF_chanVars(Channel /\ Chan!Proxy(s))
  /\ \A k \in Commands : WF_chanVars(Channel /\ Chan!Expire(k))
  /\ WF_chanVars(Channel /\ Chan!Revoke)
  /\ WF_chanVars(Channel /\ Chan!Teardown)
  /\ \A s \in Subs : WF_logsVars(part = "log_stream" /\ Logs!Handler(s))
  /\ \A s \in Subs : WF_logsVars(part = "log_stream" /\ Logs!Reconnect(s))
  /\ WF_tailVars(part = "log_tail" /\ Tail!Endpoint)

FairSpec == Spec /\ Fairness

-----------------------------------------------------------------------------


=============================================================================
