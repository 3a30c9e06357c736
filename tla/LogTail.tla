------------------------------ MODULE LogTail -------------------------------
(***************************************************************************)
(* Watching a deployment's log where there is no worker channel            *)
(* (deployment_server.py get_deployment_log_stream_info and                *)
(* websocket_logs_endpoint, api/nodes.py get_node_log_stream): the viewer  *)
(* asks where the log is, opens a websocket and subscribes; the endpoint   *)
(* tails it with a `sky exec` process or relays it from the Nosana node.   *)
(***************************************************************************)
EXTENDS Naturals

CONSTANTS Providers,   \* subset of {"worker", "nosana", "skypilot"}
          MaxAsks      \* bound on questions of the viewer

VARIABLES
    provider,   \* of the pool
    job,        \* the node's row: a "placeholder", a "posted" or a "placed" job
    client,     \* the viewer
    asks,       \* questions so far
    endpoint,   \* the step of websocket_logs_endpoint
    process,    \* the `sky exec` process
    upstream    \* the websocket to the Nosana node
vars == <<provider, job, client, asks, endpoint, process, upstream>>

Outside == <<provider, job, asks>>
StreamState == <<process, upstream>>

TypeOK ==
    /\ provider \in Providers /\ job \in {"placeholder", "posted", "placed"}
    /\ client \in {"idle", "node", "adapter", "told", "worker", "open", "left"}
    /\ asks \in 0 .. MaxAsks
    /\ endpoint \in {"none", "subscribe", "sky", "keys", "connect", "relay", "wait", "finally",
                     "done"}
    /\ process \in {"none", "running", "ended"} /\ upstream \in {"none", "open", "closed"}

Init ==
    /\ provider \in Providers /\ job = "placeholder"
    /\ client = "idle" /\ asks = 0
    /\ endpoint = "none" /\ process = "none" /\ upstream = "none"

Direct == provider = "nosana"

(* The job is posted, placed, and posted again as another one. *)
JobChanges ==
    /\ job' \in (IF job = "posted" THEN {"placed"} ELSE {"posted"})
    /\ UNCHANGED <<provider, client, asks, endpoint, StreamState>>

-----------------------------------------------------------------------------
(* Where is the log? *)

To(step) == client' = step /\ UNCHANGED <<provider, job, endpoint, StreamState>>
Ask == client = "idle" /\ asks < MaxAsks /\ asks' = asks + 1

(* The Logs tab of the node starts at the node's row, ... *)
GetNodeLogStream ==
    /\ Ask
    /\ To(IF ~Direct THEN "worker" ELSE IF job = "placeholder" THEN "idle" ELSE "adapter")

(* ... the Terminal tab at the deployment's, which may have no node yet. *)
GetDeploymentLogStreamInfo == Ask /\ (To("node") \/ To("idle"))

ReadNode ==
    /\ client = "node" /\ To(IF Direct THEN "adapter" ELSE "worker") /\ UNCHANGED asks

(* The adapter asks the sidecar: an error unless the job has a node. *)
GetLogStreamingInfo ==
    /\ client = "adapter" /\ UNCHANGED asks
    /\ (job = "placed" /\ To("told")) \/ To("idle")

-----------------------------------------------------------------------------
(* The websocket *)

Step(step) == endpoint' = step /\ UNCHANGED <<Outside, client>>

(* SkyPilot clusters have no adapter: their viewer knows its cluster. *)
Open ==
    /\ endpoint = "none" /\ client = (IF provider = "skypilot" THEN "idle" ELSE "told")
    /\ client' = "open" /\ endpoint' = "subscribe"
    /\ UNCHANGED <<Outside, StreamState>>

Leave ==
    /\ client = "open" /\ client' = "left"
    /\ UNCHANGED <<Outside, endpoint, StreamState>>

(* The first message says what to tail; anything else ends the endpoint. *)
Subscribe ==
    /\ endpoint = "subscribe"
    /\ \/ client = "open" /\ provider = "skypilot" /\ Step("sky")
       \/ client = "open" /\ provider = "nosana" /\ Step("keys")
       \/ Step("finally")
    /\ UNCHANGED StreamState

StartTail ==
    /\ endpoint = "sky" /\ Step("wait") /\ process' = "running" /\ UNCHANGED upstream

TailEnds ==
    /\ process = "running" /\ process' = "ended"
    /\ UNCHANGED <<Outside, client, endpoint, upstream>>

(* Lines are read by a task of their own; the endpoint waits for the       *)
(* client to go.                                                           *)
WaitForClient ==
    /\ endpoint = "wait" /\ client = "left" /\ Step("finally") /\ UNCHANGED StreamState

GetNosanaSignature ==
    /\ endpoint = "keys"
    /\ Step("connect") \/ Step("finally")
    /\ UNCHANGED StreamState

ConnectNosana ==
    /\ endpoint = "connect"
    /\ \/ Step("relay") /\ upstream' = "open"
       \/ Step("finally") /\ UNCHANGED upstream
    /\ UNCHANGED process

NodeCloses ==
    /\ upstream = "open" /\ upstream' = "closed"
    /\ UNCHANGED <<Outside, client, endpoint, process>>

(* A mutant of EitherEnds: both directions have to end.                    *)
EitherEndsBoth == client = "left" /\ upstream = "closed"

EitherEnds == client = "left" \/ upstream = "closed"

(* The first direction that ends ends both; leaving the block closes the   *)
(* websocket to the node.                                                  *)
RelayNosana ==
    /\ endpoint = "relay" /\ EitherEnds
    /\ Step("finally") /\ upstream' = "closed" /\ UNCHANGED process

(* A mutant of Finally: a process that runs is left alone.                 *)
FinallyKeeps == endpoint = "finally" /\ Step("done") /\ UNCHANGED StreamState

(* The process is terminated; the server closes the websocket. *)
Finally ==
    /\ endpoint = "finally" /\ Step("done") /\ UNCHANGED upstream
    /\ process' = IF process = "running" THEN "ended" ELSE process

Endpoint == \/ Subscribe \/ StartTail \/ WaitForClient \/ GetNosanaSignature \/ ConnectNosana
            \/ RelayNosana \/ Finally

Next == \/ JobChanges \/ GetNodeLogStream \/ GetDeploymentLogStreamInfo \/ ReadNode
        \/ GetLogStreamingInfo \/ Open \/ Leave \/ TailEnds \/ NodeCloses \/ Endpoint

Spec == Init /\ [][Next]_vars
FairSpec == Spec /\ WF_vars(Endpoint)

-----------------------------------------------------------------------------
(* An endpoint that is done has left no process tailing and no websocket   *)
(* to a node open.                                                         *)
NothingTails == endpoint = "done" => process # "running" /\ upstream # "open"

(* When the viewer leaves, or the node closes the stream, the endpoint     *)
(* comes to its end.                                                       *)
ViewEnds == (endpoint # "none" /\ (client = "left" \/ upstream = "closed")) ~> (endpoint = "done")
=============================================================================
