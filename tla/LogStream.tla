------------------------------ MODULE LogStream ------------------------------
(***************************************************************************)
(* Log streaming through the DePIN sidecar: the WebSocket handler of       *)
(* depin-sidecar/src/server.ts and the LogStreamer of                      *)
(* modules/nosana/nosana_logs.ts.  A client subscribes, perhaps twice on   *)
(* one connection; every subscription asks for the job, gets a streamer,   *)
(* and connects it to the node that runs the job.  The streamer reconnects *)
(* after a delay when the node closes the connection.                      *)
(***************************************************************************)
EXTENDS Naturals

CONSTANTS
    Subs,        \* subscribe messages of one client connection
    MaxRetries,  \* maxRetries of a streamer (10 in the code)
    NoSub        \* no streamer in the handler's variable

VARIABLES
    client,   \* readyState of the client's socket
    sub,      \* step of the handler of every subscribe message
    streamer, \* the handler's variable: the last streamer created
    sock,     \* the socket of every streamer
    timer,    \* a reconnect is scheduled
    should,   \* shouldReconnect
    retry,    \* retryCount
    ended,    \* close was emitted
    excused   \* streamers that nobody closes

vars == <<client, sub, streamer, sock, timer, should, retry, ended, excused>>

TypeOK ==
    /\ client \in {"open", "closed"}
    /\ sub \in [Subs -> {"none", "job", "streamer", "address", "connected", "done"}]
    /\ streamer \in Subs \union {NoSub}
    /\ sock \in [Subs -> {"none", "connecting", "open"}]
    /\ timer \in [Subs -> BOOLEAN] /\ should \in [Subs -> BOOLEAN]
    /\ retry \in [Subs -> 0..MaxRetries]
    /\ ended \subseteq Subs /\ excused \subseteq Subs

Init ==
    /\ client = "open" /\ streamer = NoSub
    /\ sub = [s \in Subs |-> "none"]
    /\ sock = [s \in Subs |-> "none"]
    /\ timer = [s \in Subs |-> FALSE] /\ should = [s \in Subs |-> TRUE]
    /\ retry = [s \in Subs |-> 0]
    /\ ended = {} /\ excused = {}

Go(s, at) == sub' = [sub EXCEPT ![s] = at]
Sockets == <<sock, timer, should, retry, ended>>

-----------------------------------------------------------------------------
(* The handler of a subscribe message.  No await of it looks at the client *)
(* again.                                                                  *)
Subscribe(s) ==
    /\ client = "open" /\ sub[s] = "none"
    /\ Go(s, "job")
    /\ UNCHANGED <<client, streamer, excused, Sockets>>

(* getJob: a finished job is answered from its stored logs. *)
GetJob(s) ==
    /\ sub[s] = "job"
    /\ \/ Go(s, "streamer")
       \/ Go(s, "done")
    /\ UNCHANGED <<client, streamer, excused, Sockets>>


(* getLogStreamer, which may throw.  The new streamer replaces the one in  *)
(* the variable: closing the client closes only the last.                  *)
GetStreamer(s) ==
    /\ sub[s] = "streamer"
    /\ \/ /\ Go(s, "address")
          /\ streamer' = s
          /\ excused' = excused \union (IF client = "closed" THEN {s} ELSE {})
                                \union (IF streamer # NoSub THEN {streamer} ELSE {})
       \/ Go(s, "done") /\ UNCHANGED <<streamer, excused>>
    /\ UNCHANGED <<client, Sockets>>

(* The job's address and node are resolved, then the streamer connects;    *)
(* without a node the stored logs are sent.                                *)
Connect(s) ==
    /\ sub[s] = "address"
    /\ \/ /\ Go(s, "connected")
          /\ sock' = [sock EXCEPT ![s] = "connecting"]
          /\ excused' = excused \union (IF client = "closed" THEN {s} ELSE {})
       \/ Go(s, "done") /\ UNCHANGED <<sock, excused>>
    /\ UNCHANGED <<client, streamer, timer, should, retry, ended>>

-----------------------------------------------------------------------------
(* The streamer. *)
Opens(s) ==
    /\ sock[s] = "connecting"
    /\ sock' = [sock EXCEPT ![s] = "open"]
    /\ retry' = [retry EXCEPT ![s] = 0]
    /\ UNCHANGED <<client, sub, streamer, timer, should, ended, excused>>

(* The close event, for whatever reason. *)
ClosesUnbounded(s) ==
    /\ sock[s] # "none"
    /\ sock' = [sock EXCEPT ![s] = "none"]
    /\ timer' = [timer EXCEPT ![s] = should[s]]
    /\ ended' = IF should[s] THEN ended ELSE ended \union {s}
    /\ UNCHANGED <<client, sub, streamer, should, retry, excused>>

(* A mutant: one reconnect too many. *)
ClosesOnceMore(s) ==
    /\ sock[s] # "none"
    /\ sock' = [sock EXCEPT ![s] = "none"]
    /\ IF should[s] /\ retry[s] <= MaxRetries
       THEN /\ retry' = [retry EXCEPT ![s] = @ + 1]
            /\ timer' = [timer EXCEPT ![s] = TRUE]
            /\ UNCHANGED ended
       ELSE /\ ended' = ended \union {s}
            /\ UNCHANGED <<retry, timer>>
    /\ UNCHANGED <<client, sub, streamer, should, excused>>

Closes(s) ==
    /\ sock[s] # "none"
    /\ sock' = [sock EXCEPT ![s] = "none"]
    /\ IF should[s] /\ retry[s] < MaxRetries
       THEN /\ retry' = [retry EXCEPT ![s] = @ + 1]
            /\ timer' = [timer EXCEPT ![s] = TRUE]
            /\ UNCHANGED ended
       ELSE /\ ended' = ended \union {s}
            /\ UNCHANGED <<retry, timer>>
    /\ UNCHANGED <<client, sub, streamer, should, excused>>

(* The timer connects again without looking at shouldReconnect. *)
Reconnect(s) ==
    /\ timer[s]
    /\ timer' = [timer EXCEPT ![s] = FALSE]
    /\ sock' = [sock EXCEPT ![s] = "connecting"]
    /\ UNCHANGED <<client, sub, streamer, should, retry, ended, excused>>

(* The promise of a reconnect is rejected (ten seconds without an open     *)
(* socket, no authorisation): nothing handles that, and the process exits. *)
Unhandled(s) ==
    /\ sock[s] = "connecting" /\ retry[s] > 0
    /\ client' = "closed" /\ streamer' = NoSub
    /\ sub' = [t \in Subs |-> IF sub[t] = "none" THEN "none" ELSE "done"]
    /\ sock' = [t \in Subs |-> "none"] /\ timer' = [t \in Subs |-> FALSE]
    /\ UNCHANGED <<should, retry, ended, excused>>

(* The client goes away: the streamer in the variable is closed, with its  *)
(* socket; a scheduled reconnect is not cancelled.                         *)
ClientClosesNothing ==
    /\ client = "open" /\ client' = "closed"
    /\ streamer' = NoSub
    /\ UNCHANGED <<sub, excused, Sockets>>

ClientCloses ==
    /\ client = "open" /\ client' = "closed"
    /\ streamer' = NoSub
    /\ IF streamer = NoSub THEN UNCHANGED <<sock, should, ended, excused>>
       ELSE /\ should' = [should EXCEPT ![streamer] = FALSE]
            /\ sock' = [sock EXCEPT ![streamer] = "none"]
            /\ ended' = IF sock[streamer] # "none" THEN ended \union {streamer} ELSE ended
            /\ excused' = IF timer[streamer] THEN excused \union {streamer} ELSE excused
    /\ UNCHANGED <<sub, timer, retry>>

Handler(s) == GetJob(s) \/ GetStreamer(s) \/ Connect(s)

Next ==
    \/ \E s \in Subs : Subscribe(s) \/ Handler(s) \/ Opens(s) \/ Closes(s) \/ Reconnect(s) \/ Unhandled(s)
    \/ ClientCloses

Spec == Init /\ [][Next]_vars

(* Timers fire and awaited calls return.  A socket need not ever close.    *)
Fairness == \A s \in Subs : WF_vars(Handler(s)) /\ WF_vars(Reconnect(s))
FairSpec == Spec /\ Fairness

-----------------------------------------------------------------------------
(* When the client has gone, its streamers hold no connection to a node,   *)
(* except one that was created after the client left, one replaced by a    *)
(* second subscription, or one whose reconnect was already scheduled.      *)
SocketLeakHasCause ==
    client = "closed" =>
       \A s \in Subs : (sock[s] # "none" \/ timer[s]) => s \in excused

(* A streamer never reconnects more than maxRetries times in a row, and    *)
(* one that gave up stays down.                                            *)
GivesUp ==
    \A s \in Subs : (timer[s] /\ ~timer'[s] => retry[s] \in 1..MaxRetries)
                    /\ (s \in ended /\ ~timer[s] => sock'[s] = "none")

(* Every subscription is answered: the handler reaches its end, with a     *)
(* streamer, the stored logs or an error.                                  *)
SubscribeAnswered ==
    \A s \in Subs : (sub[s] = "job") ~> (sub[s] \in {"connected", "done"})
=============================================================================
