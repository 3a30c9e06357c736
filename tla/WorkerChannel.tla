---------------------------- MODULE WorkerChannel ----------------------------
(***************************************************************************)
(* The control channel of one worker node: the WebSocket handler           *)
(* (api/workers.py worker_channel), the in-memory WorkerRegistry with its  *)
(* connection, stream and command tables, the dashboard's shell            *)
(* and logs proxies and the revoke endpoint (api/admin_workers.py), the    *)
(* load/unload commands (worker_controller/controller.py) and the teardown *)
(* that drops a destroyed node's connection (reconciler/loop.py).          *)
(*                                                                         *)
(* A step is what a coroutine does between two awaits.  The worker itself  *)
(* is outside the repository: it may send any frame the protocol allows    *)
(* for what it was asked, drop the socket, and connect again.              *)
(***************************************************************************)
EXTENDS Naturals, Sequences, FiniteSets

CONSTANTS
    Conns,      \* WebSocket connections the worker opens, one handler each
    Streams,    \* shell / logs sessions of the dashboard
    Commands,   \* LoadModel / UnloadModel envelopes
    NoConn      \* no registry entry

VARIABLES
    row,        \* the node's inventory row
    chan,       \* per connection: handler position, socket, superseded socket
    conns,      \* registry._conns[node]
    stream,     \* per session: the proxy, registry._streams, the handle
    cmd,        \* per command: the caller and registry._pending
    admin,      \* the revoke request
    tear        \* the reconciler's teardown of the node

vars == <<row, chan, conns, stream, cmd, admin, tear>>

Lines == {"open", "dropped", "closed"}

TypeOK ==
    /\ row \in {"provisioning", "ready", "terminated", "purged"}
    /\ \A c \in Conns :
          /\ chan[c].at \in {"idle", "gated", "accepted", "superseding", "loop",
                             "leaving", "done"}
          /\ chan[c].line \in Lines
          /\ chan[c].old \in Conns \union {NoConn}
    /\ conns \in Conns \union {NoConn}
    /\ stream \in [Streams -> [at : {"idle", "sending", "live", "closing", "closed"},
                               reg : BOOLEAN, over : Conns \union {NoConn},
                               ended : BOOLEAN]]
    /\ cmd \in [Commands -> [at : {"idle", "waiting", "ok", "timeout", "unreachable"},
                             pend : BOOLEAN]]
    /\ admin.at \in {"idle", "get", "detach", "done"} /\ admin.conn \in Conns \union {NoConn}
    /\ tear.at \in {"idle", "detach", "close", "done"} /\ tear.conn \in Conns \union {NoConn}

Init ==
    /\ row = "provisioning"
    /\ chan = [c \in Conns |-> [at |-> "idle", line |-> "open", old |-> NoConn]]
    /\ conns = NoConn
    /\ stream = [s \in Streams |-> [at |-> "idle", reg |-> FALSE, over |-> NoConn,
                                    ended |-> FALSE]]
    /\ cmd = [k \in Commands |-> [at |-> "idle", pend |-> FALSE]]
    /\ admin = [at |-> "idle", conn |-> NoConn]
    /\ tear = [at |-> "idle", conn |-> NoConn]

(* The socket of c is closed from this side. *)
Shut(f, c) == IF c = NoConn THEN f ELSE [f EXCEPT ![c].line = "closed"]

(***************************************************************************)
(* Dropping the registry entry: the connection goes (with its metrics),    *)
(* and every registered stream of the node is popped and handed the        *)
(* synthetic "worker disconnected" frame.                                  *)
(***************************************************************************)
Orphan(s) == IF s.reg THEN [s EXCEPT !.reg = FALSE, !.ended = TRUE] ELSE s

(* A mutant: the streams of the connection stay. *)
DropEntryLeavesStreams ==
    /\ conns' = NoConn
    /\ UNCHANGED stream

DropEntry ==
    /\ conns' = NoConn
    /\ stream' = [s \in Streams |-> Orphan(stream[s])]

(* A mutant: whatever connection is registered is removed. *)
DetachAnyWs(c) ==
    IF conns = NoConn THEN UNCHANGED <<conns, stream>> ELSE DropEntry

(* A mutant: a closed socket stays registered. *)
DetachNothing(c) == UNCHANGED <<conns, stream>>

(* registry.detach: only the connection that is still current is removed. *)
DetachWs(c) ==
    IF conns # c THEN UNCHANGED <<conns, stream>> ELSE DropEntry

(***************************************************************************)
(* worker_channel                                                          *)
(***************************************************************************)
(* The token is valid; a node already revoked is refused.  A row that is   *)
(* gone does not stop the connection.                                      *)
Connect(c) ==
    /\ chan[c].at = "idle"
    /\ chan' = [chan EXCEPT ![c].at = IF row = "terminated" THEN "done" ELSE "gated"]
    /\ UNCHANGED <<row, conns, stream, cmd, admin, tear>>

(* A mutant: the update is not conditional. *)
AcceptRevives(c) ==
    /\ chan[c].at = "gated"
    /\ chan' = [chan EXCEPT ![c].at = "accepted"]
    /\ row' = IF row # "purged" THEN "ready" ELSE row
    /\ UNCHANGED <<conns, stream, cmd, admin, tear>>

(* ws.accept and mark_ready_worker, a conditional update. *)
Accept(c) ==
    /\ chan[c].at = "gated"
    /\ chan' = [chan EXCEPT ![c].at = "accepted"]
    /\ row' = IF row = "provisioning" THEN "ready" ELSE row
    /\ UNCHANGED <<conns, stream, cmd, admin, tear>>

(* registry.attach under the lock ... *)
Attach(c) ==
    /\ chan[c].at = "accepted"
    /\ conns' = c
    /\ chan' = [chan EXCEPT ![c].at = "superseding", ![c].old = conns]
    /\ UNCHANGED <<row, stream, cmd, admin, tear>>

(* ... then the superseded socket is closed, the linker fired, Hello sent. *)
CloseOld(c) ==
    /\ chan[c].at = "superseding"
    /\ chan' = [Shut(chan, chan[c].old) EXCEPT ![c].at = "loop", ![c].old = NoConn]
    /\ UNCHANGED <<row, conns, stream, cmd, admin, tear>>

(* deliver_command_result, deliver_stream_frame with a terminal frame. *)
DeliverResult(k) ==
    cmd' = [cmd EXCEPT ![k] = IF @.at = "waiting" /\ @.pend
                              THEN [at |-> "ok", pend |-> FALSE] ELSE @]

DeliverFrame(s) == stream' = [stream EXCEPT ![s].ended = @ \/ stream[s].reg]

(* The read loop takes a frame the worker sent: a result of a command, the *)
(* end of a session it opened on this socket.  A heartbeat changes only    *)
(* the health columns and the metrics, which are left out.                 *)
Receive(c) ==
    /\ chan[c].at = "loop"
    /\ chan[c].line = "open"
    /\ \/ /\ \E k \in Commands : cmd[k].at # "idle" /\ DeliverResult(k)
          /\ UNCHANGED stream
       \/ /\ \E s \in Streams : stream[s].over = c /\ DeliverFrame(s)
          /\ UNCHANGED cmd
    /\ UNCHANGED <<row, chan, conns, admin, tear>>

(* receive_json raises: the socket was closed here, or the peer went and   *)
(* everything it had sent is read; a malformed frame ends the same way.    *)
Leave(c) ==
    /\ chan[c].at = "loop"
    /\ chan[c].line # "open"
    /\ chan' = [chan EXCEPT ![c].at = "leaving"]
    /\ UNCHANGED <<row, conns, stream, cmd, admin, tear>>

(* The handler's finally block. *)
Detach(c) ==
    /\ chan[c].at = "leaving"
    /\ chan' = [chan EXCEPT ![c].at = "done", ![c].line = "closed"]
    /\ DetachWs(c)
    /\ UNCHANGED <<row, cmd, admin, tear>>

(***************************************************************************)
(* The worker (external)                                                   *)
(***************************************************************************)
WorkerDrops(c) ==
    /\ chan[c].line = "open"
    /\ chan[c].at \in {"accepted", "superseding", "loop"}
    /\ chan' = [chan EXCEPT ![c].line = "dropped"]
    /\ UNCHANGED <<row, conns, stream, cmd, admin, tear>>

(***************************************************************************)
(* load_model / unload_model                                               *)
(***************************************************************************)
(* The lookup, the future and the send run without an await between them.  *)
(* A failed send raises to the caller and leaves the future to its timer.  *)
Issue(k) ==
    /\ cmd[k].at = "idle"
    /\ IF conns = NoConn
       THEN cmd' = [cmd EXCEPT ![k] = [at |-> "unreachable", pend |-> FALSE]]
       ELSE \/ /\ chan[conns].line # "closed"
               /\ cmd' = [cmd EXCEPT ![k] = [at |-> "waiting", pend |-> TRUE]]
            \/ cmd' = [cmd EXCEPT ![k] = [at |-> "unreachable", pend |-> TRUE]]
    /\ UNCHANGED <<row, chan, conns, stream, admin, tear>>

(* A mutant: the waiting command is not woken. *)
ExpireOnlyWaiting(k) ==
    /\ cmd[k].pend
    /\ cmd[k].at # "waiting"
    /\ cmd' = [cmd EXCEPT ![k].pend = FALSE]
    /\ UNCHANGED <<row, chan, conns, stream, admin, tear>>

(* wait_for's timer. *)
Expire(k) ==
    /\ cmd[k].pend
    /\ cmd' = [cmd EXCEPT ![k] = [at |-> IF @.at = "waiting" THEN "timeout" ELSE @.at,
                                  pend |-> FALSE]]
    /\ UNCHANGED <<row, chan, conns, stream, admin, tear>>

(***************************************************************************)
(* The shell and logs proxies                                              *)
(***************************************************************************)
Open(s) ==
    /\ stream[s].at = "idle"
    /\ stream' = [stream EXCEPT ![s] =
          IF conns = NoConn THEN [@ EXCEPT !.at = "closed"]
          ELSE [@ EXCEPT !.at = "sending", !.reg = TRUE, !.over = conns]]
    /\ UNCHANGED <<row, chan, conns, cmd, admin, tear>>

(* The Open envelope goes over the socket read under the lock; a failure   *)
(* rolls the registration back and ends the request.                       *)
OpenSent(s) ==
    /\ stream[s].at = "sending"
    /\ \/ /\ chan[stream[s].over].line # "closed"
          /\ stream' = [stream EXCEPT ![s].at = "live"]
       \/ stream' = [stream EXCEPT ![s].at = "closed", ![s].reg = FALSE]
    /\ UNCHANGED <<row, chan, conns, cmd, admin, tear>>

(* worker_to_dashboard reads a terminal frame. *)
Drain(s) ==
    /\ stream[s].at = "live"
    /\ stream[s].ended
    /\ stream' = [stream EXCEPT ![s].at = "closing"]
    /\ UNCHANGED <<row, chan, conns, cmd, admin, tear>>

(* dashboard_to_worker ends: the browser leaves, or a stdin / resize frame *)
(* of a registered stream meets a current socket that is gone.             *)
DashboardEnds(s) ==
    /\ stream[s].at = "live"
    /\ stream' = [stream EXCEPT ![s].at = "closing"]
    /\ UNCHANGED <<row, chan, conns, cmd, admin, tear>>

CloseStream(s) ==
    /\ stream[s].at = "closing"
    /\ stream' = [stream EXCEPT ![s].at = "closed", ![s].reg = FALSE]
    /\ UNCHANGED <<row, chan, conns, cmd, admin, tear>>

(***************************************************************************)
(* revoke_worker: the row first (an AWS node only gets a flag, its job     *)
(* tears it down), then the socket, then the registry.                     *)
(***************************************************************************)
RevokeMark ==
    /\ admin.at = "idle"
    /\ row # "purged"
    /\ admin' = [admin EXCEPT !.at = "get"]
    /\ \/ row' = "terminated"
       \/ UNCHANGED row
    /\ UNCHANGED <<chan, conns, stream, cmd, tear>>

RevokeClose ==
    /\ admin.at = "get"
    /\ admin' = [at |-> IF conns = NoConn THEN "done" ELSE "detach", conn |-> conns]
    /\ chan' = Shut(chan, conns)
    /\ UNCHANGED <<row, conns, stream, cmd, tear>>

RevokeDetach ==
    /\ admin.at = "detach"
    /\ admin' = [admin EXCEPT !.at = "done"]
    /\ DetachWs(admin.conn)
    /\ UNCHANGED <<row, chan, cmd, tear>>

(***************************************************************************)
(* _teardown_node_residue: the row is purged, then detach_node drops       *)
(* whatever connection is current and closes its socket.                   *)
(***************************************************************************)
TeardownPurge ==
    /\ tear.at = "idle"
    /\ row' = "purged"
    /\ tear' = [tear EXCEPT !.at = "detach"]
    /\ UNCHANGED <<chan, conns, stream, cmd, admin>>

TeardownDetach ==
    /\ tear.at = "detach"
    /\ tear' = [at |-> IF conns = NoConn THEN "done" ELSE "close", conn |-> conns]
    /\ DropEntry
    /\ UNCHANGED <<row, chan, cmd, admin>>

TeardownClose ==
    /\ tear.at = "close"
    /\ tear' = [tear EXCEPT !.at = "done"]
    /\ chan' = Shut(chan, tear.conn)
    /\ UNCHANGED <<row, conns, stream, cmd, admin>>

Handler(c) ==
    \/ Connect(c) \/ Accept(c) \/ Attach(c) \/ CloseOld(c)
    \/ Leave(c) \/ Detach(c)

Running(c) == chan[c].at # "idle" /\ Handler(c)

Revoke == RevokeClose \/ RevokeDetach

Teardown == TeardownDetach \/ TeardownClose

Proxy(s) == OpenSent(s) \/ Drain(s) \/ CloseStream(s)

Next ==
    \/ \E c \in Conns : Handler(c) \/ Receive(c) \/ WorkerDrops(c)
    \/ \E k \in Commands : Issue(k) \/ Expire(k)
    \/ \E s \in Streams : Open(s) \/ Proxy(s) \/ DashboardEnds(s)
    \/ RevokeMark \/ Revoke \/ TeardownPurge \/ Teardown

Spec == Init /\ [][Next]_vars

(***************************************************************************)
(* The event loop runs every ready coroutine; a timer that is set fires.   *)
(* Nothing makes the worker or the dashboard act.                          *)
(***************************************************************************)
Fairness ==
    /\ \A c \in Conns : WF_vars(Running(c))
    /\ \A s \in Streams : WF_vars(Proxy(s))
    /\ \A k \in Commands : WF_vars(Expire(k))
    /\ WF_vars(Revoke) /\ WF_vars(Teardown)

FairSpec == Spec /\ Fairness

-----------------------------------------------------------------------------
(***************************************************************************)
(* Properties                                                              *)
(***************************************************************************)
(* The registry never points at a connection whose handler has finished:   *)
(* each handler's finally block removes its own entry, whatever was        *)
(* attached, revoked or torn down meanwhile.                               *)
NoDeadConn ==
    conns # NoConn => chan[conns].at \in {"superseding", "loop", "leaving"}

(* A handler that is reading an open socket is the one the registry routes *)
(* to; the only exceptions are sockets about to be closed by a newer       *)
(* connection or by the teardown.  A late detach of an old connection      *)
(* must not unregister the new one.                                        *)
LiveRegistered ==
    \A c \in Conns :
       chan[c].at = "loop" /\ chan[c].line = "open" =>
          \/ conns = c
          \/ \E d \in Conns : chan[d].at = "superseding" /\ chan[d].old = c
          \/ tear.at = "close" /\ tear.conn = c

(* A registered session always has a connection: dropping the entry closes *)
(* every session of the node in the same critical section.                 *)
StreamsHaveConn == \A s \in Streams : stream[s].reg => conns # NoConn

(* A revoked or purged node's row never becomes usable again through a     *)
(* connection that passed the gate before the revocation.                  *)
RevokedForGood ==
    (row \in {"terminated", "purged"}) => (row' \in {"terminated", "purged"})

(* A session opened over a connection whose handler is gone is closed,     *)
(* unless a newer connection took the entry over first (the session then   *)
(* stays with it: registry.detach leaves it alone).                        *)
Moved(s) == conns \notin {NoConn, stream[s].over}

StreamEnds ==
    \A s \in Streams :
       (stream[s].at = "live" /\ chan[stream[s].over].at \in {"leaving", "done"})
          ~> (stream[s].at = "closed" \/ Moved(s))

(* Every command comes back to its caller and leaves the pending table,    *)
(* also when the worker disconnects and never answers.                     *)
CommandEnds ==
    \A k \in Commands : cmd[k].pend ~> (~cmd[k].pend /\ cmd[k].at # "waiting")
=============================================================================
