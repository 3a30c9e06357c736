--------------------------- MODULE ChannelProofs ----------------------------
(***************************************************************************)
(* The control channel of a worker and the two paths that logs take, for   *)
(* any number of connections, sessions, commands and subscriptions: the    *)
(* registry routes to handlers that live, a revocation lasts, and what     *)
(* streams logs is closed with its reader or left open for a known reason. *)
(***************************************************************************)
EXTENDS Naturals, TLAPS

CONSTANTS
  Conns, Streams, Commands, NoConn,   \* WorkerChannel
  Subs, NoSub, MaxRetries,            \* LogStream
  Providers, MaxAsks                  \* LogTail

\* The control channel of a worker (WorkerChannel)
VARIABLES
  chanRow, chan, conns, stream, cmd, admin, tear
Chan == INSTANCE WorkerChannel WITH
  row <- chanRow

\* The sidecar's log streams (LogStream)
VARIABLES
  logsClient, sub, streamer, sock, timer, should, retry, ended, logsExcused
Logs == INSTANCE LogStream WITH
  client <- logsClient, excused <- logsExcused

\* The log endpoint of a deployment (LogTail)
VARIABLES
  provider, tailJob, tailClient, asks, endpoint, process, upstream
Tail == INSTANCE LogTail WITH
  job <- tailJob, client <- tailClient

\* The worker channel: the registry never points at a finished handler, a
\* handler reading an open socket is the registered one or about to be
\* closed, and a registered session has a connection.
ChannelSound ==
  /\ Chan!TypeOK
  /\ Chan!NoDeadConn
  /\ Chan!LiveRegistered
  /\ Chan!StreamsHaveConn

\* The two log paths: a streamer outlives its client only for a known reason,
\* and a tail that ended leaves no process and no websocket.
LogsSound ==
  /\ Logs!TypeOK
  /\ Logs!SocketLeakHasCause
  /\ Tail!TypeOK
  /\ Tail!NothingTails

\* A revoked node's row does not become usable again, and a log streamer
\* reconnects a bounded number of times before it stays down.
GivenUpForGood ==
  [][Chan!RevokedForGood /\ Logs!GivesUp]_<<Chan!vars, Logs!vars>>

-----------------------------------------------------------------------------
ChannelConstants == NoConn \notin Conns

Held == Conns \union {NoConn}

Handlers ==
  [Conns -> [at : {"idle", "gated", "accepted", "superseding", "loop", "leaving", "done"},
             line : Chan!Lines, old : Held]]

Sessions ==
  [Streams -> [at : {"idle", "sending", "live", "closing", "closed"}, reg : BOOLEAN,
               over : Held, ended : BOOLEAN]]

(* The types, and who is reached: every handler that reads an open socket  *)
(* is the registered one, or the one a handler or a teardown is about to   *)
(* close; a revocation that has closed a socket detaches that very one.    *)
ChanShape ==
  /\ chanRow \in {"provisioning", "ready", "terminated", "purged"}
  /\ chan \in Handlers
  /\ conns \in Held
  /\ stream \in Sessions
  /\ admin \in [at : {"idle", "get", "detach", "done"}, conn : Held]
  /\ tear \in [at : {"idle", "detach", "close", "done"}, conn : Held]

Reached(c) ==
  \/ conns = c
  \/ \E d \in Conns : chan[d].at = "superseding" /\ chan[d].old = c
  \/ tear.at = "close" /\ tear.conn = c

Routing ==
  /\ Chan!NoDeadConn
  /\ Chan!StreamsHaveConn
  /\ \A c \in Conns :
        chan[c].at \in {"superseding", "loop"} /\ chan[c].line = "open" => Reached(c)
  /\ admin.at = "detach" => admin.conn \in Conns /\ chan[admin.conn].line = "closed"

(* Closing a socket changes one line and keeps the shape of the handlers.  *)
LEMMA ShutShape ==
  ASSUME ChannelConstants, ChanShape, NEW c \in Held
  PROVE  /\ Chan!Shut(chan, c) \in Handlers
         /\ \A d \in Conns : /\ Chan!Shut(chan, c)[d].at = chan[d].at
                             /\ Chan!Shut(chan, c)[d].old = chan[d].old
                             /\ Chan!Shut(chan, c)[d].line =
                                  IF d = c THEN "closed" ELSE chan[d].line
  BY DEF Chan!Shut, ChanShape, Handlers, Held, ChannelConstants, Chan!Lines

(* Dropping the registry entry takes every session off it.                 *)
LEMMA DropShape ==
  ASSUME ChanShape, Chan!DropEntry
  PROVE  /\ conns' = NoConn
         /\ stream' \in Sessions
         /\ \A s \in Streams : stream'[s].reg = FALSE
<1>1. \A s \in Streams : Chan!Orphan(stream[s]) \in
         [at : {"idle", "sending", "live", "closing", "closed"},
          reg : {FALSE}, over : Held, ended : BOOLEAN]
  <2> TAKE s \in Streams
  <2>1. stream[s] \in [at : {"idle", "sending", "live", "closing", "closed"},
                       reg : BOOLEAN, over : Held, ended : BOOLEAN]
    BY DEF ChanShape, Sessions
  <2>2. CASE stream[s].reg = TRUE
    BY <2>1, <2>2 DEF Chan!Orphan
  <2>3. CASE stream[s].reg = FALSE
    BY <2>1, <2>3 DEF Chan!Orphan
  <2> QED
    BY <2>1, <2>2, <2>3
<1> QED
  BY <1>1 DEF Chan!DropEntry, Sessions

(* The invariant holds before any worker connects.                         *)
LEMMA ChannelInit ==
  ASSUME ChannelConstants, Chan!Init PROVE ChanShape /\ Routing
  BY DEF ChannelConstants, Chan!Init, ChanShape, Routing, Chan!NoDeadConn,
       Chan!StreamsHaveConn, Held, Chan!Lines,
         Handlers, Sessions

(* Steps of a handler up to its loop, its way out and a worker that drops  *)
(* keep the invariant.                                                     *)
LEMMA HandlerStep ==
  ASSUME ChannelConstants, ChanShape, Routing, NEW c \in Conns,
         Chan!Connect(c) \/ Chan!Accept(c) \/ Chan!Attach(c) \/ Chan!Leave(c) \/ Chan!WorkerDrops(c)
  PROVE  ChanShape' /\ Routing'
<1> USE DEF ChannelConstants, ChanShape, Handlers, Held, Chan!Lines
<1>1. ChanShape'
  BY DEF Chan!Connect, Chan!Accept, Chan!Attach, Chan!Leave, Chan!WorkerDrops
<1>2. CASE Chan!Connect(c) \/ Chan!Accept(c) \/ Chan!Leave(c) \/ Chan!WorkerDrops(c)
  BY <1>1, <1>2 DEF Chan!Connect, Chan!Accept, Chan!Leave, Chan!WorkerDrops, Routing,
       Reached, Chan!NoDeadConn,
                    Chan!StreamsHaveConn
<1>3. CASE Chan!Attach(c)
  <2>1. /\ conns' = c /\ UNCHANGED <<stream, admin, tear>>
        /\ chan'[c].at = "superseding" /\ chan'[c].old = conns
        /\ \A d \in Conns : chan'[d].line = chan[d].line
        /\ \A d \in Conns \ {c} : chan'[d] = chan[d]
        /\ chan[c].at = "accepted"
    BY <1>3 DEF Chan!Attach
  <2>2. ASSUME NEW d \in Conns, chan'[d].at \in {"superseding", "loop"},
               chan'[d].line = "open"
        PROVE  Reached(d)'
    <3>1. CASE d = c
      BY <2>1, <3>1 DEF Reached
    <3>2. CASE d # c
      <4>1. Reached(d)
        BY <2>1, <2>2, <3>2 DEF Routing
      <4> QED
        BY <2>1, <4>1 DEF Reached
    <3> QED
      BY <3>1, <3>2
  <2> QED
    BY <1>1, <2>1, <2>2 DEF Routing, Chan!NoDeadConn, Chan!StreamsHaveConn
<1> QED
  BY <1>1, <1>2, <1>3

(* Closing the superseded connection keeps the invariant: its own is the   *)
(* one registered since.                                                   *)
LEMMA CloseOldStep ==
  ASSUME ChannelConstants, ChanShape, Routing, NEW c \in Conns, Chan!CloseOld(c)
  PROVE  ChanShape' /\ Routing'
<1>1. chan[c].old \in Held
  BY DEF ChanShape, Handlers
<1> DEFINE shut == Chan!Shut(chan, chan[c].old)
<1>2. /\ chan' = [shut EXCEPT ![c].at = "loop", ![c].old = NoConn]
      /\ chan[c].at = "superseding" /\ UNCHANGED <<chanRow, conns, stream, admin, tear>>
  BY DEF Chan!CloseOld
<1>a. /\ shut \in Handlers
      /\ \A d \in Conns : /\ shut[d].at = chan[d].at /\ shut[d].old = chan[d].old
                          /\ shut[d].line = IF d = chan[c].old THEN "closed" ELSE chan[d].line
  BY <1>1, ShutShape
<1> HIDE DEF shut
<1>b. chan' \in Handlers
  <2>1. [shut[c] EXCEPT !.at = "loop", !.old = NoConn] \in
           [at : {"idle", "gated", "accepted", "superseding", "loop", "leaving", "done"},
            line : Chan!Lines, old : Held]
    <3>1. shut[c] \in
            [at : {"idle", "gated", "accepted", "superseding", "loop", "leaving", "done"},
             line : Chan!Lines, old : Held]
      BY <1>a DEF Handlers
    <3>2. NoConn \in Held
      BY DEF Held
    <3> QED
      BY <3>1, <3>2
  <2>2. chan' = [shut EXCEPT ![c] = [shut[c] EXCEPT !.at = "loop", !.old = NoConn]]
    BY <1>2, <1>a DEF Handlers
  <2> QED
    BY <1>a, <2>1, <2>2 DEF Handlers
<1>3. ChanShape'
  BY <1>2, <1>b DEF ChanShape
<1>4. /\ \A d \in Conns : chan'[d].line = IF d = chan[c].old THEN "closed" ELSE chan[d].line
      /\ \A d \in Conns \ {c} : chan'[d].at = chan[d].at /\ chan'[d].old = chan[d].old
      /\ chan'[c].at = "loop"
  BY <1>2, <1>a DEF Handlers
<1>5. ASSUME NEW d \in Conns, chan'[d].at \in {"superseding", "loop"}, chan'[d].line = "open"
      PROVE  Reached(d)'
  <2>1. d # chan[c].old /\ Reached(d)
    <3>1. d # chan[c].old /\ chan[d].line = "open"
      BY <1>4, <1>5
    <3>2. chan[d].at \in {"superseding", "loop"}
      BY <1>2, <1>4, <1>5
    <3> QED
      BY <3>1, <3>2 DEF Routing
  <2> QED
    BY <1>2, <1>4, <2>1 DEF Reached
<1> QED
  BY <1>2, <1>3, <1>4, <1>5 DEF Routing, Chan!NoDeadConn, Chan!StreamsHaveConn,
       ChanShape, Held

(* A handler that ends takes only its own entry from the registry.         *)
LEMMA DetachStep ==
  ASSUME ChannelConstants, ChanShape, Routing, NEW c \in Conns, Chan!Detach(c)
  PROVE  ChanShape' /\ Routing'
<1>1. /\ chan[c].at = "leaving" /\ UNCHANGED <<chanRow, admin, tear>>
      /\ chan' = [chan EXCEPT ![c].at = "done", ![c].line = "closed"]
      /\ Chan!DetachWs(c)
  BY DEF Chan!Detach
<1>2. \/ conns # c /\ UNCHANGED <<conns, stream>>
      \/ /\ conns = c /\ conns' = NoConn
         /\ stream' \in Sessions /\ \A s \in Streams : stream'[s].reg = FALSE
  BY <1>1, DropShape DEF Chan!DetachWs
<1>a. chan' \in Handlers
  BY <1>1 DEF ChanShape, Handlers, Chan!Lines
<1>3. ChanShape'
  BY <1>1, <1>2, <1>a DEF ChanShape, Held
<1>4. /\ \A d \in Conns \ {c} : chan'[d] = chan[d]
      /\ chan'[c].at = "done" /\ chan'[c].line = "closed"
  BY <1>1 DEF ChanShape, Handlers
<1>5. ASSUME NEW d \in Conns, chan'[d].at \in {"superseding", "loop"}, chan'[d].line = "open"
      PROVE  Reached(d)'
  <2>1. d # c /\ Reached(d)
    BY <1>4, <1>5 DEF Routing
  <2> QED
    <3>1. CASE conns = d
      BY <1>2, <2>1, <3>1 DEF Reached
    <3>2. CASE \E e \in Conns : chan[e].at = "superseding" /\ chan[e].old = d
      <4>1. PICK e \in Conns : chan[e].at = "superseding" /\ chan[e].old = d
        BY <3>2
      <4>2. chan'[e] = chan[e]
        BY <1>1, <1>4, <4>1
      <4> QED
        BY <4>1, <4>2 DEF Reached
    <3>3. CASE tear.at = "close" /\ tear.conn = d
      BY <1>1, <3>3 DEF Reached
    <3> QED
      BY <2>1, <3>1, <3>2, <3>3 DEF Reached
<1>6. Chan!NoDeadConn' /\ Chan!StreamsHaveConn'
  BY <1>2, <1>3, <1>4 DEF Routing, Chan!NoDeadConn, Chan!StreamsHaveConn, ChanShape,
       Held
<1> QED
  BY <1>1, <1>3, <1>4, <1>5, <1>6 DEF Routing

(* Each step of a revocation keeps the invariant.                          *)
LEMMA RevokeStep ==
  ASSUME ChannelConstants, ChanShape, Routing, Chan!RevokeMark \/ Chan!RevokeClose \/ Chan!RevokeDetach
  PROVE  ChanShape' /\ Routing'
<1>1. CASE Chan!RevokeMark
  BY <1>1 DEF Chan!RevokeMark, ChanShape, Routing, Reached, Chan!NoDeadConn,
       Chan!StreamsHaveConn
<1>2. CASE Chan!RevokeClose
  <2>1. /\ admin' = [at |-> IF conns = NoConn THEN "done" ELSE "detach", conn |-> conns]
        /\ chan' = Chan!Shut(chan, conns) /\ UNCHANGED <<chanRow, conns, stream, tear>>
    BY <1>2 DEF Chan!RevokeClose
  <2>2. conns \in Held
    BY DEF ChanShape
  <2>3. ChanShape'
    BY <2>1, <2>2, ShutShape DEF ChanShape
  <2>4. \A d \in Conns : /\ chan'[d].at = chan[d].at /\ chan'[d].old = chan[d].old
                         /\ chan'[d].line = IF d = conns THEN "closed" ELSE chan[d].line
    BY <2>1, <2>2, ShutShape
  <2> QED
    BY <2>1, <2>2, <2>3, <2>4
    DEF Routing, Reached, Chan!NoDeadConn, Chan!StreamsHaveConn, Held, ChannelConstants
<1>3. CASE Chan!RevokeDetach
  <2>1. /\ admin.at = "detach" /\ admin' = [admin EXCEPT !.at = "done"]
        /\ UNCHANGED <<chanRow, chan, tear>> /\ Chan!DetachWs(admin.conn)
    BY <1>3 DEF Chan!RevokeDetach
  <2>2. \/ conns # admin.conn /\ UNCHANGED <<conns, stream>>
        \/ /\ conns = admin.conn /\ conns' = NoConn
           /\ stream' \in Sessions /\ \A s \in Streams : stream'[s].reg = FALSE
    BY <2>1, DropShape DEF Chan!DetachWs
  <2>3. ChanShape'
    BY <2>1, <2>2 DEF ChanShape, Held
  <2>4. ASSUME NEW d \in Conns, chan[d].at \in {"superseding", "loop"}, chan[d].line = "open"
        PROVE  Reached(d)'
    <3>1. d # admin.conn /\ Reached(d)
      BY <2>1, <2>4 DEF Routing
    <3> QED
      BY <2>1, <2>2, <3>1 DEF Reached
  <2>5. Chan!NoDeadConn' /\ Chan!StreamsHaveConn'
    BY <2>1, <2>2 DEF Routing, Chan!NoDeadConn, Chan!StreamsHaveConn
  <2> QED
    BY <2>1, <2>3, <2>4, <2>5 DEF Routing, ChanShape
<1> QED
  BY <1>1, <1>2, <1>3

(* Each step of a teardown keeps the invariant: the entry is dropped       *)
(* before its socket is closed.                                            *)
LEMMA TeardownStep ==
  ASSUME ChannelConstants, ChanShape, Routing,
         Chan!TeardownPurge \/ Chan!TeardownDetach \/ Chan!TeardownClose
  PROVE  ChanShape' /\ Routing'
<1>1. CASE Chan!TeardownPurge
  BY <1>1 DEF Chan!TeardownPurge, ChanShape, Routing, Reached, Chan!NoDeadConn,
       Chan!StreamsHaveConn
<1>2. CASE Chan!TeardownDetach
  <2>1. /\ tear.at = "detach" /\ UNCHANGED <<chanRow, chan, admin>> /\ conns' = NoConn
        /\ stream' \in Sessions /\ \A s \in Streams : stream'[s].reg = FALSE
        /\ tear' = [at |-> IF conns = NoConn THEN "done" ELSE "close", conn |-> conns]
    BY <1>2, DropShape DEF Chan!TeardownDetach
  <2>2. ChanShape'
    BY <2>1 DEF ChanShape, Held
  <2>3. ASSUME NEW c \in Conns, chan[c].at \in {"superseding", "loop"}, chan[c].line = "open"
        PROVE  Reached(c)'
    <3>1. Reached(c)
      BY <2>3 DEF Routing
    <3> QED
      BY <2>1, <3>1 DEF Reached, ChannelConstants
  <2> QED
    BY <2>1, <2>2, <2>3 DEF Routing, Chan!NoDeadConn, Chan!StreamsHaveConn
<1>3. CASE Chan!TeardownClose
  <2>1. /\ tear.at = "close" /\ tear' = [tear EXCEPT !.at = "done"]
        /\ chan' = Chan!Shut(chan, tear.conn) /\ UNCHANGED <<chanRow, conns, stream, admin>>
    BY <1>3 DEF Chan!TeardownClose
  <2>2. tear.conn \in Held
    BY DEF ChanShape
  <2>3. ChanShape'
    BY <2>1, <2>2, ShutShape DEF ChanShape
  <2>4. \A d \in Conns : /\ chan'[d].at = chan[d].at /\ chan'[d].old = chan[d].old
                         /\ chan'[d].line = IF d = tear.conn THEN "closed" ELSE chan[d].line
    BY <2>1, <2>2, ShutShape
  <2> QED
    BY <2>1, <2>2, <2>3, <2>4
    DEF Routing, Reached, Chan!NoDeadConn, Chan!StreamsHaveConn, Held,
         ChannelConstants, ChanShape
<1> QED
  BY <1>1, <1>2, <1>3

(* A session is registered only while there is a connection.               *)
LEMMA SessionStep ==
  ASSUME ChannelConstants, ChanShape, Routing, NEW s \in Streams,
         Chan!Open(s) \/ Chan!Proxy(s) \/ Chan!DashboardEnds(s)
  PROVE  ChanShape' /\ Routing'
<1>1. UNCHANGED <<chanRow, chan, conns, admin, tear>>
  BY DEF Chan!Open, Chan!Proxy, Chan!OpenSent, Chan!Drain, Chan!CloseStream,
       Chan!DashboardEnds
<1>2. /\ stream' \in Sessions
      /\ \A r \in Streams : stream'[r].reg => stream[r].reg \/ conns # NoConn
  <2> USE DEF ChanShape, Sessions
  <2>1. CASE Chan!Open(s)
    <3>1. CASE conns = NoConn
      BY <2>1, <3>1 DEF Chan!Open
    <3>2. CASE conns # NoConn
      BY <2>1, <3>2 DEF Chan!Open
    <3> QED
      BY <3>1, <3>2
  <2>2. CASE Chan!OpenSent(s)
    BY <2>2 DEF Chan!OpenSent
  <2>3. CASE Chan!Drain(s) \/ Chan!CloseStream(s) \/ Chan!DashboardEnds(s)
    BY <2>3 DEF Chan!Drain, Chan!CloseStream, Chan!DashboardEnds
  <2> QED
    BY <2>1, <2>2, <2>3 DEF Chan!Proxy
<1>3. ChanShape'
  BY <1>1, <1>2 DEF ChanShape
<1> QED
  BY <1>1, <1>2, <1>3 DEF Routing, Reached, Chan!NoDeadConn, Chan!StreamsHaveConn

(* Commands, frames and idle steps do not touch the routing.               *)
LEMMA OtherStep ==
  ASSUME ChannelConstants, ChanShape, Routing,
         \/ UNCHANGED Chan!vars
         \/ \E c \in Conns : Chan!Receive(c)
         \/ \E k \in Commands : Chan!Issue(k) \/ Chan!Expire(k)
  PROVE  ChanShape' /\ Routing'
<1>1. /\ UNCHANGED <<chanRow, chan, conns, admin, tear>>
      /\ UNCHANGED stream \/ \E s \in Streams : Chan!DeliverFrame(s)
  BY DEF Chan!vars, Chan!Receive, Chan!Issue, Chan!Expire
<1>2. /\ \A s \in Streams : stream'[s].reg = stream[s].reg
      /\ ChanShape'
  BY <1>1 DEF Chan!DeliverFrame, ChanShape, Sessions
<1> QED
  BY <1>1, <1>2 DEF Routing, Reached, Chan!NoDeadConn, Chan!StreamsHaveConn

Issued ==
  cmd \in [Commands -> [at : {"idle", "waiting", "ok", "timeout", "unreachable"},
                        pend : BOOLEAN]]

(* Commands keep their type.                                               *)
LEMMA IssuedStep ==
  ASSUME Issued, [Chan!Next]_(Chan!vars) PROVE Issued'
<1>1. CASE UNCHANGED cmd
  BY <1>1 DEF Issued
<1>2. ASSUME NEW k \in Commands, Chan!DeliverResult(k) PROVE Issued'
  <2>1. CASE cmd[k].at = "waiting" /\ cmd[k].pend
    BY <1>2, <2>1 DEF Issued, Chan!DeliverResult
  <2>2. CASE ~(cmd[k].at = "waiting" /\ cmd[k].pend)
    BY <1>2, <2>2 DEF Issued, Chan!DeliverResult
  <2> QED
    BY <2>1, <2>2
<1>3. ASSUME NEW k \in Commands, Chan!Issue(k) PROVE Issued'
  <2>1. \E b \in BOOLEAN, a \in {"waiting", "unreachable"} :
           cmd' = [cmd EXCEPT ![k] = [at |-> a, pend |-> b]]
    BY <1>3, Zenon DEF Chan!Issue
  <2> QED
    BY <2>1 DEF Issued
<1>4. ASSUME NEW k \in Commands, Chan!Expire(k) PROVE Issued'
  <2>1. CASE cmd[k].at = "waiting"
    BY <1>4, <2>1 DEF Issued, Chan!Expire
  <2>2. CASE cmd[k].at # "waiting"
    BY <1>4, <2>2 DEF Issued, Chan!Expire
  <2> QED
    BY <2>1, <2>2
<1> QED
  BY <1>1, <1>2, <1>3, <1>4 DEF Chan!Next, Chan!vars, Chan!Handler, Chan!Connect,
       Chan!Accept, Chan!Attach, Chan!CloseOld, Chan!Leave,
     Chan!Detach, Chan!Receive, Chan!WorkerDrops, Chan!Open, Chan!Proxy,
       Chan!OpenSent, Chan!Drain, Chan!CloseStream, Chan!DashboardEnds,
     Chan!RevokeMark, Chan!Revoke, Chan!RevokeClose, Chan!RevokeDetach,
       Chan!TeardownPurge, Chan!Teardown, Chan!TeardownDetach,
     Chan!TeardownClose

(* The channel is sound, by the invariant ChanShape with Routing.          *)
LEMMA ChannelRouting ==
  ASSUME ChannelConstants
  PROVE  Chan!Spec => [](Chan!TypeOK /\ Chan!NoDeadConn /\ Chan!LiveRegistered /\ Chan!StreamsHaveConn)
<1>1. ChanShape /\ Routing /\ [Chan!Next]_(Chan!vars) => (ChanShape /\ Routing)'
  BY HandlerStep, CloseOldStep, DetachStep, RevokeStep, TeardownStep, SessionStep,
       OtherStep
  DEF Chan!Next, Chan!Handler, Chan!Revoke, Chan!Teardown
<1>2. Routing => Chan!NoDeadConn /\ Chan!LiveRegistered /\ Chan!StreamsHaveConn
  BY DEF Routing, Reached, Chan!LiveRegistered
<1>3. ChanShape /\ Issued => Chan!TypeOK
  BY DEF ChanShape, Handlers, Sessions, Issued, Held, Chan!TypeOK
<1>4. Chan!Init => Issued
  BY DEF Chan!Init, Issued
<1> QED
  BY <1>1, <1>2, <1>3, <1>4, ChannelInit, IssuedStep, PTL DEF Chan!Spec

(* No step makes the row of a revoked node usable again.                   *)
LEMMA RevocationLasts == Chan!Spec => [][Chan!RevokedForGood]_(Chan!vars)
<1>1. [Chan!Next]_(Chan!vars) => [Chan!RevokedForGood]_(Chan!vars)
  BY DEF Chan!Next, Chan!vars, Chan!Handler, Chan!Connect, Chan!Accept, Chan!Attach,
       Chan!CloseOld, Chan!Leave, Chan!Detach, Chan!Receive,
         Chan!WorkerDrops, Chan!Issue, Chan!Expire, Chan!Open, Chan!Proxy,
       Chan!OpenSent, Chan!Drain, Chan!CloseStream,
         Chan!DashboardEnds, Chan!RevokeMark, Chan!Revoke, Chan!RevokeClose,
       Chan!RevokeDetach, Chan!TeardownPurge,
         Chan!Teardown, Chan!TeardownDetach, Chan!TeardownClose, Chan!RevokedForGood
<1> QED
  BY <1>1, PTL DEF Chan!Spec

-----------------------------------------------------------------------------
LogStreamConstants == MaxRetries \in Nat /\ NoSub \notin Subs

(* A subscription whose streamer has not been connected yet.               *)
Before == {"none", "job", "streamer", "address"}

(* A streamer has a socket or waits to reconnect, never both, and one that *)
(* ended has neither.  As long as the client is there, closing it reaches  *)
(* every streamer but the excused ones.                                    *)
Streaming ==
  /\ Logs!TypeOK
  /\ \A s \in Subs :
       /\ timer[s] => sock[s] = "none" /\ retry[s] >= 1
       /\ sub[s] \in Before => sock[s] = "none" /\ timer[s] = FALSE
       /\ s \in ended => sock[s] = "none" /\ timer[s] = FALSE /\ sub[s] \notin Before
       /\ (sock[s] # "none" \/ timer[s] \/ (logsClient = "open" /\ sub[s] = "address"))
            => (logsClient = "open" /\ streamer = s) \/ s \in logsExcused

(* The invariant of the streamers is inductive.                            *)
LEMMA StreamingStep ==
  ASSUME LogStreamConstants, Streaming, [Logs!Next]_(Logs!vars) PROVE Streaming'
<1> USE DEF Streaming, Logs!TypeOK, LogStreamConstants, Before
<1>1. CASE UNCHANGED Logs!vars
  BY <1>1 DEF Logs!vars
<1>2. ASSUME NEW s \in Subs, Logs!Subscribe(s) \/ Logs!GetJob(s) PROVE Streaming'
  BY <1>2 DEF Logs!Subscribe, Logs!GetJob, Logs!Go, Logs!Sockets
<1>3. ASSUME NEW s \in Subs, Logs!GetStreamer(s) PROVE Streaming'
  <2>1. /\ UNCHANGED <<logsClient, sock, timer, should, retry, ended>>
        /\ sub[s] = "streamer"
        /\ sub' = [sub EXCEPT ![s] = "address"] \/ sub' = [sub EXCEPT ![s] = "done"]
    BY <1>3 DEF Logs!GetStreamer, Logs!Go, Logs!Sockets
  <2>2. CASE UNCHANGED <<streamer, logsExcused>> /\ sub' = [sub EXCEPT ![s] = "done"]
    BY <2>1, <2>2
  <2>3. CASE /\ streamer' = s /\ logsExcused \subseteq logsExcused' /\ logsExcused' \subseteq Subs
             /\ logsClient = "closed" => s \in logsExcused'
             /\ streamer # NoSub => streamer \in logsExcused'
    <3>1. Logs!TypeOK'
      BY <2>1, <2>3
    <3>2. \A t \in Subs : streamer = t => t \in logsExcused' \/ streamer = NoSub
      BY <2>3
    <3>3. streamer = NoSub /\ NoSub \in Subs => FALSE
      BY DEF LogStreamConstants
    <3> QED
      BY <2>1, <2>3, <3>1, <3>2, <3>3
  <2>4. \/ UNCHANGED <<streamer, logsExcused>> /\ sub' = [sub EXCEPT ![s] = "done"]
        \/ /\ streamer' = s /\ logsExcused \subseteq logsExcused' /\ logsExcused' \subseteq Subs
           /\ logsClient = "closed" => s \in logsExcused'
           /\ streamer # NoSub => streamer \in logsExcused'
    BY <1>3 DEF Logs!GetStreamer, Logs!Go
  <2> QED
    BY <2>2, <2>3, <2>4
<1>4. ASSUME NEW s \in Subs, Logs!Connect(s) PROVE Streaming'
  BY <1>4 DEF Logs!Connect, Logs!Go
<1>5. ASSUME NEW s \in Subs, Logs!Opens(s) PROVE Streaming'
  BY <1>5 DEF Logs!Opens
<1>6. ASSUME NEW s \in Subs, Logs!Closes(s) PROVE Streaming'
  <2>1. CASE should[s] /\ retry[s] < MaxRetries
    <3>1. /\ sock[s] # "none" /\ sock' = [sock EXCEPT ![s] = "none"]
          /\ retry' = [retry EXCEPT ![s] = @ + 1] /\ retry[s] + 1 \in 1 .. MaxRetries
          /\ timer' = [timer EXCEPT ![s] = TRUE]
          /\ UNCHANGED <<logsClient, sub, streamer, should, logsExcused, ended>>
      BY <1>6, <2>1 DEF Logs!Closes
    <3>2. /\ timer' \in [Subs -> BOOLEAN] /\ timer'[s] = TRUE
          /\ \A t \in Subs \ {s} : timer'[t] = timer[t]
      BY <3>1
    <3> QED
      BY <3>1, <3>2
  <2>2. CASE ~(should[s] /\ retry[s] < MaxRetries)
    BY <1>6, <2>2 DEF Logs!Closes
  <2> QED
    BY <2>1, <2>2
<1>7. ASSUME NEW s \in Subs, Logs!Reconnect(s) PROVE Streaming'
  BY <1>7 DEF Logs!Reconnect
<1>8. ASSUME NEW s \in Subs, Logs!Unhandled(s) PROVE Streaming'
  BY <1>8 DEF Logs!Unhandled
<1>9. CASE Logs!ClientCloses
  <2>1. CASE streamer = NoSub
    BY <1>9, <2>1 DEF Logs!ClientCloses
  <2>2. CASE streamer # NoSub
    <3>1. streamer \in Subs
      BY <2>2
    <3>2. Logs!TypeOK'
      <4>1. should' = [should EXCEPT ![streamer] = FALSE]
        BY <1>9, <2>2 DEF Logs!ClientCloses
      <4>2. should' \in [Subs -> BOOLEAN]
        BY <4>1
      <4>3. ended' \subseteq Subs /\ logsExcused' \subseteq Subs
        BY <1>9, <2>2, <3>1 DEF Logs!ClientCloses
      <4>4. /\ logsClient' = "closed" /\ streamer' = NoSub
            /\ sock' = [sock EXCEPT ![streamer] = "none"] /\ UNCHANGED <<sub, timer, retry>>
        BY <1>9, <2>2 DEF Logs!ClientCloses
      <4> QED
        BY <4>2, <4>3, <4>4
    <3> QED
      <4>1. /\ \A t \in Subs \ {streamer} : sock'[t] = sock[t]
            /\ sock'[streamer] = "none" /\ UNCHANGED <<sub, timer, retry>>
            /\ logsExcused \subseteq logsExcused' /\ logsClient = "open" /\ logsClient' = "closed"
            /\ timer[streamer] => streamer \in logsExcused'
            /\ ended' \subseteq ended \cup {t \in {streamer} : sock[t] # "none"}
        BY <1>9, <2>2, <3>1 DEF Logs!ClientCloses
      <4>2. PICK u \in Subs : u = streamer
        BY <3>1
      <4> QED
        BY <3>2, <4>1, <4>2
  <2> QED
    BY <2>1, <2>2
<1> QED
  BY <1>1, <1>2, <1>3, <1>4, <1>5, <1>6, <1>7, <1>8, <1>9 DEF Logs!Next, Logs!Handler

(* It holds before the first subscription.                                 *)
LEMMA StreamingInit ==
  ASSUME LogStreamConstants, Logs!Init PROVE Streaming
BY DEF Logs!Init, Streaming, Logs!TypeOK, LogStreamConstants, Before

(* With it every step keeps to the retries and leaves an ended streamer    *)
(* down.                                                                   *)
LEMMA StreamingGivesUp ==
  ASSUME LogStreamConstants, Streaming, [Logs!Next]_(Logs!vars) PROVE [Logs!GivesUp]_(Logs!vars)
<1> USE DEF Streaming, Logs!TypeOK, LogStreamConstants, Before, Logs!GivesUp
<1>2. ASSUME NEW s \in Subs, Logs!Subscribe(s) \/ Logs!GetJob(s) PROVE Logs!GivesUp
  BY <1>2 DEF Logs!Subscribe, Logs!GetJob, Logs!Go, Logs!Sockets
<1>3. ASSUME NEW s \in Subs, Logs!GetStreamer(s) PROVE Logs!GivesUp
  BY <1>3 DEF Logs!GetStreamer, Logs!Go, Logs!Sockets
<1>4. ASSUME NEW s \in Subs, Logs!Connect(s) PROVE Logs!GivesUp
  BY <1>4 DEF Logs!Connect, Logs!Go
<1>5. ASSUME NEW s \in Subs, Logs!Opens(s) PROVE Logs!GivesUp
  BY <1>5 DEF Logs!Opens
<1>6. ASSUME NEW s \in Subs, Logs!Closes(s) PROVE Logs!GivesUp
  BY <1>6 DEF Logs!Closes
<1>7. ASSUME NEW s \in Subs, Logs!Reconnect(s) PROVE Logs!GivesUp
  BY <1>7 DEF Logs!Reconnect
<1>8. ASSUME NEW s \in Subs, Logs!Unhandled(s) PROVE Logs!GivesUp
  BY <1>8 DEF Logs!Unhandled
<1>9. CASE Logs!ClientCloses
  BY <1>9 DEF Logs!ClientCloses
<1> QED
  BY <1>2, <1>3, <1>4, <1>5, <1>6, <1>7, <1>8, <1>9 DEF Logs!Next, Logs!Handler

-----------------------------------------------------------------------------
LogTailConstants == MaxAsks \in Nat

(* Who tails: the process runs behind the subscription and until the       *)
(* finally block, the websocket to the node is open during the relay.      *)
Tailing ==
  /\ Tail!TypeOK
  /\ process = "running" => endpoint \in {"wait", "finally"}
  /\ upstream = "open" => endpoint = "relay"

(* The invariant of a tail is inductive.                                   *)
LEMMA TailingStep ==
  ASSUME LogTailConstants, Tailing, [Tail!Next]_(Tail!vars) PROVE Tailing'
<1> USE DEF Tailing, Tail!TypeOK, LogTailConstants, Tail!Outside, Tail!StreamState
<1>1. CASE UNCHANGED Tail!vars
  BY <1>1 DEF Tail!vars
<1>2. CASE Tail!GetNodeLogStream \/ Tail!GetDeploymentLogStreamInfo \/ Tail!ReadNode \/ Tail!GetLogStreamingInfo
  BY <1>2 DEF Tail!GetNodeLogStream, Tail!GetDeploymentLogStreamInfo, Tail!ReadNode,
       Tail!GetLogStreamingInfo, Tail!Ask, Tail!To
<1>3. CASE Tail!JobChanges \/ Tail!Open \/ Tail!Leave \/ Tail!TailEnds \/ Tail!NodeCloses
  BY <1>3 DEF Tail!JobChanges, Tail!Open, Tail!Leave, Tail!TailEnds, Tail!NodeCloses
<1>4. CASE Tail!Endpoint
  BY <1>4 DEF Tail!Endpoint, Tail!Subscribe, Tail!StartTail, Tail!WaitForClient,
       Tail!GetNosanaSignature, Tail!ConnectNosana,
     Tail!RelayNosana, Tail!Finally, Tail!Step
<1> QED
  BY <1>1, <1>2, <1>3, <1>4 DEF Tail!Next

(* A tail that ended leaves nothing behind, by the invariant Tailing.      *)
LEMMA LogTailIsSafe ==
  ASSUME LogTailConstants
  PROVE  Tail!Spec => [](Tail!TypeOK /\ Tail!NothingTails)
<1>1. Tail!Init => Tailing
  BY DEF Tail!Init, Tailing, Tail!TypeOK, LogTailConstants
<1>2. Tailing /\ [Tail!Next]_(Tail!vars) => Tailing'
  BY TailingStep
<1>3. Tailing => Tail!TypeOK /\ Tail!NothingTails
  BY DEF Tailing, Tail!NothingTails
<1> QED
  BY <1>1, <1>2, <1>3, PTL DEF Tail!Spec

(* Constants of the three components, as the code gives them.              *)
ASSUME ExecutionAssumption == ChannelConstants /\ LogStreamConstants /\ LogTailConstants

-----------------------------------------------------------------------------
(* A worker's channel routes to connections that live, for any number of   *)
(* connections, sessions and commands.                                     *)
THEOREM ChannelIsSound == Chan!Spec => []ChannelSound
<1>1. Chan!TypeOK /\ Chan!NoDeadConn /\ Chan!LiveRegistered /\ Chan!StreamsHaveConn
      => ChannelSound
  BY DEF ChannelSound
<1> QED
  BY <1>1, ExecutionAssumption, ChannelRouting, PTL

(* Log paths leave no socket, process or websocket behind but for a known  *)
(* reason, for any number of subscriptions.                                *)
THEOREM LogsAreSound == Logs!Spec /\ Tail!Spec => []LogsSound
<1>1. Streaming => Logs!TypeOK /\ Logs!SocketLeakHasCause
  BY DEF Streaming, Logs!SocketLeakHasCause
<1>2. /\ Logs!TypeOK /\ Logs!SocketLeakHasCause
      /\ Tail!TypeOK /\ Tail!NothingTails
      => LogsSound
  BY DEF LogsSound
<1>3. Logs!Spec => []Streaming
  BY ExecutionAssumption, StreamingInit, StreamingStep, PTL DEF Logs!Spec
<1> QED
  BY <1>1, <1>2, <1>3, ExecutionAssumption, LogTailIsSafe, PTL

(* A revoked node stays revoked, and a log streamer gives up for good.     *)
THEOREM GivingUpLasts == Chan!Spec /\ Logs!Spec => GivenUpForGood
<1>1. Logs!Spec => []Streaming
  BY ExecutionAssumption, StreamingInit, StreamingStep, PTL DEF Logs!Spec
<1>2. /\ [Chan!RevokedForGood]_(Chan!vars)
      /\ Streaming /\ [Logs!Next]_(Logs!vars)
      => [Chan!RevokedForGood /\ Logs!GivesUp]_<<Chan!vars, Logs!vars>>
  <2> SUFFICES ASSUME [Chan!RevokedForGood]_(Chan!vars), Streaming, [Logs!Next]_(Logs!vars)
               PROVE  Chan!RevokedForGood /\ Logs!GivesUp
    OBVIOUS
  <2>1. UNCHANGED Chan!vars => Chan!RevokedForGood
    BY DEF Chan!vars, Chan!RevokedForGood
  <2>2. UNCHANGED Logs!vars => Logs!GivesUp
    BY DEF Logs!vars, Logs!GivesUp, Streaming
  <2>3. [Logs!GivesUp]_(Logs!vars)
    BY ExecutionAssumption, StreamingGivesUp
  <2> QED
    BY <2>1, <2>2, <2>3
<1> QED
  BY <1>1, <1>2, RevocationLasts, PTL DEF Logs!Spec, GivenUpForGood
=============================================================================
