---------------------------- MODULE GatewayRelay ----------------------------
(***************************************************************************)
(* The gateway's WebSocket relay (api_gateway/gateway/proxy_routes.py):    *)
(* /deployment/ws, /v1/workers/channel and /admin/workers/{id}/logs|shell. *)
(* The three handlers authenticate differently and relay alike: one task   *)
(* per direction, the first that ends cancels the other, and both sockets  *)
(* are closed.  A frame is a number; `sent` and `got` count the frames of  *)
(* a direction; a task in "pass" has read one it has not yet passed on.    *)
(* One connection is modelled: connections share nothing.                  *)
(***************************************************************************)
EXTENDS Naturals

CONSTANTS MaxFrames      \* frames a peer sends in one direction

Dirs == {"up", "down"}
SocketKinds == {"deployment", "worker", "logs", "shell"}
Perms == {"list", "update"}
NotYet == <<"none", "none">>

VARIABLES
    stage,      \* where the handler is
    client,     \* the caller's socket: open, left (by the peer), closed (by us)
    upstream,   \* the socket to the orchestration service
    task,       \* per direction: idle, read, pass, ended, cancelled
    sent, got,  \* per direction: frames sent by one peer, received by the other
    stalled,    \* peers that have stopped reading
    first       \* the direction whose task ended first, and how

vars == <<stage, client, upstream, task, sent, got, stalled, first>>

Source(d) == IF d = "up" THEN client ELSE upstream
Sink(d) == IF d = "up" THEN upstream ELSE client
Far(d) == IF d = "up" THEN "upstream" ELSE "client"

TypeOK ==
    /\ stage \in {"start", "accepted", "relay", "closing", "closed"}
    /\ client \in {"open", "left", "closed"}
    /\ upstream \in {"none", "open", "left", "closed"}
    /\ task \in [Dirs -> {"idle", "read", "pass", "ended", "cancelled"}]
    /\ sent \in [Dirs -> 0 .. MaxFrames] /\ got \in [Dirs -> 0 .. MaxFrames]
    /\ stalled \subseteq {"client", "upstream"}
    /\ first \in {NotYet} \cup (Dirs \X {"drained", "raised"})

Init ==
    /\ stage = "start" /\ client = "open" /\ upstream = "none"
    /\ task = [d \in Dirs |-> "idle"]
    /\ sent = [d \in Dirs |-> 0] /\ got = [d \in Dirs |-> 0]
    /\ stalled = {} /\ first = NotYet

Wires == <<task, sent, got, stalled, first>>

-----------------------------------------------------------------------------
(* Connecting.  A refusal closes the socket before it is accepted; the     *)
(* permission is read once, here.                                          *)

Admit(ok) ==
    /\ stage = "start"
    /\ IF ok THEN stage' = "accepted" /\ UNCHANGED client
       ELSE stage' = "closed" /\ client' = "closed"
    /\ UNCHANGED <<upstream, Wires>>

ProxyDeploymentWs(valid, held) == Admit(valid /\ "list" \in held)

(* The worker's own token is forwarded; only its presence is checked here. *)
ProxyWorkerChannel(present) == Admit(present)

ProxyAdminWorkersWs(kind, valid, held) ==
    Admit(valid /\ (IF kind = "shell" THEN "update" ELSE "list") \in held)

Connect(kind) ==
    \E valid \in BOOLEAN, held \in SUBSET Perms :
        \/ kind = "deployment" /\ ProxyDeploymentWs(valid, held)
        \/ kind = "worker" /\ ProxyWorkerChannel(valid)
        \/ kind \in {"logs", "shell"} /\ ProxyAdminWorkersWs(kind, valid, held)

(* websockets.connect: the upstream may be down or refuse the upgrade.     *)
ConnectUpstream ==
    /\ stage = "accepted"
    /\ \/ stage' = "relay" /\ upstream' = "open"
          /\ task' = [d \in Dirs |-> "read"]
       \/ stage' = "closing" /\ UNCHANGED <<upstream, task>>
    /\ UNCHANGED <<client, sent, got, stalled, first>>

-----------------------------------------------------------------------------
(* The two tasks *)

(* websocket.receive, async for: frames come in order, before the close.   *)
Forward(d) ==
    /\ task[d] = "read" /\ stage = "relay"
    /\ sent[d] > got[d]
    /\ task' = [task EXCEPT ![d] = "pass"]
    /\ UNCHANGED <<stage, client, upstream, sent, got, stalled, first>>

End(d, how) ==
    /\ task' = [task EXCEPT ![d] = "ended"]
    /\ first' = IF first = NotYet THEN <<d, how>> ELSE first

(* send blocks while the far peer does not read, and raises once its       *)
(* socket is gone.                                                         *)
Pass(d) ==
    /\ task[d] = "pass" /\ stage = "relay"
    /\ \/ /\ Sink(d) = "open" /\ Far(d) \notin stalled
          /\ got' = [got EXCEPT ![d] = @ + 1]
          /\ task' = [task EXCEPT ![d] = "read"] /\ UNCHANGED first
       \/ Sink(d) # "open" /\ End(d, "raised") /\ UNCHANGED got
    /\ UNCHANGED <<stage, client, upstream, sent, stalled>>

(* A mutant of Drained: the departure is noticed before the frames the     *)
(* peer sent earlier are passed on.                                        *)
DrainedHasty(d) ==
    /\ task[d] = "read" /\ stage = "relay"
    /\ Source(d) = "left"
    /\ End(d, "drained")
    /\ UNCHANGED <<stage, client, upstream, sent, got, stalled>>

(* The source has left and everything it sent has been read.               *)
Drained(d) ==
    /\ task[d] = "read" /\ stage = "relay"
    /\ Source(d) = "left" /\ sent[d] = got[d]
    /\ End(d, "drained")
    /\ UNCHANGED <<stage, client, upstream, sent, got, stalled>>

(* A mutant of FirstCompleted: both tasks are awaited.                     *)
BothCompleted ==
    /\ stage = "relay" /\ \A d \in Dirs : task[d] = "ended"
    /\ stage' = "closing"
    /\ UNCHANGED <<client, upstream, Wires>>

(* asyncio.wait(FIRST_COMPLETED): the other task is cancelled where it is. *)
FirstCompleted ==
    /\ stage = "relay" /\ \E d \in Dirs : task[d] = "ended"
    /\ stage' = "closing"
    /\ task' = [d \in Dirs |-> IF task[d] = "ended" THEN "ended" ELSE "cancelled"]
    /\ UNCHANGED <<client, upstream, sent, got, stalled, first>>

(* Leaving `async with` closes the upstream, `finally` the client.         *)
Close ==
    /\ stage = "closing"
    /\ stage' = "closed"
    /\ upstream' = IF upstream = "none" THEN "none" ELSE "closed"
    /\ client' = "closed"
    /\ UNCHANGED Wires

-----------------------------------------------------------------------------
(* The peers.  A peer that leaves stops reading and writing; keepalive     *)
(* pings turn a peer that has stopped reading into one that has left.      *)

PeerSends(d) ==
    /\ Source(d) = "open" /\ upstream = "open" /\ sent[d] < MaxFrames
    /\ sent' = [sent EXCEPT ![d] = @ + 1]
    /\ UNCHANGED <<stage, client, upstream, task, got, stalled, first>>

ClientLeaves ==
    /\ client = "open" /\ client' = "left"
    /\ UNCHANGED <<stage, upstream, Wires>>

UpstreamLeaves ==
    /\ upstream = "open" /\ upstream' = "left"
    /\ UNCHANGED <<stage, client, Wires>>

PeerStalls(p) ==
    /\ p \notin stalled /\ upstream = "open" /\ client = "open"
    /\ stalled' = stalled \cup {p}
    /\ UNCHANGED <<stage, client, upstream, task, sent, got, first>>

Keepalive ==
    /\ stage = "relay"
    /\ \/ "client" \in stalled /\ ClientLeaves
       \/ "upstream" \in stalled /\ UpstreamLeaves

Task(d) == Forward(d) \/ Pass(d) \/ Drained(d)

Handler == ConnectUpstream \/ FirstCompleted \/ Close

Next ==
    \/ \E kind \in SocketKinds : Connect(kind)
    \/ Handler
    \/ \E d \in Dirs : Task(d) \/ PeerSends(d)
    \/ ClientLeaves \/ UpstreamLeaves \/ Keepalive
    \/ \E p \in {"client", "upstream"} : PeerStalls(p)

Spec == Init /\ [][Next]_vars

(* The event loop runs what is ready; keepalive is the libraries' default. *)
Fairness ==
    /\ WF_vars(Handler)
    /\ \A d \in Dirs : WF_vars(Task(d))
    /\ WF_vars(Keepalive)

FairSpec == Spec /\ Fairness

-----------------------------------------------------------------------------
(* What a peer sent before it left has reached the other one when its      *)
(* departure is what ended the relay: the last command a worker or a shell *)
(* wrote before closing is not cut off by the cancellation.                *)
LastFramesArrive ==
    \A d \in Dirs :
        stage = "closed" /\ first = <<d, "drained">> => got[d] = sent[d]

(* Neither side is left half open: whichever peer leaves, is found stalled *)
(* or cannot be reached, the handler ends and both sockets are closed.     *)
RelayEnds ==
    ((client = "left" /\ stage # "start") \/ upstream = "left" \/ stalled # {})
          ~> (stage = "closed" /\ client = "closed" /\ upstream \in {"none", "closed"})
=============================================================================
