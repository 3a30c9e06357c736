---------------------------- MODULE GatewayProxy ----------------------------
(***************************************************************************)
(* The gateway's HTTP proxy (api_gateway/gateway/proxy_routes.py): the     *)
(* permission a route asks for, the rate limit, the forwarded call through *)
(* one pool of upstream connections, and the streamed downloads of the     *)
(* model mirrors, which hold a connection for as long as they last.        *)
(* Paths are abstracted to the prefixes that _require_proxy_permission     *)
(* tells apart; headers and bodies are left out.                           *)
(***************************************************************************)
EXTENDS Naturals, FiniteSets

CONSTANTS
    Reqs,       \* requests
    MaxConns    \* max_connections of the proxy client

Reads == {"GET"}
Writes == {"POST", "PUT", "PATCH", "DELETE"}
Held == {"list", "create", "update", "delete"}

(* The routes that carry a user, with their methods. *)
Routes ==
    [deployments |-> Reads \cup Writes, nodes |-> Reads \cup Writes,
     providers |-> Reads, models |-> {"GET", "POST", "DELETE"},
     logs |-> Reads, resources |-> Reads, inventory |-> {"GET", "POST"},
     deletepool |-> {"POST"}, stoppool |-> {"POST"}, createpool |-> {"POST"},
     deployment |-> Reads \cup Writes, workers |-> {"GET", "POST", "DELETE"},
     engineami |-> {"GET", "POST"}, discovery |-> Reads]

(* The worker and mirror routes: no user, the upstream authenticates. *)
Passthrough == {"register", "hf", "v2", "llmfit"}
Streamed == {"hf", "v2"}

VARIABLES
    req,     \* what each request is and where it is
    open,    \* requests that hold an upstream connection
    begun    \* streams whose generator has started
vars == <<req, open, begun>>

Idle == [at |-> "idle", route |-> "none", method |-> "none", held |-> {}]

TypeOK ==
    /\ \A r \in Reqs :
          /\ req[r].at \in {"idle", "limit", "forward", "upstream", "stream",
                            "ok", "403", "429", "503", "gone"}
          /\ req[r].route \in Passthrough \cup {"none"}
          /\ req[r].method \in Reads \cup Writes \cup {"none"}
          /\ req[r].held \subseteq Held
    /\ open \subseteq Reqs /\ begun \subseteq open

Init ==
    /\ req = [r \in Reqs |-> Idle]
    /\ open = {} /\ begun = {}

Go(r, at) == req' = [req EXCEPT ![r].at = at]

-----------------------------------------------------------------------------
(* Permissions *)

(* GET, POST, PUT and PATCH, DELETE *)
ByMethod(method) ==
    CASE method = "GET" -> {"list"}
      [] method = "POST" -> {"create"}
      [] method \in {"PUT", "PATCH"} -> {"update"}
      [] method = "DELETE" -> {"delete"}

(* A mutant of RequireProxyPermission: the pool actions fall through to    *)
(* a permission that is not asked for.                                     *)
RequireAnyPermission(route, method) ==
    IF method = "POST" /\ route = "deployment" THEN {} ELSE ByMethod(method)

(* POST is an action of its own under /deployment/. *)
RequireProxyPermission(route, method) ==
    IF method # "POST" THEN ByMethod(method)
    ELSE CASE route \in {"deletepool", "stoppool"} -> {"delete"}
           [] route = "createpool" -> {"create"}
           [] route = "deployment" -> {"update"}
           [] OTHER -> ByMethod(method)

(* MODEL_LIST, MODEL_ADD, MODEL_DELETE *)
RequireModelsPermission(method) ==
    CASE method = "GET" -> {"list"}
      [] method = "POST" -> {"create"}
      [] method = "DELETE" -> {"delete"}

ProxyNodes(method) == ByMethod(method)
ProxyAdminWorkers(method) == ByMethod(method)
ProxyAdminEngineAmi(method) == IF method = "POST" THEN {"create"} ELSE {"list"}
ProxyAdminAwsDiscovery == {"list"}
ProxyProviders == {}

Required(route, method) ==
    CASE route = "providers" -> ProxyProviders
      [] route = "discovery" -> ProxyAdminAwsDiscovery
      [] route = "engineami" -> ProxyAdminEngineAmi(method)
      [] route = "workers" -> ProxyAdminWorkers(method)
      [] route = "nodes" -> ProxyNodes(method)
      [] route = "models" -> RequireModelsPermission(method)
      [] OTHER -> RequireProxyPermission(route, method)

-----------------------------------------------------------------------------
(* A request of a user *)

Receive(r) ==
    \E route \in DOMAIN Routes, held \in SUBSET Held :
        \E method \in Routes[route] :
            /\ req[r] = Idle
            /\ req' = [req EXCEPT ![r] =
                         IF Required(route, method) \subseteq held
                         THEN [Idle EXCEPT !.at = "limit", !.method = method, !.held = held]
                         ELSE [Idle EXCEPT !.at = "403"]]
            /\ UNCHANGED <<open, begun>>

(* Over the limit is 429; a limiter that cannot be asked lets it pass.     *)
(* From here on what a user's request was no longer matters.               *)
CheckRateLimit(r) ==
    /\ req[r].at = "limit"
    /\ \E limiter \in {"under", "over", "down"} :
          req' = [req EXCEPT ![r] = [Idle EXCEPT
                    !.at = IF limiter = "over" THEN "429" ELSE "forward"]]
    /\ UNCHANGED <<open, begun>>

(* register, llmfit and the mirrors go straight to the upstream.           *)
Unchecked(r, route) ==
    /\ req[r] = Idle
    /\ req' = [req EXCEPT ![r] = [Idle EXCEPT !.at = "forward", !.route = route]]
    /\ UNCHANGED <<open, begun>>

ProxyUnauthenticated(r) == Unchecked(r, "register")
ProxyLlmfitUnauthenticated(r) == Unchecked(r, "llmfit")
ProxyMirror(r) == \E route \in Streamed : Unchecked(r, route)

(* get_proxy_client: one client, one pool.                                 *)
ConnectionFree == Cardinality(open) < MaxConns

(* The pool hands out a connection, or the wait for one times out.         *)
Forward(r) ==
    /\ req[r].at = "forward"
    /\ \/ /\ ConnectionFree
          /\ open' = open \cup {r} /\ Go(r, "upstream")
       \/ ~ConnectionFree /\ Go(r, "503") /\ UNCHANGED open
    /\ UNCHANGED begun

(* A mutant of Answer: a failed call keeps its connection.                 *)
AnswerKeeps(r) ==
    /\ req[r].at = "upstream" /\ req[r].route \notin Streamed
    /\ \/ Go(r, "ok") /\ open' = open \ {r}
       \/ Go(r, "503") /\ UNCHANGED open
    /\ UNCHANGED begun

(* The response is read to its end, or the call fails; either way the      *)
(* connection goes back.                                                   *)
Answer(r) ==
    /\ req[r].at = "upstream" /\ req[r].route \notin Streamed
    /\ \E at \in {"ok", "503"} : Go(r, at)
    /\ open' = open \ {r}
    /\ UNCHANGED begun

-----------------------------------------------------------------------------
(* _streaming_passthrough *)

OpenStream(r) ==
    /\ req[r].at = "upstream" /\ req[r].route \in Streamed
    /\ \/ Go(r, "stream") /\ UNCHANGED open
       \/ Go(r, "503") /\ open' = open \ {r}
    /\ UNCHANGED begun

StartStream(r) ==
    /\ req[r].at = "stream" /\ r \notin begun
    /\ begun' = begun \cup {r}
    /\ UNCHANGED <<req, open>>

(* The body ends, the upstream fails or the caller leaves: the finally of  *)
(* the generator closes the upstream.                                      *)
EndStream(r) ==
    /\ r \in begun
    /\ \E at \in {"ok", "gone"} : Go(r, at)
    /\ open' = open \ {r} /\ begun' = begun \ {r}

(* The caller leaves before the generator starts: its finally never runs.  *)
Abandon(r) ==
    /\ req[r].at = "stream" /\ r \notin begun
    /\ Go(r, "gone")
    /\ UNCHANGED <<open, begun>>

(* The interpreter finalises the abandoned stream context. *)
Collect(r) ==
    /\ req[r].at = "gone" /\ r \in open
    /\ open' = open \ {r}
    /\ UNCHANGED <<req, begun>>

Step(r) ==
    CheckRateLimit(r) \/ Forward(r) \/ Answer(r) \/ OpenStream(r) \/ StartStream(r)
    \/ EndStream(r)

Next ==
    \E r \in Reqs :
        \/ Receive(r) \/ ProxyUnauthenticated(r) \/ ProxyLlmfitUnauthenticated(r)
        \/ ProxyMirror(r) \/ Step(r) \/ Abandon(r) \/ Collect(r)

Spec == Init /\ [][Next]_vars

(* The event loop runs each request; calls have timeouts, streams end, and *)
(* objects nobody refers to are collected.                                 *)
Fairness == \A r \in Reqs : WF_vars(Step(r)) /\ WF_vars(Collect(r))
FairSpec == Spec /\ Fairness

-----------------------------------------------------------------------------
(* Whatever the route, a request that changes something passes only        *)
(* for a caller who holds more than the right to look: a DELETE needs a    *)
(* delete permission, any other write a permission besides list.           *)
WritesPermitted ==
    \A r \in Reqs :
        req[r].at = "limit" /\ req[r].method \in Writes =>
            IF req[r].method = "DELETE" THEN "delete" \in req[r].held
            ELSE req[r].held \ {"list"} # {}

(* No request holds a connection for ever: errors, departures and streams  *)
(* nobody iterates give it back, so the pool refills.                      *)
ConnectionsReturn == \A r \in Reqs : []<>(r \notin open)
=============================================================================
