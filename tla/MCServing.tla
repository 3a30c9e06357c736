------------------------------ MODULE MCServing ------------------------------
(***************************************************************************)
(* The components a request of a user or of a worker passes through,       *)
(* checked together: the inference service, the model cache and its        *)
(* mirror, API keys, the permissions of a bearer token, the rate limiters  *)
(* and the gateway's HTTP proxy and websocket relay.  They share no state  *)
(* that their modules model, so a behaviour of the sum is a behaviour of   *)
(* one of them; `part` says of which.  The model cache, the contexts of    *)
(* keys and tokens, their properties and the proofs are in ServingProofs.  *)
(***************************************************************************)
EXTENDS ServingProofs, FiniteSets

CONSTANTS
  Parts,                                           \* the components to check
  Streaming, NoReq, GlobalLimit, DepLimit, Threshold, Quota, MaxExpiries,  \* Inference
  Backends, Limit, Rate, Window, Block, Ttl, MaxTime, MaxPerTick,  \* RateLimits
  MaxConns,                                        \* GatewayProxy
  MaxFrames                                        \* GatewayRelay

VARIABLE part   \* the component that runs

\* The inference service (Inference)
VARIABLES
  inferReq, inferTask, flight, inferCache, neg, free, dep, cur, breaker, used,
  inferLog, inferExcused
Infer == INSTANCE Inference WITH
  req <- inferReq, task <- inferTask, cache <- inferCache, log <- inferLog,
  excused <- inferExcused
inferVars ==
  <<inferReq, inferTask, flight, inferCache, neg, free, dep, cur, breaker,
  used, inferLog, inferExcused>>

\* The three components of ServingProofs
cacheVars ==
  <<row, at, cid, current, cancel, awaits, disk, ino, fd, pos, del, evict,
  cacheFaults, cacheExcused>>
keyVars ==
  <<kind, key, clock, past, gateway, service, call, keyFaults>>
tokenVars ==
  <<roleOf, perms, tokenCache, tokenReq, changes>>

\* Rate limiters (RateLimits)
VARIABLES
  backend, now, bucket, zset, entry, rateReq, rateLog, refused, rateExcused
Rates == INSTANCE RateLimits WITH
  req <- rateReq, log <- rateLog, excused <- rateExcused
rateVars ==
  <<backend, now, bucket, zset, entry, rateReq, rateLog, refused,
  rateExcused>>

\* The gateway's HTTP proxy (GatewayProxy)
VARIABLES
  proxyReq, open, begun
Proxy == INSTANCE GatewayProxy WITH
  req <- proxyReq
proxyVars ==
  <<proxyReq, open, begun>>

\* The gateway's websocket relay (GatewayRelay)
VARIABLES
  stage, client, upstream, relayTask, sent, got, stalled, first
Relay == INSTANCE GatewayRelay WITH
  task <- relayTask
relayVars ==
  <<stage, client, upstream, relayTask, sent, got, stalled, first>>

\* The parts that do not run rest in their initial states.
Rest(p) ==
  /\ UNCHANGED part
  /\ IF p = "inference" THEN TRUE ELSE UNCHANGED inferVars
  /\ IF p = "model_cache" THEN TRUE ELSE UNCHANGED cacheVars
  /\ IF p = "api_keys" THEN TRUE ELSE UNCHANGED keyVars
  /\ IF p = "token_context" THEN TRUE ELSE UNCHANGED tokenVars
  /\ IF p = "rate_limits" THEN TRUE ELSE UNCHANGED rateVars
  /\ IF p = "gateway_proxy" THEN TRUE ELSE UNCHANGED proxyVars
  /\ IF p = "gateway_relay" THEN TRUE ELSE UNCHANGED relayVars

vars == <<part, inferVars, cacheVars, keyVars, tokenVars, rateVars, proxyVars,
          relayVars>>

\* One initial state is enough for a part that does not run.
Resting ==
  /\ part # "api_keys" => kind = "key"
  /\ part # "token_context" => roleOf = "member"
  /\ part # "rate_limits" => backend = "bucket"

Init ==
  /\ part \in Parts
  /\ Infer!Init
  /\ Cache!Init
  /\ Key!Init
  /\ Token!Init
  /\ Rates!Init
  /\ Proxy!Init
  /\ Relay!Init
  /\ Resting

Next ==
  \/ part = "inference" /\ Infer!Next /\ Rest("inference")
  \/ part = "model_cache" /\ Cache!Next /\ Rest("model_cache")
  \/ part = "api_keys" /\ Key!Next /\ Rest("api_keys")
  \/ part = "token_context" /\ Token!Next /\ Rest("token_context")
  \/ part = "rate_limits" /\ Rates!Next /\ Rest("rate_limits")
  \/ part = "gateway_proxy" /\ Proxy!Next /\ Rest("gateway_proxy")
  \/ part = "gateway_relay" /\ Relay!Next /\ Rest("gateway_relay")

Spec == Init /\ [][Next]_vars

\* The fairness of each component, for the part that runs.
Fairness ==
  /\ \A r \in Reqs : WF_inferVars(part = "inference" /\ Infer!Handler(r))
  /\ \A r \in Reqs, l \in Infer!Lookups : WF_inferVars(part = "inference" /\ Infer!TaskFails(r, l))
  /\ \A t \in Tasks : 
       WF_cacheVars(part = "model_cache" /\ (Cache!TaskStep(t) \/ Cache!WriteChunk(t)))
  /\ \A r \in MirrorReqs : 
       WF_cacheVars(part = "model_cache" /\ (Cache!ReqStep(r) \/ Cache!WriteChunk(r)))
  /\ WF_cacheVars(part = "model_cache" /\ Cache!DeleteRow)
  /\ WF_cacheVars(part = "model_cache" /\ Cache!EvictRow)
  /\ SF_keyVars(part = "api_keys" /\ Key!ContextCacheExpires)
  /\ \A s \in Services : WF_keyVars(part = "api_keys" /\ Key!Resolve(s))
  /\ \A s \in Services : SF_keyVars(part = "api_keys" /\ Key!ClientCacheExpires(s))
  /\ \A r \in Reqs : 
       WF_tokenVars(part = "token_context" /\ (Token!ResolveLocalToken(r) \/ Token!StoreContext(r)))
  /\ WF_tokenVars(part = "token_context" /\ Token!TtlExpires)
  /\ \A r \in Reqs : WF_proxyVars(part = "gateway_proxy" /\ Proxy!Step(r))
  /\ \A r \in Reqs : WF_proxyVars(part = "gateway_proxy" /\ Proxy!Collect(r))
  /\ WF_relayVars(part = "gateway_relay" /\ Relay!Handler)
  /\ \A d \in Relay!Dirs : WF_relayVars(part = "gateway_relay" /\ Relay!Task(d))
  /\ WF_relayVars(part = "gateway_relay" /\ Relay!Keepalive)

FairSpec == Spec /\ Fairness

-----------------------------------------------------------------------------
\* A completion request: upstream slots and their holders add up, a
\* deployment's limit is exceeded only after its semaphore expired while
\* held, concurrent requests of a key share one lookup of each kind, more
\* requests than the quota are served only for a known reason, and a use is
\* counted at most once and only for an answer.
RequestsServed ==
  /\ Infer!TypeOK
  /\ Infer!SlotsConserved
  /\ Infer!DeploymentLimit
  /\ Infer!OneLookup
  /\ Infer!OverQuotaHasCause
  /\ Infer!CountedOnce

\* The gateway: the token bucket admits no more than its burst and its
\* refill, a sliding window holds no more than the limit, a fixed window
\* admits at most twice the limit in its length, and a block refuses
\* everything until it ends; a request that changes something passes only
\* with more than the right to look; and what a peer of a relayed socket sent
\* before it left reaches the other one.
GatewaySound ==
  /\ Rates!TypeOK
  /\ Rates!BucketRate
  /\ Rates!SlidingWindow
  /\ Rates!AuthWindow
  /\ Rates!BlockHolds
  /\ Proxy!TypeOK
  /\ Proxy!WritesPermitted
  /\ Relay!TypeOK
  /\ Relay!LastFramesArrive

=============================================================================
