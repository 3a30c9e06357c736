SPECIFICATION FairSpec
CONSTANTS
  Parts = {"inference", "model_cache", "api_keys", "token_context", "rate_limits", "gateway_proxy", "gateway_relay"}
  Reqs = {r1, r2}
  Streaming = {r2}
  NoReq = NoReq
  GlobalLimit = 2
  DepLimit = 1
  Threshold = 1
  Quota = 1
  MaxExpiries = 1
  Tasks = {t1}
  MirrorReqs = {m1}
  None = None
  Named = TRUE
  MaxFaults = 1
  Services = {s1, s2}
  Kinds = {"key", "sandbox"}
  MaxKeyChanges = 1
  Custom = {"custom"}
  MaxChanges = 3
  Backends = {"bucket", "redis", "auth"}
  Limit = 2
  Rate = 1
  Window = 3
  Block = 4
  Ttl = 4
  MaxTime = 6
  MaxPerTick = 3
  MaxConns = 1
  MaxFrames = 2
INVARIANT RequestsServed
 
INVARIANT ContextsTrue
INVARIANT GatewaySound
 
 
\* Most components come to rest when everything asked of them is done.
CHECK_DEADLOCK FALSE
