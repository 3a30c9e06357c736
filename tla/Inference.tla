------------------------------ MODULE Inference ------------------------------
(***************************************************************************)
(* The inference gateway: what happens to a request between its arrival    *)
(* and its entry in the usage counters.  A request resolves its context    *)
(* and its quota through the API gateway (client.py: cached, and shared    *)
(* while in flight), passes the rate limit, the upstream's circuit breaker *)
(* and two semaphores (concurrency_limiter.py), calls the model's endpoint *)
(* (service.py) and leaves a log task behind (request_logger.py), which    *)
(* reaches the quota counters of the API gateway (policy/engine.py).       *)
(*                                                                         *)
(* The model has one API key, one model and one deployment, so each cache  *)
(* and each registry has one key.  A coroutine runs without interruption   *)
(* between two awaits, so a step is the code from one await to the next.   *)
(* Whether a timeout has passed or an entry's time to live is over is a    *)
(* choice of its own; so is every answer of a remote party.  "standard"    *)
(* stands for completions without streaming, embeddings, images and        *)
(* videos, which all go through call_upstream; "stream" for                *)
(* stream_upstream.                                                        *)
(***************************************************************************)
EXTENDS Integers, FiniteSets

CONSTANTS Reqs,          \* the requests
          Streaming,     \* those that ask for a stream
          NoReq,         \* no request: nothing in flight
          GlobalLimit,   \* upstream_global_max_in_flight
          DepLimit,      \* upstream_per_deployment_max_in_flight
          Threshold,     \* failure_threshold of both breakers
          Quota,         \* the daily request limit of the key
          MaxExpiries    \* bound: how often the semaphore entry expires

VARIABLES req,      \* per request [at, kind, awaits, sem, out]
          task,     \* per lookup, the task each request created
          flight,   \* per lookup, the owner of the task in the in-flight map
          cache,    \* per lookup, whether the local cache holds an answer
          neg,      \* per lookup, whether a failed connection is remembered
          free,     \* permits of the global semaphore
          dep,      \* permits of each generation of the deployment's semaphore
          cur,      \* the generation the registry holds
          breaker,  \* [upstream, redis_quota -> [st, fails]]
          used,     \* the request counter in Redis
          log,      \* per request, its log task: none, due, counted, lost
          excused   \* causes that let more than Quota requests through

vars == <<req, task, flight, cache, neg, free, dep, cur, breaker, used, log, excused>>

Lookups == {"ctx", "quota"}
Generations == 0 .. MaxExpiries
New == [at |-> "new", kind |-> "standard", awaits |-> NoReq, sem |-> 0, out |-> "none"]

Init == /\ req = [r \in Reqs |-> New]
        /\ task = [l \in Lookups |-> [r \in Reqs |-> "none"]]
        /\ flight = [l \in Lookups |-> NoReq]
        /\ cache = [l \in Lookups |-> FALSE]
        /\ neg = [l \in Lookups |-> FALSE]
        /\ free = GlobalLimit
        /\ dep = [g \in Generations |-> DepLimit]
        /\ cur = 0
        /\ breaker = [b \in {"upstream", "redis_quota"} |-> [st |-> "closed", fails |-> 0]]
        /\ used = 0
        /\ log = [r \in Reqs |-> "none"]
        /\ excused = {}

-----------------------------------------------------------------------------
(* The circuit breaker.  Passes is _can_execute: what a breaker may become *)
(* for a caller it lets through, empty when it refuses.                    *)

Passes(b) == IF b.st = "open" THEN {[b EXCEPT !.st = "half_open"]} ELSE {b}

RecordSuccess(b) == [st |-> IF b.st = "half_open" THEN "closed" ELSE b.st, fails |-> 0]

RecordFailure(b) ==
  [st |-> IF b.st = "half_open" \/ b.fails + 1 >= Threshold THEN "open" ELSE b.st,
   fails |-> IF b.fails < Threshold THEN b.fails + 1 ELSE b.fails]

-----------------------------------------------------------------------------
(* Shared lookups of client.py: resolve_context and check_quota.           *)

\* A mutant: every request looks up for itself.
EnterAlone(r, l, next) ==
  /\ req' = [req EXCEPT ![r] = [next EXCEPT !.at = l, !.awaits = r]]
  /\ flight' = [flight EXCEPT ![l] = r]
  /\ task' = [task EXCEPT ![l][r] = "running"]

\* A request joins the task in flight or creates one.
Enter(r, l, next) ==
  /\ req' = [req EXCEPT ![r] = [next EXCEPT !.at = l,
                 !.awaits = IF flight[l] = NoReq THEN r ELSE flight[l]]]
  /\ flight' = IF flight[l] = NoReq THEN [flight EXCEPT ![l] = r] ELSE flight
  /\ task' = IF flight[l] = NoReq THEN [task EXCEPT ![l][r] = "running"] ELSE task

\* The finally block: only the owner takes its task out of the map.
Leave(r, l) ==
  flight' = IF req[r].awaits = r /\ flight[l] = r THEN [flight EXCEPT ![l] = NoReq]
                                                  ELSE flight

\* The task: a remembered connection failure answers at once; otherwise the
\* API gateway answers, or cannot be reached and that is remembered.
TaskFails(r, l) ==
  /\ task[l][r] = "running"
  /\ task' = [task EXCEPT ![l][r] = "bad"]
  /\ \/ UNCHANGED neg
     \/ ~neg[l] /\ neg' = [neg EXCEPT ![l] = TRUE]
  /\ UNCHANGED <<req, flight, cache, free, dep, cur, breaker, used, log, excused>>

\* /context/resolve: a valid answer is cached by the task, an invalid one is not.
ContextAnswers(r) ==
  /\ task["ctx"][r] = "running" /\ ~neg["ctx"]
  /\ \/ task' = [task EXCEPT !["ctx"][r] = "ok"] /\ cache' = [cache EXCEPT !["ctx"] = TRUE]
     \/ task' = [task EXCEPT !["ctx"][r] = "bad"] /\ UNCHANGED cache
  /\ UNCHANGED <<req, flight, neg, free, dep, cur, breaker, used, log, excused>>

\* Somebody was let through and is not in the counter yet.
Uncounted(r) ==
  \E q \in Reqs \ {r} : \/ req[q].at \in {"breaker", "global", "dep", "upstream", "body"}
                        \/ log[q] = "due"

Overlap(r) == IF Uncounted(r) THEN {"concurrent"} ELSE {}

\* /policy/check_quota: the counter is compared with the limit, but a Redis
\* error or an open breaker lets the request through.
QuotaAnswer(b, ok, cause) ==
  /\ breaker' = [breaker EXCEPT !["redis_quota"] = b]
  /\ \E r \in Reqs : /\ task["quota"][r] = "running" /\ ~neg["quota"]
                     /\ task' = [task EXCEPT !["quota"][r] = IF ok THEN "ok" ELSE "bad"]
                     /\ excused' = excused \cup cause \cup Overlap(r)
  /\ UNCHANGED <<req, flight, cache, neg, free, dep, cur, used, log>>

(* A mutant: an off-by-one. *)
WithinQuotaInclusive == used <= Quota

WithinQuota == used < Quota

QuotaAnswers ==
  \/ \E b \in Passes(breaker["redis_quota"]) :
       \/ QuotaAnswer(RecordSuccess(b), WithinQuota, {})
       \/ QuotaAnswer(RecordFailure(b), TRUE, {"redis"})
  \/ breaker["redis_quota"].st = "open" /\ QuotaAnswer(breaker["redis_quota"], TRUE, {"redis"})

-----------------------------------------------------------------------------
(* The handlers, up to the upstream call.                                  *)

\* A mutant: every request is logged.
FinishLogsAll(r, out) ==
  /\ req' = [req EXCEPT ![r].at = "done", ![r].out = out, ![r].awaits = NoReq, ![r].sem = 0]
  /\ log' = [log EXCEPT ![r] = "due"]

\* The wrapper of a stream schedules RequestLogger.log whatever happened.
StreamingLogs(r, out) == req[r].kind = "stream" /\ out \in {"ok", "cut"}

\* The others add it to the background tasks of the response in any case, but
\* those of a request that raises are never run.
StandardLogs(r, out) == req[r].kind = "standard" /\ out = "ok"

\* A handler ends.
Finish(r, out) ==
  /\ req' = [req EXCEPT ![r].at = "done", ![r].out = out, ![r].awaits = NoReq, ![r].sem = 0]
  /\ log' = IF StreamingLogs(r, out) \/ StandardLogs(r, out)
              THEN [log EXCEPT ![r] = "due"] ELSE log

Arrive(r) ==
  /\ req[r].at = "new"
  /\ LET next == [New EXCEPT !.kind = IF r \in Streaming THEN "stream" ELSE "standard"] IN
       \/ /\ cache["ctx"]
          /\ req' = [req EXCEPT ![r] = [next EXCEPT !.at = "rate"]]
          /\ UNCHANGED <<task, flight>>
       \/ ~cache["ctx"] /\ Enter(r, "ctx", next)
  /\ UNCHANGED <<cache, neg, free, dep, cur, breaker, used, log, excused>>

Admit(r, cause) ==
  /\ req' = [req EXCEPT ![r].at = "breaker", ![r].awaits = NoReq]
  /\ excused' = excused \cup cause \cup Overlap(r)

\* A mutant: only the request that created the task is woken.
ResolvedOwner(r) ==
  /\ req[r].at = "ctx" /\ task["ctx"][r] \in {"ok", "bad"}
  /\ Leave(r, "ctx")
  /\ \/ /\ task["ctx"][r] = "ok"
        /\ req' = [req EXCEPT ![r].at = "rate", ![r].awaits = NoReq]
        /\ UNCHANGED log
     \/ task["ctx"][r] = "bad" /\ Finish(r, "refused")
  /\ UNCHANGED <<task, cache, neg, free, dep, cur, breaker, used, excused>>

Resolved(r) ==
  /\ req[r].at = "ctx" /\ task["ctx"][req[r].awaits] \in {"ok", "bad"}
  /\ Leave(r, "ctx")
  /\ \/ /\ task["ctx"][req[r].awaits] = "ok"
        /\ req' = [req EXCEPT ![r].at = "rate", ![r].awaits = NoReq]
        /\ UNCHANGED log
     \/ task["ctx"][req[r].awaits] = "bad" /\ Finish(r, "refused")
  /\ UNCHANGED <<task, cache, neg, free, dep, cur, breaker, used, excused>>

\* The rate limit, then the quota lookup.
RateLimit(r) ==
  /\ req[r].at = "rate"
  /\ \/ Finish(r, "refused") /\ UNCHANGED <<task, flight, excused>>
     \/ cache["quota"] /\ Admit(r, {"cached"}) /\ UNCHANGED <<task, flight, log>>
     \/ ~cache["quota"] /\ Enter(r, "quota", req[r]) /\ UNCHANGED <<excused, log>>
  /\ UNCHANGED <<cache, neg, free, dep, cur, breaker, used>>

\* Every request that awaited a successful check caches it.
QuotaChecked(r) ==
  /\ req[r].at = "quota" /\ task["quota"][req[r].awaits] \in {"ok", "bad"}
  /\ Leave(r, "quota")
  /\ \/ /\ task["quota"][req[r].awaits] = "ok"
        /\ Admit(r, IF req[r].awaits = r THEN {} ELSE {"concurrent"})
        /\ cache' = [cache EXCEPT !["quota"] = TRUE]
        /\ UNCHANGED log
     \/ /\ task["quota"][req[r].awaits] = "bad"
        /\ Finish(r, "refused")
        /\ UNCHANGED <<cache, excused>>
  /\ UNCHANGED <<task, neg, free, dep, cur, breaker, used>>

-----------------------------------------------------------------------------
(* The upstream call: breaker, slots, request, body.                       *)

Rest == UNCHANGED <<task, flight, cache, neg, used, excused>>

\* The context manager's exit: what r holds is released.
ReleaseDepOnly(r) ==
  /\ dep' = IF req[r].at = "upstream" THEN [dep EXCEPT ![req[r].sem] = @ + 1] ELSE dep
  /\ UNCHANGED free

Release(r) ==
  /\ dep' = IF req[r].at = "upstream" THEN [dep EXCEPT ![req[r].sem] = @ + 1] ELSE dep
  /\ free' = IF req[r].at \in {"dep", "upstream"} THEN free + 1 ELSE free

\* An endpoint that fails validation or a breaker that refuses ends the
\* request before it asks for a slot; a stream says so in its body.
Refused(r) == Finish(r, IF req[r].kind = "stream" THEN "cut" ELSE "failed")

Breaker(r) ==
  /\ req[r].at = "breaker"
  /\ \/ Refused(r) /\ UNCHANGED breaker
     \/ \E b \in Passes(breaker["upstream"]) :
          /\ breaker' = [breaker EXCEPT !["upstream"] = b]
          /\ req' = [req EXCEPT ![r].at = "global"]
          /\ UNCHANGED log
  /\ UNCHANGED <<free, dep, cur>> /\ Rest

\* With a global slot the request looks its deployment's semaphore up.
AcquireGlobal(r) ==
  /\ req[r].at = "global" /\ free > 0
  /\ free' = free - 1
  /\ req' = [req EXCEPT ![r].at = "dep", ![r].sem = cur]
  /\ UNCHANGED <<dep, cur, breaker, log>> /\ Rest

(* A mutant: no slot is taken. *)
AcquireAlways(r) ==
  /\ req[r].at = "dep"
  /\ req' = [req EXCEPT ![r].at = "upstream"]
  /\ UNCHANGED <<dep, free, cur, breaker, log>> /\ Rest

Acquire(r) ==
  /\ req[r].at = "dep" /\ dep[req[r].sem] > 0
  /\ dep' = [dep EXCEPT ![req[r].sem] = @ - 1]
  /\ req' = [req EXCEPT ![r].at = "upstream"]
  /\ UNCHANGED <<free, cur, breaker, log>> /\ Rest

\* No slot in time: 429.  A stream counts it as a failure of the upstream.
SlotTimeout(r) ==
  /\ req[r].at \in {"global", "dep"}
  /\ Release(r)
  /\ Refused(r)
  /\ breaker' = IF req[r].kind = "stream"
                  THEN [breaker EXCEPT !["upstream"] = RecordFailure(@)] ELSE breaker
  /\ UNCHANGED cur /\ Rest

\* The answer of call_upstream: parsed, too large, or an error.
Answer(r) ==
  /\ req[r].at = "upstream" /\ req[r].kind = "standard"
  /\ Release(r)
  /\ \/ Finish(r, "ok") /\ breaker' = [breaker EXCEPT !["upstream"] = RecordSuccess(@)]
     \/ Finish(r, "failed") /\ UNCHANGED breaker
     \/ Finish(r, "failed") /\ breaker' = [breaker EXCEPT !["upstream"] = RecordFailure(@)]
  /\ UNCHANGED cur /\ Rest

\* A stream gives its slots back once the upstream has answered.
Connected(r) ==
  /\ req[r].at = "upstream" /\ req[r].kind = "stream"
  /\ Release(r)
  /\ \/ /\ req' = [req EXCEPT ![r].at = "body", ![r].sem = 0]
        /\ UNCHANGED <<breaker, log>>
     \/ Finish(r, "cut") /\ breaker' = [breaker EXCEPT !["upstream"] = RecordFailure(@)]
  /\ UNCHANGED cur /\ Rest

Body(r) ==
  /\ req[r].at = "body"
  /\ \/ Finish(r, "ok") /\ UNCHANGED breaker
     \/ Finish(r, "cut") /\ UNCHANGED breaker
     \/ Finish(r, "cut") /\ breaker' = [breaker EXCEPT !["upstream"] = RecordFailure(@)]
  /\ UNCHANGED <<free, dep, cur>> /\ Rest

\* The client of a stream goes away: the generators are closed.
Disconnect(r) ==
  /\ req[r].kind = "stream" /\ req[r].at \in {"global", "dep", "upstream", "body"}
  /\ Release(r)
  /\ Finish(r, "cut")
  /\ UNCHANGED <<cur, breaker>> /\ Rest

-----------------------------------------------------------------------------
(* After the response, and the passing of time.                            *)

\* RequestLogger.log: track_usage reaches the counter, or is lost on the way,
\* to a Redis error, or to an open breaker.
Recorded(r, fate, b) ==
  /\ log[r] = "due"
  /\ log' = [log EXCEPT ![r] = fate]
  /\ used' = IF fate = "counted" THEN used + 1 ELSE used
  /\ excused' = IF fate = "lost" THEN excused \cup {"lost"} ELSE excused
  /\ breaker' = [breaker EXCEPT !["redis_quota"] = b]
  /\ UNCHANGED <<req, task, flight, cache, neg, free, dep, cur>>

TrackUsage(r) ==
  \/ Recorded(r, "lost", breaker["redis_quota"])
  \/ \E b \in Passes(breaker["redis_quota"]) :
       \/ Recorded(r, "counted", RecordSuccess(b))
       \/ Recorded(r, "lost", RecordFailure(b))

CacheExpires(l) ==
  /\ cache[l] \/ neg[l]
  /\ \/ cache' = [cache EXCEPT ![l] = FALSE] /\ UNCHANGED neg
     \/ neg' = [neg EXCEPT ![l] = FALSE] /\ UNCHANGED cache
  /\ UNCHANGED <<req, task, flight, free, dep, cur, breaker, used, log, excused>>

\* The registry's entry outlives its time to live: the next request makes a
\* new semaphore, whatever the old one's holders do.
SemaphoreExpires ==
  /\ cur < MaxExpiries
  /\ cur' = cur + 1
  /\ UNCHANGED <<req, task, flight, cache, neg, free, dep, breaker, used, log, excused>>

Handler(r) ==
  \/ Arrive(r) \/ Resolved(r) \/ RateLimit(r) \/ QuotaChecked(r) \/ Breaker(r)
  \/ AcquireGlobal(r) \/ Acquire(r) \/ SlotTimeout(r) \/ Answer(r) \/ Connected(r)
  \/ Body(r) \/ TrackUsage(r)

Next == \/ \E r \in Reqs : Handler(r) \/ Disconnect(r) \/ ContextAnswers(r)
        \/ \E r \in Reqs, l \in Lookups : TaskFails(r, l)
        \/ QuotaAnswers
        \/ \E l \in Lookups : CacheExpires(l)
        \/ SemaphoreExpires

Spec == Init /\ [][Next]_vars

\* Handlers run to their next await, and every remote call ends: httpx has
\* timeouts, and waiting for a slot has one too.
Fairness == /\ \A r \in Reqs : WF_vars(Handler(r))
            /\ \A r \in Reqs, l \in Lookups : WF_vars(TaskFails(r, l))

FairSpec == Spec /\ Fairness

-----------------------------------------------------------------------------
(* Properties.                                                             *)

TypeOK ==
  /\ req \in [Reqs -> [at : {"new", "ctx", "rate", "quota", "breaker", "global", "dep",
                             "upstream", "body", "done"},
                       kind : {"standard", "stream"}, awaits : Reqs \cup {NoReq},
                       sem : Generations, out : {"none", "ok", "refused", "failed", "cut"}]]
  /\ task \in [Lookups -> [Reqs -> {"none", "running", "ok", "bad"}]]
  /\ flight \in [Lookups -> Reqs \cup {NoReq}]
  /\ cache \in [Lookups -> BOOLEAN] /\ neg \in [Lookups -> BOOLEAN]
  /\ free \in 0 .. GlobalLimit /\ dep \in [Generations -> 0 .. DepLimit]
  /\ cur \in Generations
  /\ breaker \in [{"upstream", "redis_quota"} ->
                    [st : {"closed", "open", "half_open"}, fails : 0 .. Threshold]]
  /\ used \in 0 .. Cardinality(Reqs)
  /\ log \in [Reqs -> {"none", "due", "counted", "lost"}]
  /\ excused \subseteq {"cached", "concurrent", "redis", "lost"}

At(S) == {r \in Reqs : req[r].at \in S}

\* No slot is lost and none is given back twice, whichever of success, error,
\* timeout or disconnect ends a call (the finally block of `limit`): the
\* permits and their holders always add up, for each semaphore ever made.
SlotsConserved ==
  /\ free + Cardinality(At({"dep", "upstream"})) = GlobalLimit
  /\ \A g \in Generations :
       dep[g] + Cardinality({r \in At({"upstream"}) : req[r].sem = g}) = DepLimit

\* A deployment serves more than its limit of calls at once only when its
\* semaphore expired from the registry while calls held it.
DeploymentLimit ==
  Cardinality(At({"upstream"})) > DepLimit =>
    \E r \in At({"upstream"}) : req[r].sem # cur

\* Concurrent requests share one context lookup and one quota check: the
\* API gateway never serves two of the same kind for one key at a time.
OneLookup ==
  \A l \in Lookups : Cardinality({r \in Reqs : task[l][r] = "running"}) <= 1

\* More requests than the quota are served only for a reason: a cached check,
\* requests admitted before the earlier ones were counted, a lost count, or
\* Redis failing open.
OverQuotaHasCause ==
  Cardinality({r \in Reqs : req[r].out = "ok"}) > Quota => excused # {}

\* A use is counted at most once, and only for a request that got an answer
\* or a stream: a refused or failed standard request costs nothing.
CountedOnce ==
  /\ used = Cardinality({r \in Reqs : log[r] = "counted"})
  /\ \A r \in Reqs : log[r] = "counted" =>
       req[r].out = "ok" \/ (req[r].out = "cut" /\ req[r].kind = "stream")

\* Every request is answered and every answered one is counted or its count
\* is lost: nobody waits forever for a shared lookup or for a slot.
RequestEnds ==
  \A r \in Reqs : req[r].at # "new" ~> (req[r].at = "done" /\ log[r] # "due")
=============================================================================
