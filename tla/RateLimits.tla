----------------------------- MODULE RateLimits -----------------------------
(***************************************************************************)
(* The three rate limiters of the gateway, for one key: the token bucket   *)
(* and the Redis sliding window of api_gateway/gateway/rate_limiter.py,    *)
(* and the fixed window with a block of common/rate_limit.py that guards   *)
(* login and registration.  Time is counted in ticks; a bucket gains Rate  *)
(* tokens a tick.  A Redis member is the caller's clock reading, so two    *)
(* readings in one tick are the same member.  Once something has happened  *)
(* that excuses a limiter, no further request is followed.                 *)
(***************************************************************************)
EXTENDS Naturals, FiniteSets, FiniteSetsExt

CONSTANTS
    Backends,   \* the limiters to look at: "bucket", "redis", "auth"
    Reqs,       \* requests under way at a time
    Limit,      \* requests per window; also the bucket's burst
    Rate,       \* tokens gained in a tick
    Window,     \* ticks of a window
    Block,      \* ticks of a block
    Ttl,        \* ticks a bucket stays in the cache
    MaxTime,    \* bound: the clock stops here
    MaxPerTick  \* bound: requests admitted at one clock reading

VARIABLES
    backend,    \* the limiter in use
    now,        \* the clock
    bucket,     \* token bucket: tokens left, last refill, time it was cached
    zset,       \* Redis: the scores in the sorted set
    entry,      \* auth: count, first request and end of the block
    req,        \* per request: step and the clock reading it works with
    log,        \* how many requests were admitted at each clock reading
    refused,    \* auth: times at which a request was refused
    excused     \* what may let more through than the limit
vars == <<backend, now, bucket, zset, entry, req, log, refused, excused>>

Idle == [at |-> "idle", t |-> 0]
NoEntry == [count |-> 0, first |-> 0, until |-> 0]
NoBucket == [tokens |-> 0, last |-> 0, born |-> 0, cached |-> FALSE]
FullBucket == [tokens |-> Limit, last |-> now, born |-> now, cached |-> TRUE]

TypeOK ==
    /\ backend \in Backends /\ now \in 0 .. MaxTime
    /\ bucket \in [tokens : Nat, last : 0 .. MaxTime, born : 0 .. MaxTime, cached : BOOLEAN]
    /\ zset \subseteq 0 .. MaxTime
    /\ entry \in [count : Nat, first : 0 .. MaxTime, until : 0 .. MaxTime + Block]
    /\ req \in [Reqs -> [at : {"idle", "count", "remove"}, t : 0 .. MaxTime]]
    /\ log \in [0 .. MaxTime -> 0 .. MaxPerTick]
    /\ refused \subseteq 0 .. MaxTime /\ excused \subseteq {"tie", "late", "dropped"}

Init ==
    /\ backend \in Backends /\ now = 0
    /\ bucket = NoBucket /\ zset = {} /\ entry = NoEntry
    /\ req = [r \in Reqs |-> Idle]
    /\ log = [t \in 0 .. MaxTime |-> 0] /\ refused = {} /\ excused = {}

Tick ==
    /\ now < MaxTime /\ now' = now + 1
    /\ UNCHANGED <<backend, bucket, zset, entry, req, log, refused, excused>>

Admit(t) == log[t] < MaxPerTick /\ log' = [log EXCEPT ![t] = @ + 1] /\ UNCHANGED refused
Refuse(t) == refused' = (IF backend = "auth" THEN refused \cup {t} ELSE refused) /\ UNCHANGED log
Lower(a, b) == IF a < b THEN a ELSE b

-----------------------------------------------------------------------------
(* The token bucket *)

(* The bucket of the key, from the cache or new. *)
GetBucket == IF bucket.cached THEN bucket ELSE FullBucket

(* A mutant of Refill: the bucket overflows its capacity.                  *)
RefillUncapped(b) ==
    [b EXCEPT !.tokens = @ + (now - b.last) * Rate, !.last = now]

Refill(b) ==
    [b EXCEPT !.tokens = Lower(Limit, @ + (now - b.last) * Rate), !.last = now]

Consume ==
    LET b == Refill(GetBucket) IN
    /\ backend = "bucket" /\ excused = {}
    /\ IF b.tokens > 0
       THEN bucket' = [b EXCEPT !.tokens = @ - 1] /\ Admit(now)
       ELSE bucket' = b /\ Refuse(now)
    /\ UNCHANGED <<backend, now, zset, entry, req, excused>>

(* TTLCache drops the bucket Ttl after it was stored, in use or not.       *)
BucketExpires ==
    /\ bucket.cached /\ now - bucket.born >= Ttl
    /\ bucket' = NoBucket /\ excused' = excused \cup {"dropped"}
    /\ UNCHANGED <<backend, now, zset, entry, req, log, refused>>

-----------------------------------------------------------------------------
(* The Redis window: read the clock, run the transaction, and take the     *)
(* member back when the count was over the limit.                          *)

ReadClock(r) ==
    /\ backend = "redis" /\ req[r] = Idle /\ excused = {}
    /\ req' = [req EXCEPT ![r] = [at |-> "count", t |-> now]]
    /\ UNCHANGED <<backend, now, bucket, zset, entry, log, refused, excused>>

(* A mutant of Fresh: an entry is dropped a tick before its window ends.   *)
FreshInside(t) == {s \in zset : s + Window > t + 1}

(* zremrangebyscore(0, now - window) leaves these. *)
Fresh(t) == {s \in zset : s + Window > t}

CountWindow(r) ==
    LET t == req[r].t
        z == Fresh(t) \cup {t}
    IN /\ req[r].at = "count"
       /\ zset' = z
       /\ excused' = excused \cup (IF t \in zset THEN {"tie"} ELSE {})
                             \cup (IF t < now THEN {"late"} ELSE {})
       /\ IF Cardinality(z) <= Limit
          THEN Admit(t) /\ req' = [req EXCEPT ![r] = Idle]
          ELSE Refuse(t) /\ req' = [req EXCEPT ![r].at = "remove"]
       /\ UNCHANGED <<backend, now, bucket, entry>>

TakeBack(r) ==
    /\ req[r].at = "remove"
    /\ zset' = zset \ {req[r].t} /\ req' = [req EXCEPT ![r] = Idle]
    /\ UNCHANGED <<backend, now, bucket, entry, log, refused, excused>>

-----------------------------------------------------------------------------
(* The window of the authentication endpoints *)

Blocked == entry.until > now
WindowOver == entry.count > 0 /\ now - entry.first > Window
Current == IF entry.count = 0 THEN [NoEntry EXCEPT !.first = now] ELSE entry

(* A mutant of AtLimit: one request too many.                              *)
AtLimitLate == entry.count > Limit
AtLimit == entry.count >= Limit

(* A mutant of AuthIsAllowed: a refusal does not block.                    *)
AuthNoBlock ==
    /\ backend = "auth"
    /\ IF WindowOver
       THEN entry' = [count |-> 1, first |-> now, until |-> 0] /\ Admit(now)
       ELSE IF AtLimit THEN Refuse(now) /\ UNCHANGED entry
       ELSE entry' = [Current EXCEPT !.count = @ + 1] /\ Admit(now)
    /\ UNCHANGED <<backend, now, bucket, zset, req, excused>>

AuthIsAllowed ==
    /\ backend = "auth"
    /\ IF Blocked THEN Refuse(now) /\ UNCHANGED entry
       ELSE IF WindowOver
       THEN entry' = [count |-> 1, first |-> now, until |-> 0] /\ Admit(now)
       ELSE IF AtLimit
       THEN entry' = [entry EXCEPT !.until = now + Block] /\ Refuse(now)
       ELSE entry' = [Current EXCEPT !.count = @ + 1] /\ Admit(now)
    /\ UNCHANGED <<backend, now, bucket, zset, req, excused>>

Next ==
    \/ Tick \/ Consume \/ BucketExpires \/ AuthIsAllowed
    \/ \E r \in Reqs : ReadClock(r) \/ CountWindow(r) \/ TakeBack(r)

Spec == Init /\ [][Next]_vars

-----------------------------------------------------------------------------
(* Requests admitted with a clock reading in from .. to. *)
Admitted(from, to) == MapThenSumSet(LAMBDA t : log[t], (from .. to) \cap (0 .. MaxTime))

(* In every span of time the bucket lets through no more than its burst    *)
(* and what flowed in meanwhile, unless the cache dropped a bucket in use. *)
BucketRate ==
    backend = "bucket" /\ "dropped" \notin excused =>
        \A from, to \in 0 .. now : from <= to =>
            Admitted(from, to) <= Limit + (to - from) * Rate

(* Any window holds at most Limit admitted requests, unless two requests   *)
(* read the same instant or a transaction ran after the clock had moved on. *)
SlidingWindow ==
    backend = "redis" /\ excused = {} =>
        \A t \in 0 .. now : Admitted(IF t < Window THEN 0 ELSE t - Window + 1, t) <= Limit

(* A fixed window lets at most twice the limit through in any span of its  *)
(* length, around the point where one window follows another.              *)
AuthWindow ==
    backend = "auth" =>
        \A t \in 0 .. now : Admitted(t, t + Window) <= 2 * Limit

(* Once a caller has run over the limit nothing is admitted until the      *)
(* block ends, although requests keep arriving.                            *)
BlockHolds ==
    backend = "auth" =>
        \A t \in refused : \E s \in refused :
            s <= t /\ t < s + Block /\ Admitted(s + 1, s + Block - 1) = 0
=============================================================================
