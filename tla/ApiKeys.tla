------------------------------- MODULE ApiKeys ------------------------------
(***************************************************************************)
(* From an API key to the context an inference request is served with      *)
(* (management/api_keys.py, policy/engine.py resolve_context, and the      *)
(* inference service's client): the key, the deployment, the pool's        *)
(* inference token and the policies are read by separate statements, and   *)
(* the result is cached twice, in the gateway and in each inference        *)
(* service.  The dashboard's sandbox names an organisation and has no key. *)
(* What the statements read is abstracted to version numbers.              *)
(***************************************************************************)
EXTENDS Naturals

CONSTANTS Services,     \* processes of the inference service
          Kinds,        \* callers: subset of {"key", "sandbox"}
          MaxChanges,   \* bound on changes of what is read
          MaxFaults     \* bound on failed reads of the inference token

VARIABLES
    kind,      \* the caller
    key,       \* the row of the API key
    clock,     \* changes so far
    past,      \* what was in force after each change
    gateway,   \* context_cache of the policy engine: {} or {context}
    service,   \* context_cache of each inference client
    call,      \* the resolution each inference service waits for
    faults
vars == <<kind, key, clock, past, gateway, service, call, faults>>

Nothing == 0
Versions == 0 .. MaxChanges + 1
Truths == [running : BOOLEAN, token : Versions \ {Nothing}, policy : Versions \ {Nothing}]
Now == past[clock]

(* A context with the span of changes in which it was resolved. *)
Contexts == [token : Versions, policy : Versions, from : 0 .. MaxChanges, to : 0 .. MaxChanges]
Empty == [token |-> Nothing, policy |-> Nothing, from |-> 0, to |-> 0]
Idle == [at |-> "idle", context |-> Empty]
Cached == gateway \cup UNION {service[s] : s \in Services}

TypeOK ==
    /\ kind \in Kinds /\ key \in {"none", "active", "revoked"}
    /\ clock \in 0 .. MaxChanges /\ past \in [0 .. MaxChanges -> Truths]
    /\ gateway \subseteq Contexts /\ service \in [Services -> SUBSET Contexts]
    /\ call \in [Services -> [at : {"idle", "gateway", "verify", "deployment", "token",
                                    "policies", "answer"}, context : Contexts]]
    /\ faults \in 0 .. MaxFaults

Init ==
    /\ kind \in Kinds /\ key = "none"
    /\ clock = 0
    /\ past = [t \in 0 .. MaxChanges |-> [running |-> TRUE, token |-> 1, policy |-> 1]]
    /\ gateway = {} /\ service = [s \in Services |-> {}]
    /\ call = [s \in Services |-> Idle] /\ faults = 0

-----------------------------------------------------------------------------
(* The management API *)

CreateApiKey ==
    /\ key = "none" /\ key' = "active"
    /\ UNCHANGED <<kind, clock, past, gateway, service, call, faults>>

(* The row stays, deactivated. *)
RevokeApiKey ==
    /\ key = "active" /\ key' = "revoked"
    /\ UNCHANGED <<kind, clock, past, gateway, service, call, faults>>

Change(truth) ==
    /\ clock < MaxChanges /\ clock' = clock + 1
    /\ past' = [t \in 0 .. MaxChanges |-> IF t > clock THEN truth ELSE past[t]]
    /\ UNCHANGED <<kind, key, gateway, service, call, faults>>

(* update_config writes the policy of the organisation or the deployment,  *)
(* a new row or the one there is.                                          *)
UpdateConfig == Change([Now EXCEPT !.policy = @ + 1])

(* delete_deployment of the gateway; the rows of its keys and policies     *)
(* stay, without it.                                                       *)
DeleteDeployment == Now.running /\ Change([Now EXCEPT !.running = FALSE])

(* The deployment is stopped, or another of its name runs; a new token of  *)
(* its pool.                                                               *)
Edit == \/ Change([Now EXCEPT !.running = ~@])
        \/ Change([Now EXCEPT !.token = @ + 1])

-----------------------------------------------------------------------------
(* A request: each step is one statement of the gateway for service s.     *)

Outside == <<kind, key, clock, past>>
To(s, at, context) == call' = [call EXCEPT ![s] = [at |-> at, context |-> context]]
Continue(s, at) == To(s, at, call[s].context) /\ UNCHANGED <<gateway, service>>
Refuse(s) == call' = [call EXCEPT ![s] = Idle] /\ UNCHANGED <<gateway, service>>

(* The service asks the gateway when its own cache has nothing.            *)
ResolveContext(s) ==
    /\ call[s].at = "idle" /\ service[s] = {}
    /\ To(s, "gateway", [Empty EXCEPT !.from = clock])
    /\ UNCHANGED <<Outside, gateway, service, faults>>

(* The gateway's cache is asked first. *)
ResolveInferenceContext(s) ==
    /\ call[s].at = "gateway"
    /\ IF gateway = {} THEN Continue(s, "verify")
       ELSE (\E context \in gateway : To(s, "answer", context)) /\ UNCHANGED <<gateway, service>>
    /\ UNCHANGED <<Outside, faults>>

(* The row is found by its prefix and its hash. *)
VerifyApiKey(s) ==
    /\ call[s].at = "verify" /\ kind = "key"
    /\ IF key = "none" THEN Refuse(s) ELSE Continue(s, "deployment")
    /\ UNCHANGED <<Outside, faults>>

(* A state among RUNNING, READY, ready. *)
Serving == Now.running

ResolveDeployment(s) ==
    /\ call[s].at = "deployment"
    /\ IF Serving THEN Continue(s, "token") ELSE Refuse(s)
    /\ UNCHANGED <<Outside, faults>>

(* A failed query counts as a pool without a token, but has aborted the    *)
(* transaction: the query of the policies then fails too.                  *)
FetchInferenceToken(s) ==
    /\ call[s].at = "token"
    /\ \/ To(s, "policies", [call[s].context EXCEPT !.token = Now.token]) /\ UNCHANGED faults
       \/ faults < MaxFaults /\ faults' = faults + 1 /\ Continue(s, "policies")
    /\ UNCHANGED <<Outside, gateway, service>>

Complete(s, context) ==
    gateway' = {context} /\ To(s, "answer", context) /\ UNCHANGED service

(* A mutant of ApplyPolicies: a failed query leaves the policies out.      *)
ApplyPoliciesOpen(s) ==
    /\ call[s].at = "policies" /\ kind = "key"
    /\ Complete(s, [call[s].context EXCEPT !.to = clock, !.policy = Now.policy])
    /\ UNCHANGED <<Outside, faults>>

(* The merged policies complete the context of a key. *)
ApplyPolicies(s) ==
    /\ call[s].at = "policies" /\ kind = "key"
    /\ IF call[s].context.token = Nothing THEN Refuse(s)
       ELSE Complete(s, [call[s].context EXCEPT !.to = clock, !.policy = Now.policy])
    /\ UNCHANGED <<Outside, faults>>

(* The sandbox starts at the deployment and has no policies. *)
ResolveSandboxContext(s) ==
    /\ kind = "sandbox"
    /\ \/ call[s].at = "verify" /\ Continue(s, "deployment")
       \/ call[s].at = "policies" /\ Complete(s, [call[s].context EXCEPT !.to = clock])
    /\ UNCHANGED <<Outside, faults>>

(* The answer reaches the service, which caches what is valid. *)
ResolveContextUncached(s) ==
    /\ call[s].at = "answer"
    /\ service' = [service EXCEPT ![s] = {call[s].context}]
    /\ call' = [call EXCEPT ![s] = Idle]
    /\ UNCHANGED <<Outside, gateway, faults>>

(* A mutant of ContextCacheExpires: an entry is dropped by capacity alone. *)
ContextCacheKept == FALSE /\ UNCHANGED vars

(* The entries expire, each after its own time. *)
ContextCacheExpires ==
    /\ gateway # {} /\ gateway' = {}
    /\ UNCHANGED <<Outside, service, call, faults>>

ClientCacheExpires(s) ==
    /\ service[s] # {} /\ service' = [service EXCEPT ![s] = {}]
    /\ UNCHANGED <<Outside, gateway, call, faults>>

Resolve(s) == \/ ResolveInferenceContext(s) \/ VerifyApiKey(s) \/ ResolveDeployment(s)
              \/ FetchInferenceToken(s) \/ ApplyPolicies(s) \/ ResolveSandboxContext(s)
              \/ ResolveContextUncached(s)

Next == \/ CreateApiKey \/ RevokeApiKey \/ UpdateConfig \/ DeleteDeployment \/ Edit \/ ContextCacheExpires
        \/ \E s \in Services : ResolveContext(s) \/ Resolve(s) \/ ClientCacheExpires(s)

Spec == Init /\ [][Next]_vars

(* A resolution goes on, and an entry, which no read renews, expires       *)
(* however often the cache is filled again.                                *)
FairSpec == /\ Spec /\ SF_vars(ContextCacheExpires)
            /\ \A s \in Services : WF_vars(Resolve(s)) /\ SF_vars(ClientCacheExpires(s))

-----------------------------------------------------------------------------
(* No mixture from the past: whatever a cached context says was in force   *)
(* at some moment of its own resolution, the running deployment included.  *)
(* Only the sandbox is ever served without the pool's token, and only      *)
(* after a failed query (policy/engine.py resolve_context).                *)
ContextWasInForce ==
    \A c \in Cached :
        LET during == {past[t] : t \in c.from .. c.to} IN
        /\ \E truth \in during : truth.running
        /\ c.policy # Nothing => \E truth \in during : truth.policy = c.policy
        /\ c.token # Nothing => \E truth \in during : truth.token = c.token
        /\ c.token = Nothing => kind = "sandbox" /\ faults > 0

(* Once nothing changes any more, requests are served by what is in force, *)
(* and not at all by a deployment that is down, although a resolution that *)
(* began early may refill the caches late and one cache fills the other.   *)
ChangesTakeEffect ==
    <>[](\A c \in Cached : /\ Now.running
                           /\ c.token \in {Now.token, Nothing}
                           /\ c.policy \in {Now.policy, Nothing})

(* docs/superpowers/specs/2026-03-11-unit-test-coverage-design.md:134:     *)
(* "Revoked key fails verification".                                       *)
RevokedKeyFails ==
    [][\A s \in Services : ~(key = "revoked" /\ call[s].at = "verify" /\ kind = "key"
                             /\ call'[s].at = "deployment")]_vars
=============================================================================
