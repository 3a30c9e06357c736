---------------------------- MODULE Registration ----------------------------
(***************************************************************************)
(* Enrolling a worker: bootstrap tokens (workers/worker_controller/auth.py,*)
(* api/admin_workers.py), POST /v1/workers/register (api/workers.py), the  *)
(* row it upserts (repositories/inventory_repo.py) and the inference token *)
(* that a pool shares with its workers (repositories/pool_repo.py).        *)
(*                                                                         *)
(* One pool.  A worker of Stored carries a token that provisioning has put *)
(* in worker_bootstrap_tokens, to be consumed once; the other workers      *)
(* carry a signed token from the admin API, which is good until it         *)
(* expires.  A worker repeats its registration until it is answered yes.   *)
(***************************************************************************)
EXTENDS Naturals

CONSTANTS
  Workers,      \* workers being enrolled
  Stored,       \* those whose token is a row of the database
  Names,        \* node names they may be configured with
  MaxFaults     \* bound: failed upserts, lost answers, wrong pools, late starts

VARIABLES
  pool,         \* the pool's inference_token, 0 before the first is stored
  ask,          \* what get_or_generate_inference_token has found for each worker
  given,        \* the inference token in each worker's environment
  name,         \* the node name each worker is configured with
  token,        \* bootstrap tokens: "none", "fresh", "consumed", "expired"
  row,          \* compute_inventory: per name, the agent_kind of the row
  at,           \* registrations in progress
  admitted,     \* registrations each stored token has authorised (history)
  spoiled,      \* workers a fault has hit (history)
  faults

vars == <<pool, ask, given, name, token, row, at, admitted, spoiled, faults>>

TokenKinds == {"none", "worker", "other"}

TypeOK ==
  /\ pool \in Nat
  /\ ask \in [Workers -> {"no", "missing", "done"}]
  /\ given \in [Workers -> Nat]
  /\ name \in [Workers -> Names]
  /\ token \in [Workers -> {"none", "fresh", "consumed", "expired"}]
  /\ row \in [Names -> TokenKinds]
  /\ at \in [Workers -> {"off", "ask", "upsert", "answer", "registered"}]
  /\ admitted \in [Workers -> 0 .. MaxFaults + 1]
  /\ spoiled \subseteq Workers
  /\ faults \in 0 .. MaxFaults

Init ==
  /\ pool = 0
  /\ ask = [w \in Workers |-> "no"]
  /\ given = [w \in Workers |-> 0]
  /\ name \in [Workers -> Names]
  /\ token = [w \in Workers |-> "none"]
  /\ row \in [Names -> {"none", "other"}]
  /\ at = [w \in Workers |-> "off"]
  /\ admitted = [w \in Workers |-> 0]
  /\ spoiled = {}
  /\ faults = 0

Fault(w) ==
  /\ faults < MaxFaults
  /\ faults' = faults + 1
  /\ spoiled' = spoiled \cup {w}

-----------------------------------------------------------------------------
(* get_or_generate_inference_token: SELECT, then an UPDATE that keeps a    *)
(* value stored in between.                                                *)
SelectInferenceToken(w) ==
  /\ ask[w] = "no"
  /\ ask' = [ask EXCEPT ![w] = IF pool = 0 THEN "missing" ELSE "done"]
  /\ given' = [given EXCEPT ![w] = pool]
  /\ UNCHANGED <<pool, name, token, row, at, admitted, spoiled, faults>>

(* A random token: not one that was stored before.                         *)
Fresh == pool + 1

(* A mutant: the UPDATE stores the value proposed, whatever is there.      *)
StoreProposed(w) ==
  /\ ask[w] = "missing"
  /\ pool' = Fresh
  /\ ask' = [ask EXCEPT ![w] = "done"]
  /\ given' = [given EXCEPT ![w] = pool']
  /\ UNCHANGED <<name, token, row, at, admitted, spoiled, faults>>

StoreInferenceToken(w) ==
  /\ ask[w] = "missing"
  /\ pool' = IF pool = 0 THEN Fresh ELSE pool
  /\ ask' = [ask EXCEPT ![w] = "done"]
  /\ given' = [given EXCEPT ![w] = pool']
  /\ UNCHANGED <<name, token, row, at, admitted, spoiled, faults>>

(* The bootstrap token follows, and the worker starts with both.           *)
MintBootstrapToken(w) ==
  /\ ask[w] = "done" /\ token[w] = "none"
  /\ token' = [token EXCEPT ![w] = "fresh"]
  /\ at' = [at EXCEPT ![w] = "ask"]
  /\ UNCHANGED <<pool, ask, given, name, row, admitted, spoiled, faults>>

TokenExpires(w) ==
  /\ token[w] = "fresh" /\ at[w] = "ask"
  /\ token' = [token EXCEPT ![w] = "expired"]
  /\ Fault(w)
  /\ UNCHANGED <<pool, ask, given, name, row, at, admitted>>

-----------------------------------------------------------------------------
(* A mutant: the token is looked up and marked used when all went well.    *)
LookUpBootstrapToken(w) == UNCHANGED token

(* A mutant: every token is used up.                                       *)
ConsumeAnyToken(w) == token' = [token EXCEPT ![w] = "consumed"]

(* A stored token is used up as it is read, in one statement.              *)
ConsumeBootstrapToken(w) ==
  token' = [token EXCEPT ![w] = IF w \in Stored THEN "consumed" ELSE @]

(* A refused token answers 401; the worker asks again.                     *)
Authenticate(w) ==
  /\ at[w] = "ask" /\ token[w] = "fresh"
  /\ ConsumeBootstrapToken(w)
  /\ admitted' = [admitted EXCEPT ![w] = IF w \in Stored THEN @ + 1 ELSE @]
  /\ at' = [at EXCEPT ![w] = "upsert"]
  /\ UNCHANGED <<pool, ask, given, name, row, spoiled, faults>>

(* pool_scope_violation: the token is used up all the same.                *)
WrongPool(w) ==
  /\ at[w] = "ask" /\ token[w] = "fresh"
  /\ ConsumeBootstrapToken(w)
  /\ Fault(w)
  /\ UNCHANGED <<pool, ask, given, name, row, at, admitted>>

(* A mutant: a row of the same worker answers 409 too.                     *)
UpsertNewWorker(w) ==
  /\ at[w] = "upsert"
  /\ \/ /\ row[name[w]] # "none"
        /\ at' = [at EXCEPT ![w] = "ask"]
        /\ UNCHANGED row
     \/ /\ row[name[w]] = "none"
        /\ row' = [row EXCEPT ![name[w]] = "worker"]
        /\ at' = [at EXCEPT ![w] = "answer"]
  /\ UNCHANGED <<pool, ask, given, name, token, admitted, spoiled, faults>>

(* A name that is held by another kind of node answers 409.                *)
UpsertWorker(w) ==
  /\ at[w] = "upsert"
  /\ \/ /\ row[name[w]] = "other"
        /\ at' = [at EXCEPT ![w] = "ask"]
        /\ UNCHANGED row
     \/ /\ row[name[w]] # "other"
        /\ row' = [row EXCEPT ![name[w]] = "worker"]
        /\ at' = [at EXCEPT ![w] = "answer"]
  /\ UNCHANGED <<pool, ask, given, name, token, admitted, spoiled, faults>>

(* The database fails the upsert, or the answer does not reach the worker. *)
AnswerLost(w) ==
  /\ at[w] \in {"upsert", "answer"}
  /\ at' = [at EXCEPT ![w] = "ask"]
  /\ Fault(w)
  /\ UNCHANGED <<pool, ask, given, name, token, row, admitted>>

MintWorkerToken(w) ==
  /\ at[w] = "answer"
  /\ at' = [at EXCEPT ![w] = "registered"]
  /\ UNCHANGED <<pool, ask, given, name, token, row, admitted, spoiled, faults>>

-----------------------------------------------------------------------------
Step(w) ==
  \/ SelectInferenceToken(w) \/ StoreInferenceToken(w) \/ MintBootstrapToken(w)
  \/ Authenticate(w) \/ UpsertWorker(w) \/ MintWorkerToken(w)

Next ==
  \E w \in Workers : Step(w) \/ TokenExpires(w) \/ WrongPool(w) \/ AnswerLost(w)

Spec == Init /\ [][Next]_vars

(* Handlers run on, and a worker that is not enrolled keeps asking.        *)
Fairness == \A w \in Workers : WF_vars(Step(w))

FairSpec == Spec /\ Fairness

-----------------------------------------------------------------------------
(* A stored token admits one registration, however often its worker asks   *)
(* and whatever becomes of the first attempt.                              *)
SingleUse == \A w \in Stored : admitted[w] <= 1

(* Every worker holds the inference token the pool has: first callers that *)
(* generate one each still hand out the one that was stored.               *)
TokensConverge == \A w \in Workers : ask[w] = "done" => given[w] = pool

(* A worker that no fault has hit and whose name is free is enrolled.      *)
WorkerEnrols ==
  \A w \in Workers :
    (token[w] = "fresh") ~>
      (at[w] = "registered" \/ w \in spoiled \/ row[name[w]] = "other")

(* A worker with a signed token is enrolled in the end even if its upsert  *)
(* failed or its answer was lost; one with a stored token is not.          *)
RetryEnrols ==
  \A w \in Workers \ Stored :
    (token[w] = "fresh") ~>
      (at[w] = "registered" \/ token[w] = "expired" \/ row[name[w]] = "other")

=============================================================================
