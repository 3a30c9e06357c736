-------------------------- MODULE CredentialCleanup --------------------------
(***************************************************************************)
(* What deleting a provider credential does to the pools that use it       *)
(* (api_gateway/management/configuration.py, _cleanup_provider_resources): *)
(* calls to the orchestrator, pool by pool, whose failures are logged and  *)
(* skipped, before the credential itself is dropped.                       *)
(***************************************************************************)
EXTENDS Naturals

CONSTANTS
  Pools,       \* pools that name the credential
  MaxPolls,    \* polls of a stopped pool (30 in the code)
  MaxFaults    \* bound: calls that fail

VARIABLES
  cred,        \* the credential is configured
  pool,        \* per pool, its lifecycle state
  deps,        \* per pool, its deployments: "none", "live" or "ended"
  at,          \* where the deletion is
  todo,        \* pools listed and not yet cleaned up
  now,         \* the pool at hand
  polls,
  cause,       \* per pool, why the deletion left it behind
  faults

vars == <<cred, pool, deps, at, todo, now, polls, cause, faults>>

Live == {"running", "terminating"}

Init ==
  /\ cred = TRUE
  /\ pool \in [Pools -> {"none", "running"}]
  /\ deps = [p \in Pools |-> "none"]
  /\ at = "idle" /\ todo = {} /\ now \in Pools /\ polls = 0
  /\ cause = [p \in Pools |-> {}]
  /\ faults = 0

Fault == faults < MaxFaults /\ faults' = faults + 1

Blame(ps, why) == cause' = [p \in Pools |-> IF p \in ps THEN cause[p] \cup {why} ELSE cause[p]]

(* createpool, deploy and stoppool, by users.                              *)
CreatePool(p) ==
  /\ cred /\ pool[p] = "none"
  /\ pool' = [pool EXCEPT ![p] = "running"]
  /\ Blame(IF at \in {"idle", "list"} THEN {} ELSE {p}, "late")
  /\ UNCHANGED <<cred, deps, at, todo, now, polls, faults>>

Deploy(p) ==
  /\ pool[p] = "running" /\ deps[p] = "none"
  /\ \E d \in {"live", "ended"} : deps' = [deps EXCEPT ![p] = d]
  /\ UNCHANGED <<cred, pool, at, todo, now, polls, cause, faults>>

StopPoolByUser(p) ==
  /\ pool[p] = "running"
  /\ pool' = [pool EXCEPT ![p] = "terminating"]
  /\ UNCHANGED <<cred, deps, at, todo, now, polls, cause, faults>>

(* The background task of stoppool; it needs the credential.               *)
PoolTerminated(p) ==
  /\ pool[p] = "terminating" /\ cred
  /\ pool' = [pool EXCEPT ![p] = "terminated"]
  /\ UNCHANGED <<cred, deps, at, todo, now, polls, cause, faults>>

-----------------------------------------------------------------------------
DeleteCredential ==
  /\ cred /\ at = "idle"
  /\ at' = "list"
  /\ UNCHANGED <<cred, pool, deps, todo, now, polls, cause, faults>>

(* A mutant: pools that are being stopped already are passed over.         *)
TargetsRunning == {p \in Pools : pool[p] = "running"}

Targets == {p \in Pools : pool[p] \in Live \cup {"terminated"}}

ListPools ==
  /\ at = "list"
  /\ \/ todo' = Targets /\ UNCHANGED <<cause, faults>>
     \/ Fault /\ todo' = {} /\ Blame(Pools, "fault")
  /\ at' = "next"
  /\ UNCHANGED <<cred, pool, deps, now, polls>>

NextPool ==
  /\ at = "next" /\ todo # {}
  /\ \E p \in todo : now' = p /\ todo' = todo \ {p}
  /\ at' = "deployments"
  /\ UNCHANGED <<cred, pool, deps, polls, cause, faults>>

(* Ended deployments are deleted, others terminated; a failure of either   *)
(* ends the loop over them, and the pool is stopped all the same.          *)
TerminateDeployments ==
  /\ at = "deployments"
  /\ \/ deps' = [deps EXCEPT ![now] = IF @ = "live" THEN "ended" ELSE "none"] /\ UNCHANGED faults
     \/ Fault /\ UNCHANGED deps
  /\ at' = "stop"
  /\ UNCHANGED <<cred, pool, todo, now, polls, cause>>

StopPool ==
  /\ at = "stop"
  /\ \/ /\ pool' = [pool EXCEPT ![now] = IF @ = "running" THEN "terminating" ELSE @]
        /\ at' = "wait" /\ polls' = 0
        /\ UNCHANGED <<cause, faults>>
     \/ Fault /\ at' = "next" /\ Blame({now}, "fault") /\ UNCHANGED <<pool, polls>>
  /\ UNCHANGED <<cred, deps, todo, now>>

(* A mutant: the wait has no end.                                          *)
UncountedPoll == UNCHANGED polls

CountedPoll == polls' = polls + 1

WaitTerminated ==
  /\ at = "wait"
  /\ \/ /\ polls < MaxPolls
        /\ IF pool[now] = "terminated" THEN at' = "delete" /\ UNCHANGED polls
           ELSE CountedPoll /\ UNCHANGED at
        /\ UNCHANGED <<cause, faults>>
     \/ polls < MaxPolls /\ Fault /\ CountedPoll /\ UNCHANGED <<at, cause>>
     \/ polls = MaxPolls /\ at' = "next" /\ Blame({now}, "timeout") /\ UNCHANGED <<polls, faults>>
  /\ UNCHANGED <<cred, pool, deps, todo, now>>

(* deletepool, of a terminated pool.                                       *)
DeletePool ==
  /\ at = "delete"
  /\ \/ pool' = [pool EXCEPT ![now] = "deleted"] /\ deps' = [deps EXCEPT ![now] = "none"]
        /\ UNCHANGED faults
     \/ Fault /\ UNCHANGED <<pool, deps>>
  /\ at' = "next"
  /\ UNCHANGED <<cred, todo, now, polls, cause>>

DropCredential ==
  /\ at = "next" /\ todo = {}
  /\ cred' = FALSE /\ at' = "done"
  /\ UNCHANGED <<pool, deps, todo, now, polls, cause, faults>>

Cleanup == \/ ListPools \/ NextPool \/ TerminateDeployments \/ StopPool
           \/ WaitTerminated \/ DeletePool \/ DropCredential

Next ==
  \/ \E p \in Pools : CreatePool(p) \/ Deploy(p) \/ StopPoolByUser(p) \/ PoolTerminated(p)
  \/ DeleteCredential \/ Cleanup

Spec == Init /\ [][Next]_vars

(* The handler runs on; nothing else is promised.                          *)
FairSpec == Spec /\ WF_vars(Cleanup)

-----------------------------------------------------------------------------
TypeOK ==
  /\ cred \in BOOLEAN
  /\ pool \in [Pools -> Live \cup {"none", "terminated", "deleted"}]
  /\ deps \in [Pools -> {"none", "live", "ended"}]
  /\ at \in {"idle", "list", "next", "deployments", "stop", "wait", "delete", "done"}
  /\ todo \subseteq Pools /\ now \in Pools /\ polls \in 0 .. MaxPolls
  /\ cause \in [Pools -> SUBSET {"fault", "timeout", "late"}]
  /\ faults \in 0 .. MaxFaults

(* A pool that still runs machines when its credential is gone, so that    *)
(* nobody can tear them down, was created while the deletion ran, or a     *)
(* call for it failed, or it took longer to stop than the deletion waits.  *)
StrandedPoolHasCause ==
  \A p \in Pools : (~cred /\ pool[p] \in Live) => cause[p] # {}

(* Whatever the pools do, the deletion of the credential comes to its end. *)
DeletionEnds == (at = "list") ~> (at = "done")

=============================================================================
