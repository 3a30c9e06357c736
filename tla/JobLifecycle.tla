---------------------------- MODULE JobLifecycle ----------------------------
(***************************************************************************)
(* What a provisioning job promises its users, with no leases, coroutines, *)
(* threads or crashes: the graph of phases a row of provisioning_jobs may  *)
(* walk.  "none" is a node whose job has not been inserted yet, "purged"   *)
(* one whose row was deleted; node ids are fresh uuids, so neither repeats.*)
(* Module Reconciler implements this specification.                        *)
(***************************************************************************)

CONSTANT Nodes

VARIABLE phase

\* The phases a reconciler coroutine may claim.  (The code also lists
\* 'pending', which no statement ever writes.)
ActivePhase == {"preflight", "provisioning", "bootstrapping", "cancelling"}

Phase == ActivePhase \cup {"none", "ready", "failed", "terminated", "purged"}

\* The phase a handler's success leads to.
NextPhase(ph) ==
    CASE ph = "preflight"     -> "provisioning"
      [] ph = "provisioning"  -> "bootstrapping"
      [] ph = "bootstrapping" -> "ready"
      [] OTHER                -> "terminated"

\* Where force_cancel applies.
Cancellable == Phase \ {"none", "cancelling", "terminated", "purged"}

Init == phase = [n \in Nodes |-> "none"]

Move(n, ph) == phase' = [phase EXCEPT ![n] = ph]

Enqueue(n) == phase[n] = "none" /\ Move(n, "preflight")

Advance(n) == phase[n] \in ActivePhase /\ Move(n, NextPhase(phase[n]))

Fail(n) == phase[n] \in ActivePhase /\ Move(n, "failed")

Cancel(n) == phase[n] \in Cancellable /\ Move(n, "cancelling")

Retry(n) == phase[n] = "failed" /\ Move(n, "preflight")

Purge(n) == Move(n, "purged")

Next == \E n \in Nodes :
            \/ Enqueue(n) \/ Advance(n) \/ Fail(n)
            \/ Cancel(n) \/ Retry(n) \/ Purge(n)

Spec == Init /\ [][Next]_phase
=============================================================================
