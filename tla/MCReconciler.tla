---------------------------- MODULE MCReconciler ----------------------------
\* Module Reconciler on small instances, and a claim of a docstring about it.  Processes,
\* coroutines and threads are interchangeable; the runs that check liveness
\* do without symmetry.
EXTENDS ReconcilerProofs, TLC

Symmetry ==
    Permutations(Procs) \cup Permutations(Coros) \cup Permutations(Threads)

-----------------------------------------------------------------------------
\* "we set the stop event so the surrounding TaskGroup cancels the handler":
\* no handler succeeds after its renewer lost the lease (lease.py:7).
LostLeaseCancels ==
    \A w \in Worker :
        worker[w].pc = "finished" /\ worker[w].result = "ok"
            => worker[w].renewing
=============================================================================
