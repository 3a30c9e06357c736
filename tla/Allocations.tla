----------------------------- MODULE Allocations -----------------------------
(***************************************************************************)
(* The scheduler's ledger (repositories/scheduler_repo.py): a node's       *)
(* allocated counter beside the allocations table, allocation with and     *)
(* without preemption, release, and the writers that touch the counter     *)
(* without the table or both with other rules: mark_terminated,            *)
(* recycle_node and heartbeat (inventory_repo.py) and the spot reclaimer   *)
(* (infra/spot_reclaimer.py).  Each operation is one transaction that      *)
(* holds the node row.  GPU, vCPU and RAM are handled alike; one resource  *)
(* stands for the three.                                                   *)
(***************************************************************************)
EXTENDS Naturals, Integers, FiniteSets, FiniteSetsExt

CONSTANTS
    Nodes,      \* inventory rows
    Spot,       \* those of node_class 'spot'
    Total,      \* capacity of a node
    Sizes,      \* what a request may ask for
    Priorities, \* request priorities
    MaxAllocs   \* bound on the allocations ever made

VARIABLES
    state,      \* per node: state
    used,       \* per node: gpu_allocated
    rows,       \* the allocations table, a set of records; id is creation order
    made,       \* allocations made so far
    drifted     \* nodes whose counter was last overwritten with another value
                \* than their live allocations add up to

vars == <<state, used, rows, made, drifted>>

AllocRow == [id : 1..MaxAllocs, node : Nodes, size : Sizes, prio : Priorities,
             live : BOOLEAN]

TypeOK ==
    /\ state \in [Nodes -> {"ready", "unhealthy", "terminated"}]
    /\ used \in [Nodes -> Int]
    /\ rows \subseteq AllocRow
    /\ made \in 0..MaxAllocs
    /\ drifted \subseteq Nodes

Init ==
    /\ state = [n \in Nodes |-> "ready"]
    /\ used = [n \in Nodes |-> 0]
    /\ rows = {}
    /\ made = 0
    /\ drifted = {}

Live(n) == {r \in rows : r.node = n /\ r.live}
SizeOf(S) == MapThenSumSet(LAMBDA r : r.size, S)
Free(n) == Total - used[n]

NewRow(n, g, p) == [id |-> made + 1, node |-> n, size |-> g, prio |-> p, live |-> TRUE]
Closed(S) == {[r EXCEPT !.live = FALSE] : r \in S}


Allocate(n, g, p) ==
    /\ made < MaxAllocs
    /\ state[n] = "ready"
    /\ Free(n) >= g
    /\ used' = [used EXCEPT ![n] = @ + g]
    /\ rows' = rows \union {NewRow(n, g, p)}
    /\ made' = made + 1
    /\ UNCHANGED <<state, drifted>>

(***************************************************************************)
(* The preemption path: live allocations of a spot node with a lower       *)
(* priority, lowest priority first and oldest first, are evicted until the *)
(* request fits; if all of them are not enough nothing is evicted.         *)
(***************************************************************************)
VictimsAnyPriority(n, p) == {r \in Live(n) : n \in Spot}

Victims(n, p) == {r \in Live(n) : n \in Spot /\ r.prio < p}
Before(r, s) == r.prio < s.prio \/ (r.prio = s.prio /\ r.id <= s.id)
UpTo(n, p, s) == {r \in Victims(n, p) : Before(r, s)}

Evicted(n, g, p) ==
    LET enough == {s \in Victims(n, p) : Free(n) + SizeOf(UpTo(n, p, s)) >= g}
    IN  IF enough = {} THEN {}
        ELSE UpTo(n, p, CHOOSE s \in enough : \A t \in enough : Before(s, t))

Preempt(n, g, p) ==
    /\ made < MaxAllocs
    /\ state[n] = "ready"
    /\ Free(n) < g
    /\ LET E == Evicted(n, g, p) IN
         /\ E # {}
         /\ used' = [used EXCEPT ![n] = @ - SizeOf(E) + g]
         /\ rows' = (rows \ E) \union Closed(E) \union {NewRow(n, g, p)}
    /\ made' = made + 1
    /\ UNCHANGED <<state, drifted>>

(* A mutant: a row that is released already gives its share back again. *)
ReleaseTwice(r) ==
    /\ used' = [used EXCEPT ![r.node] = @ - r.size]
    /\ rows' = (rows \ {r}) \union Closed({r})
    /\ UNCHANGED <<state, made, drifted>>

(* release: only a row that is still live gives its share back. *)
Release(r) ==
    /\ r.live
    /\ used' = [used EXCEPT ![r.node] = @ - r.size]
    /\ rows' = (rows \ {r}) \union Closed({r})
    /\ UNCHANGED <<state, made, drifted>>

(* A counter that is overwritten, whatever the allocations table holds. *)
Overwrite(n, g) ==
    /\ used' = [used EXCEPT ![n] = g]
    /\ drifted' = IF g = SizeOf(Live(n)) THEN drifted \ {n} ELSE drifted \union {n}
    /\ UNCHANGED <<rows, made>>

(* mark_terminated and recycle_node set it to zero. *)
MarkTerminated(n) == state' = [state EXCEPT ![n] = "terminated"] /\ Overwrite(n, 0)
Recycle(n) == state' = [state EXCEPT ![n] = "ready"] /\ Overwrite(n, 0)

(* An agent's heartbeat sets it to what the agent counts, and the state to *)
(* what the agent says, a terminated row included.                         *)
Heartbeat(n, g) == state' = [state EXCEPT ![n] = "ready"] /\ Overwrite(n, g)

(* A node without a recent heartbeat leaves service with its counter.      *)
MarkUnhealthy(n) ==
    /\ state[n] = "ready"
    /\ state' = [state EXCEPT ![n] = "unhealthy"]
    /\ UNCHANGED <<used, rows, made, drifted>>

(* The spot reclaimer subtracts and deletes every row of a terminated spot *)
(* node, released ones included.                                           *)
Reclaim(n) ==
    /\ n \in Spot
    /\ state[n] = "terminated"
    /\ LET R == {r \in rows : r.node = n} IN
         /\ R # {}
         /\ used' = [used EXCEPT ![n] = @ - SizeOf(R)]
         /\ rows' = rows \ R
    /\ UNCHANGED <<state, made, drifted>>

Next ==
    \/ \E n \in Nodes, g \in Sizes, p \in Priorities : Allocate(n, g, p) \/ Preempt(n, g, p)
    \/ \E r \in rows : Release(r)
    \/ \E n \in Nodes : MarkTerminated(n) \/ Recycle(n) \/ MarkUnhealthy(n) \/ Reclaim(n)
    \/ \E n \in Nodes, g \in Sizes \union {0} : Heartbeat(n, g)

Spec == Init /\ [][Next]_vars

-----------------------------------------------------------------------------
(* The counter of a node in service equals what its live allocations hold, *)
(* unless an overwrite last set it apart from them: allocation, eviction   *)
(* and release move the two together, a second release of the same         *)
(* allocation included, and a reclaim leaves its negative balance only on  *)
(* a node that is out of service.                                          *)
LedgerInSync ==
    \A n \in Nodes :
       state[n] = "ready" /\ n \notin drifted => used[n] = SizeOf(Live(n))

(* The live allocations of a node in service fit in it, unless an          *)
(* overwrite set its counter apart from them.                              *)
NoOvercommit ==
    \A n \in Nodes :
       state[n] = "ready" /\ n \notin drifted => SizeOf(Live(n)) <= Total

(* Allocations are evicted only for a request of higher priority on a spot *)
(* node, and the last of them was needed for the request to fit.           *)
EvictionJustified ==
    \A n \in Nodes, g \in Sizes, p \in Priorities :
       Preempt(n, g, p) =>
          LET gone == {r \in Live(n) : [r EXCEPT !.live = FALSE] \in rows'}
          IN  /\ \A r \in gone : n \in Spot /\ r.prio < p
              /\ \E r \in gone : Free(n) + SizeOf(gone \ {r}) < g
=============================================================================
