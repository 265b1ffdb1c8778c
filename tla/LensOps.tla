------------------------------ MODULE LensOps ------------------------------
(***************************************************************************)
(* The operations Citadel nodes exchange (citadel.rs, LensOp) and the      *)
(* graph that a set of operations adds up to.                              *)
(***************************************************************************)
EXTENDS LensGraph, Sequences

CONSTANTS Node,        \* the node ids, which are also the origins of operations
          Host,        \* host ids
          MaxCounter,  \* bound: operations a node emits
          MaxPow       \* bound: leading zero bits of an operation's hash

ASSUME OpsAssumption == Node \subseteq Nat /\ MaxCounter \in Nat /\ MaxPow \in Nat

TrustKey == {"trust"} \X Node

\* A LensOp; `pow` is the number of leading zero bits of its hash.
Op == [origin : Node, counter : 1..MaxCounter, host_id : Host,
       key : GraphKey \cup TrustKey, on : BOOLEAN, pow : 0..MaxPow]

\* apply_kind stamps an entry with the operation's counter and origin.
TsOf(op)    == [counter |-> op.counter, origin |-> op.origin]
EntryOf(op) == [ts |-> TsOf(op), present |-> op.on]

OpsOf(log) == {log[i] : i \in DOMAIN log}

\* The last-writer-wins join of a set of operations, whatever their order.
EntriesAt(ops, key) == {EntryOf(op) : op \in {p \in ops : p.key = key}}
Newest(entries) == CHOOSE e \in entries : \A d \in entries : TsGeq(e.ts, d.ts)
Join(ops) == [k \in GraphKey |-> IF EntriesAt(ops, k) = {} THEN Absent
                                 ELSE Newest(EntriesAt(ops, k))]

\* What it means for a graph to be the join, without choosing.
IsJoin(g, ops) ==
  \A k \in GraphKey :
    \/ g[k] = Absent /\ EntriesAt(ops, k) = {}
    \/ g[k] \in EntriesAt(ops, k) /\ \A d \in EntriesAt(ops, k) : TsGeq(g[k].ts, d.ts)
=============================================================================
