---------------------------- MODULE CitadelNode ----------------------------
(***************************************************************************)
(* The Citadel nodes (citadel.rs, DefederationNode): each emits operations *)
(* numbered by its own counter and ingests batches of operations under the *)
(* write lock of its AsyncRwLock. The transport is left open as long as it *)
(* does not forge: a batch is any sequence of operations that some node's  *)
(* op_log holds, so operations are lost, delayed, duplicated and reordered *)
(* at will, and none is made up.                                           *)
(*                                                                         *)
(* ingest_batch and the drain loop of try_apply_with_reordering are split  *)
(* into one step per operation; `phase` is the lock: while it is not       *)
(* "idle" the node takes only the steps of the batch.                      *)
(***************************************************************************)
EXTENDS LensOps, FiniteSets

CONSTANTS
  SiteOf,          \* local_site_id of each node; nodes may share a site
  HostOf,          \* host_id of each node
  InitTrusted,     \* configured trusted origins of each node
  Flagship,        \* origins the flagship snapshot may list
  Writer,          \* the nodes whose API is called to write
  Target,          \* sites the API follows and unfollows
  TrustTarget,     \* origins emit_local_trust is called with
  BasePow,         \* base_pow_bits of each node
  TrustedPow,      \* trusted_pow_bits of each node
  MaxOpsPerOrigin, \* max_ops_per_origin_per_round
  MaxNewOrigins,   \* max_new_origins_per_host_per_round
  MaxPending,      \* max_pending_per_origin
  MaxBatch,        \* bound: operations in a batch
  Round            \* the rounds batches are sent with

ASSUME NodeAssumption ==
  /\ Writer \subseteq Node /\ Target \subseteq Site
  /\ SiteOf \in [Node -> Site]
  /\ HostOf \in [Node -> Host]
  /\ InitTrusted \in [Node -> SUBSET Node]
  /\ Flagship \subseteq Node /\ TrustTarget \subseteq Node
  /\ BasePow \in [Node -> Nat] /\ TrustedPow \in [Node -> Nat]
  /\ MaxOpsPerOrigin \in Nat /\ MaxNewOrigins \in Nat /\ MaxPending \in Nat
  /\ MaxBatch \in Nat
  /\ Round \subseteq Nat

VARIABLES
  local_counter,   \* number of the last operation emitted
  trusted_origins,
  known_origins,
  frontier,        \* per origin, the last operation applied
  pending,         \* per origin, operations above a gap: at most one per counter
  graph,           \* the LensGraph
  op_log,          \* per origin, the operations applied, in order
  guard_state,     \* round, per_origin_counts, per_host_new_origins
  phase,           \* "idle", or what ingest_batch is at: "ops" or "drain"
  batch            \* what ingest_batch has left; in "drain" its head is applied

nodeVars == <<local_counter, trusted_origins, known_origins, frontier, pending,
              graph, op_log, guard_state, phase, batch>>

\* What the transport carries: operations that are in some node's log.
Sendable == UNION {OpsOf(op_log[m][o]) : m, o \in Node}

Batches == UNION {[1..k -> Sendable] : k \in 0..MaxBatch}

GuardState == [round : Nat, per_origin_counts : [Node -> Nat],
               per_host_new_origins : [Host -> Nat]]

TypeOK ==
  /\ local_counter \in [Node -> Nat]
  /\ trusted_origins \in [Node -> SUBSET Node]
  /\ known_origins \in [Node -> SUBSET Node]
  /\ frontier \in [Node -> [Node -> Nat]]
  /\ pending \in [Node -> [Node -> SUBSET Op]]
  /\ graph \in [Node -> Graph]
  /\ op_log \in [Node -> [Node -> Seq(Op)]]
  /\ guard_state \in [Node -> GuardState]
  /\ phase \in [Node -> {"idle", "ops", "drain"}]
  /\ batch \in [Node -> Seq(Op)]

NewGuardState == [round |-> 0, per_origin_counts |-> [o \in Node |-> 0],
                  per_host_new_origins |-> [h \in Host |-> 0]]

\* DefederationNode::new.
NodeInit ==
  /\ local_counter = [n \in Node |-> 0]
  /\ trusted_origins = [n \in Node |-> InitTrusted[n] \cup {n}]
  /\ known_origins = [n \in Node |-> {n}]
  /\ frontier = [n \in Node |-> [o \in Node |-> 0]]
  /\ pending = [n \in Node |-> [o \in Node |-> {}]]
  /\ graph = [n \in Node |-> EmptyGraph]
  /\ op_log = [n \in Node |-> [o \in Node |-> <<>>]]
  /\ guard_state = [n \in Node |-> NewGuardState]
  /\ phase = [n \in Node |-> "idle"]
  /\ batch = [n \in Node |-> <<>>]
-----------------------------------------------------------------------------
\* trust_origin on the trusted set of a node.
TrustOrigin(trusted, origin, on) ==
  IF on THEN trusted \cup {origin} ELSE trusted \ {origin}

\* apply_kind: graph operations go through lww_update, trust operations
\* through trust_origin.
ApplyKind(n, op) ==
  IF op.key \in GraphKey
  THEN /\ graph' = [graph EXCEPT ![n] = UpdateGraph(@, op.key, EntryOf(op))]
       /\ UNCHANGED trusted_origins
  ELSE /\ trusted_origins' =
            [trusted_origins EXCEPT ![n] = TrustOrigin(@, op.key[2], op.on)]
       /\ UNCHANGED graph

\* apply_ordered_op: the frontier is set whatever it was, the log grows only
\* when the operation is the next one.
ApplyOrderedOp(n, op) ==
  /\ ApplyKind(n, op)
  /\ frontier' = [frontier EXCEPT ![n][op.origin] = op.counter]
  /\ op_log' = [op_log EXCEPT ![n][op.origin] =
                  IF Len(@) = op.counter - 1 THEN Append(@, op) ELSE @]
-----------------------------------------------------------------------------
(* Local operations, under the write lock. *)

\* Mutant: the counter of the node is not moved on.
EmitLocalKeepsCounter(n, key, on) ==
  /\ n \in Writer
  /\ phase[n] = "idle"
  /\ local_counter[n] < MaxCounter
  /\ \E pow \in BasePow[n]..MaxPow :
       ApplyOrderedOp(n, [origin |-> n, counter |-> local_counter[n] + 1,
                          host_id |-> HostOf[n], key |-> key, on |-> on,
                          pow |-> pow])
  /\ UNCHANGED <<local_counter, known_origins, pending, guard_state, phase, batch>>

\* Mutant: a node mines at the difficulty of a trusted origin.
EmitLocalTrustedPow(n, key, on) ==
  /\ n \in Writer
  /\ phase[n] = "idle"
  /\ local_counter[n] < MaxCounter
  /\ local_counter' = [local_counter EXCEPT ![n] = @ + 1]
  /\ \E pow \in TrustedPow[n]..MaxPow :
       ApplyOrderedOp(n, [origin |-> n, counter |-> local_counter[n] + 1,
                          host_id |-> HostOf[n], key |-> key, on |-> on,
                          pow |-> pow])
  /\ UNCHANGED <<known_origins, pending, guard_state, phase, batch>>

\* next_local_op then apply_ordered_op.  mine_nonce searches until the hash
\* has at least base_pow_bits leading zeros; how many more is chance.
EmitLocal(n, key, on) ==
  /\ n \in Writer
  /\ phase[n] = "idle"
  /\ local_counter[n] < MaxCounter
  /\ local_counter' = [local_counter EXCEPT ![n] = @ + 1]
  /\ \E pow \in BasePow[n]..MaxPow :
       ApplyOrderedOp(n, [origin |-> n, counter |-> local_counter[n] + 1,
                          host_id |-> HostOf[n], key |-> key, on |-> on,
                          pow |-> pow])
  /\ UNCHANGED <<known_origins, pending, guard_state, phase, batch>>

\* citadel_follow, citadel_unfollow and the flagship bootstrap.
EmitFollow(n, target, enabled) ==
  EmitLocal(n, <<"follow", SiteOf[n], target>>, enabled)

EmitContent(n, slot, present) ==
  EmitLocal(n, <<"content", SiteOf[n], slot>>, present)

EmitTrust(n, origin, trusted) == EmitLocal(n, <<"trust", origin>>, trusted)

\* The periodic flagship refresh: origins are only ever added.
RefreshTrust(n, origins) ==
  /\ phase[n] = "idle"
  /\ trusted_origins' = [trusted_origins EXCEPT ![n] = @ \cup origins]
  /\ UNCHANGED <<local_counter, known_origins, frontier, pending, graph, op_log,
                 guard_state, phase, batch>>
-----------------------------------------------------------------------------
(* ingest_batch *)

\* Mutant: the counts of the last round are kept.
RollToKeepsCounts(guard, round) ==
  [round |-> round, per_origin_counts |-> guard.per_origin_counts,
   per_host_new_origins |-> guard.per_host_new_origins]

\* roll_to: any other round, an earlier one included, clears the counts.
RollTo(guard, round) ==
  IF guard.round = round THEN guard ELSE [NewGuardState EXCEPT !.round = round]

BeginBatch(n, round, ops) ==
  /\ phase[n] = "idle"
  /\ guard_state' = [guard_state EXCEPT ![n] = RollTo(@, round)]
  /\ phase' = [phase EXCEPT ![n] = "ops"]
  /\ batch' = [batch EXCEPT ![n] = ops]
  /\ UNCHANGED <<local_counter, trusted_origins, known_origins, frontier, pending,
                 graph, op_log>>

\* The three checks of ingest_batch, in order; a rejected operation leaves
\* no trace.
RejectedSybil(n, op) ==
  /\ op.origin \notin known_origins[n] \cup trusted_origins[n]
  /\ guard_state[n].per_host_new_origins[op.host_id] >= MaxNewOrigins

RejectedRateLimit(n, op) ==
  guard_state[n].per_origin_counts[op.origin] >= MaxOpsPerOrigin

RequiredPowBits(n, origin) ==
  IF origin \in trusted_origins[n] THEN TrustedPow[n] ELSE BasePow[n]

\* Mutant: exactly the required difficulty is not enough.
RejectedPowAtBound(n, op) == op.pow <= RequiredPowBits(n, op.origin)

RejectedPow(n, op) == op.pow < RequiredPowBits(n, op.origin)

Admissible(n, op) == /\ ~RejectedSybil(n, op)
                     /\ ~RejectedRateLimit(n, op)
                     /\ ~RejectedPow(n, op)

\* The operation at hand, and leaving it for the next one.
Current(n) == Head(batch[n])
AtOp(n)    == phase[n] = "ops" /\ batch[n] # <<>>
NextOp(n)  == /\ batch' = [batch EXCEPT ![n] = Tail(@)]
              /\ phase' = [phase EXCEPT ![n] = "ops"]

Reject(n) ==
  /\ AtOp(n)
  /\ ~Admissible(n, Current(n))
  /\ NextOp(n)
  /\ UNCHANGED <<local_counter, trusted_origins, known_origins, frontier, pending,
                 graph, op_log, guard_state>>

\* An admitted operation makes its origin known and is counted, before
\* try_apply_with_reordering looks at its counter.
Admit(n, op) ==
  LET newOrigin == op.origin \notin known_origins[n] \cup trusted_origins[n]
      guard     == guard_state[n]
      counted   == [round |-> guard.round,
                    per_origin_counts |->
                      [guard.per_origin_counts EXCEPT ![op.origin] = @ + 1],
                    per_host_new_origins |->
                      [guard.per_host_new_origins EXCEPT ![op.host_id] =
                         IF newOrigin THEN @ + 1 ELSE @]]
  IN /\ known_origins' = [known_origins EXCEPT ![n] = @ \cup {op.origin}]
     /\ guard_state' = [guard_state EXCEPT ![n] = counted]
     /\ UNCHANGED local_counter

\* try_apply_with_reordering: at or below the frontier.
IgnoreOld(n) ==
  LET op == Current(n)
  IN /\ AtOp(n)
     /\ Admissible(n, op)
     /\ op.counter <= frontier[n][op.origin]
     /\ Admit(n, op)
     /\ NextOp(n)
     /\ UNCHANGED <<trusted_origins, frontier, pending, graph, op_log>>

\* Above a gap: the length is checked before the counter is looked up, and
\* an operation that waits already is not replaced.
QueueReordered(n) ==
  LET op      == Current(n)
      waiting == pending[n][op.origin]
  IN /\ AtOp(n)
     /\ Admissible(n, op)
     /\ op.counter > frontier[n][op.origin] + 1
     /\ Admit(n, op)
     /\ pending' = IF \/ Cardinality(waiting) >= MaxPending
                      \/ \E p \in waiting : p.counter = op.counter
                   THEN pending
                   ELSE [pending EXCEPT ![n][op.origin] = @ \cup {op}]
     /\ NextOp(n)
     /\ UNCHANGED <<trusted_origins, frontier, graph, op_log>>

\* Mutant: any operation above the frontier is applied, gaps are skipped.
ApplyNextOverGap(n) ==
  LET op == Current(n)
  IN /\ AtOp(n)
     /\ Admissible(n, op)
     /\ op.counter > frontier[n][op.origin]
     /\ Admit(n, op)
     /\ ApplyOrderedOp(n, op)
     /\ phase' = [phase EXCEPT ![n] = "drain"]
     /\ UNCHANGED <<pending, batch>>

\* The next operation of its origin is applied, and the drain loop begins.
ApplyNext(n) ==
  LET op == Current(n)
  IN /\ AtOp(n)
     /\ Admissible(n, op)
     /\ op.counter = frontier[n][op.origin] + 1
     /\ Admit(n, op)
     /\ ApplyOrderedOp(n, op)
     /\ phase' = [phase EXCEPT ![n] = "drain"]
     /\ UNCHANGED <<pending, batch>>

\* One turn of the drain loop: the waiting operation that is next by now.
Drain(n) ==
  LET o == Current(n).origin
  IN /\ phase[n] = "drain"
     /\ \E op \in pending[n][o] :
          /\ op.counter = frontier[n][o] + 1
          /\ ApplyOrderedOp(n, op)
          /\ pending' = [pending EXCEPT ![n][o] = @ \ {op}]
     /\ UNCHANGED <<local_counter, known_origins, guard_state, phase, batch>>

\* Mutant: the drain loop may stop while the next operation waits.
DrainStopsEarly(n) ==
  /\ phase[n] = "drain"
  /\ NextOp(n)
  /\ UNCHANGED <<local_counter, trusted_origins, known_origins, frontier,
                 pending, graph, op_log, guard_state>>

DrainDone(n) ==
  LET o == Current(n).origin
  IN /\ phase[n] = "drain"
     /\ \A op \in pending[n][o] : op.counter # frontier[n][o] + 1
     /\ NextOp(n)
     /\ UNCHANGED <<local_counter, trusted_origins, known_origins, frontier,
                    pending, graph, op_log, guard_state>>

\* The batch is through and the write lock is released.
EndBatch(n) ==
  /\ phase[n] = "ops" /\ batch[n] = <<>>
  /\ phase' = [phase EXCEPT ![n] = "idle"]
  /\ UNCHANGED <<local_counter, trusted_origins, known_origins, frontier, pending,
                 graph, op_log, guard_state, batch>>
-----------------------------------------------------------------------------
IngestStep(n) == \/ Reject(n) \/ IgnoreOld(n) \/ QueueReordered(n)
                 \/ ApplyNext(n) \/ Drain(n) \/ DrainDone(n)

LocalStep(n) ==
  \/ \E target \in Target, on \in BOOLEAN : EmitFollow(n, target, on)
  \/ \E slot \in Slot, on \in BOOLEAN : EmitContent(n, slot, on)
  \/ \E origin \in TrustTarget, on \in BOOLEAN : EmitTrust(n, origin, on)
  \/ \E origins \in SUBSET Flagship : RefreshTrust(n, origins)

NodeNext ==
  \E n \in Node : \/ LocalStep(n)
                  \/ \E round \in Round, ops \in Batches : BeginBatch(n, round, ops)
                  \/ IngestStep(n)
                  \/ EndBatch(n)

NodeSpec == NodeInit /\ [][NodeNext]_nodeVars
-----------------------------------------------------------------------------
(* Properties *)

\* An operation as its origin emitted it.
Genuine(op) == /\ op.counter \in 1..frontier[op.origin][op.origin]
               /\ op = op_log[op.origin][op.origin][op.counter]

\* Every node's log of an origin is the prefix of the origin's own log that
\* the frontier counts, so missing_ops_for_frontier of any node serves the
\* operations the origin emitted, without holes, and a frontier names one
\* set of operations (apply_ordered_op, try_apply_with_reordering).
OneHistory ==
  \A n, o \in Node :
    /\ Len(op_log[n][o]) = frontier[n][o]
    /\ frontier[n][o] <= frontier[o][o]
    /\ \A i \in 1..frontier[n][o] : /\ op_log[n][o][i] = op_log[o][o][i]
                                    /\ op_log[n][o][i].origin = o
                                    /\ op_log[n][o][i].counter = i

\* "Deterministic anti-drift convergence using ordered op frontiers"
\* (citadel.rs:4): two nodes with the same frontier have the same graph,
\* hence the same view and digest, whatever order, duplicates and batches
\* their operations came in.
NoDrift == \A m, n \in Node : frontier[m] = frontier[n] => graph[m] = graph[n]

\* The reorder buffer of try_apply_with_reordering: what waits is genuine, is
\* above the frontier, is at most MaxPending operations of an origin with one
\* per counter, and never is the next operation unless the drain loop is
\* about to take it, so no operation is stranded in the buffer.
ReorderBuffer ==
  \A n, o \in Node :
    /\ IsFiniteSet(pending[n][o]) /\ Cardinality(pending[n][o]) <= MaxPending
    /\ \A p \in pending[n][o] :
         /\ p.origin = o /\ Genuine(p)
         /\ p.counter > frontier[n][o]
         /\ p.counter = frontier[n][o] + 1 =>
              phase[n] = "drain" /\ Current(n).origin = o

\* "Local ops must be portable to untrusted peers" (citadel.rs:412): no
\* operation in any log is refused by any node's PoW gate, whether the node
\* trusts the origin at the time or not, when all nodes have the same base
\* difficulty and the trusted one is no higher.
PortableOps == \A n \in Node, op \in Sendable : ~RejectedPow(n, op)

\* The same of the trust set, for nodes that were configured alike: it does
\* not hold, because apply_kind lets the last trust operation to arrive win
\* while follows and content go by timestamp.  A node always starts with
\* itself in its set, so the two nodes' own ids are left out.
TrustNoDrift ==
  \A m, n \in Node :
    frontier[m] = frontier[n] /\ InitTrusted[m] = InitTrusted[n] =>
      trusted_origins[m] \ {m, n} = trusted_origins[n] \ {m, n}

\* The operations a node has applied.
AppliedOps(n) == UNION {OpsOf(op_log[n][o]) : o \in Node}

\* The inductive invariant behind the properties above.
NodeInv ==
  /\ TypeOK
  /\ OneHistory
  /\ ReorderBuffer
  /\ \A n \in Node : /\ local_counter[n] = frontier[n][n]
                     /\ \A p \in OpsOf(batch[n]) : Genuine(p)
                     /\ phase[n] = "drain" => batch[n] # <<>>
                     /\ IsJoin(graph[n], AppliedOps(n))
=============================================================================
