------------------------- MODULE CitadelNodeProofs -------------------------
(***************************************************************************)
(* For every set of nodes, sites, hosts and bounds, and for a transport    *)
(* that loses, delays, duplicates and reorders operations at will: the     *)
(* nodes keep one history per origin, nodes with the same frontier have    *)
(* the same graph.                                                         *)
(***************************************************************************)
EXTENDS CitadelApplyProofs
-----------------------------------------------------------------------------
(* Each action keeps the invariant *)

\* A local operation: it is the next of its origin, and none of the node's
\* own operations can wait in its buffer.
LEMMA EmitInv ==
  ASSUME NodeInv, NEW n \in Node, NEW key \in GraphKey \cup TrustKey,
         NEW on \in BOOLEAN, EmitLocal(n, key, on)
  PROVE  NodeInv'
<1>1. PICK pow \in BasePow[n]..MaxPow :
        ApplyOrderedOp(n, [origin |-> n, counter |-> local_counter[n] + 1,
                           host_id |-> HostOf[n], key |-> key, on |-> on,
                           pow |-> pow])
  BY DEF EmitLocal
<1> DEFINE op == [origin |-> n, counter |-> local_counter[n] + 1,
                  host_id |-> HostOf[n], key |-> key, on |-> on, pow |-> pow]
<1>2. /\ local_counter[n] \in Nat /\ local_counter[n] < MaxCounter
      /\ local_counter' = [local_counter EXCEPT ![n] = @ + 1]
      /\ UNCHANGED <<known_origins, pending, guard_state, phase, batch>>
      /\ TypeOK /\ OneHistory /\ ReorderBuffer
      /\ \A m \in Node : local_counter[m] = frontier[m][m]
      /\ \A m \in Node : IsJoin(graph[m], AppliedOps(m))
  <2>1. /\ TypeOK /\ OneHistory /\ ReorderBuffer
        /\ \A m \in Node : local_counter[m] = frontier[m][m]
        /\ \A m \in Node : IsJoin(graph[m], AppliedOps(m))
    BY DEF NodeInv
  <2>2. local_counter[n] \in Nat
    BY <2>1 DEF TypeOK
  <2> QED BY <2>1, <2>2 DEF EmitLocal
<1>3. op \in Op
  <2>1. MaxCounter \in Nat /\ MaxPow \in Nat /\ BasePow[n] \in Nat /\ HostOf[n] \in Host
    BY NodeAssumption, OpsAssumption
  <2>2. local_counter[n] + 1 \in 1..MaxCounter
    BY <2>1, <1>2
  <2>3. pow \in 0..MaxPow
    BY <2>1
  <2> QED BY <2>1, <2>2, <2>3 DEF Op
<1>4. op.origin = n /\ op.counter = frontier[n][op.origin] + 1
  BY <1>2
<1>5. ApplyOrderedOp(n, op)
  BY <1>1
<1> HIDE DEF op
<1>6. /\ frontier' \in [Node -> [Node -> Nat]]
      /\ op_log' \in [Node -> [Node -> Seq(Op)]]
      /\ graph' \in [Node -> Graph]
      /\ trusted_origins' \in [Node -> SUBSET Node]
      /\ frontier' = [frontier EXCEPT ![n][op.origin] = op.counter]
      /\ OneHistory'
      /\ \A p \in Op : Genuine(p) => Genuine(p)'
      /\ \A m \in Node : IsJoin(graph[m], AppliedOps(m))'
  BY <1>2, <1>3, <1>4, <1>5, ApplyOrdered
<1>7. TypeOK'
  <2>1. local_counter' \in [Node -> Nat]
    BY <1>2 DEF TypeOK
  <2>2. /\ known_origins' = known_origins /\ pending' = pending
        /\ guard_state' = guard_state /\ phase' = phase /\ batch' = batch
    BY <1>2
  <2>3. TypeOK
    BY <1>2
  <2> QED BY <2>1, <2>2, <2>3, <1>6, Zenon DEF TypeOK
<1>8. \A m \in Node : local_counter'[m] = frontier'[m][m]
  BY <1>2, <1>4, <1>6 DEF TypeOK
<1>9. \A m \in Node : \A p \in OpsOf(batch[m]) : p \in Op /\ Genuine(p)'
  <2>1. \A m \in Node : OpsOf(batch[m]) \subseteq Op
    BY <1>2 DEF TypeOK, OpsOf
  <2> QED BY <2>1, <1>6 DEF NodeInv
<1>10. ReorderBuffer'
  <2> SUFFICES ASSUME NEW m \in Node, NEW o \in Node
               PROVE  /\ IsFiniteSet(pending[m][o])
                      /\ Cardinality(pending[m][o]) <= MaxPending
                      /\ \A p \in pending[m][o] :
                           /\ p.origin = o /\ Genuine(p)'
                           /\ p.counter > frontier'[m][o]
                           /\ p.counter = frontier'[m][o] + 1 =>
                                phase[m] = "drain" /\ Current(m).origin = o
    BY <1>2 DEF ReorderBuffer, Current
  <2>1. /\ IsFiniteSet(pending[m][o]) /\ Cardinality(pending[m][o]) <= MaxPending
        /\ \A p \in pending[m][o] :
             /\ p.origin = o /\ Genuine(p)
             /\ p.counter > frontier[m][o]
             /\ p.counter = frontier[m][o] + 1 =>
                  phase[m] = "drain" /\ Current(m).origin = o
    BY <1>2 DEF ReorderBuffer
  <2>2. pending[m][o] \subseteq Op
    BY <1>2 DEF TypeOK
  <2>3. CASE m = n /\ o = n
    <3>1. \A p \in pending[m][o] : p.counter <= frontier[n][n]
      <4> TAKE p \in pending[m][o]
      <4>1. p.counter \in 1..frontier[n][n]
        BY <2>1, <2>3 DEF Genuine
      <4> QED BY <4>1, <1>2 DEF TypeOK
    <3>2. \A p \in pending[m][o] : p.counter > frontier[n][n] /\ p.counter \in Nat
      BY <2>1, <2>2, <2>3, EntryType
    <3>3. frontier[n][n] \in Nat
      BY <1>2 DEF TypeOK
    <3>4. pending[m][o] = {}
      BY <3>1, <3>2, <3>3
    <3> QED BY <3>4, <2>1
  <2>4. CASE ~(m = n /\ o = n)
    <3>1. frontier'[m][o] = frontier[m][o]
      BY <2>4, <1>2, <1>4, <1>6 DEF TypeOK
    <3> QED BY <3>1, <2>1, <2>2, <1>6, Zenon
  <2> QED BY <2>3, <2>4
<1>11. \A m \in Node : phase'[m] = "drain" => batch'[m] # <<>>
  BY <1>2 DEF NodeInv
<1> QED BY <1>2, <1>6, <1>7, <1>8, <1>9, <1>10, <1>11 DEF NodeInv

\* A step of node n that applies and buffers nothing.
LEMMA QuietStep ==
  ASSUME NodeInv, NEW n \in Node,
         UNCHANGED <<local_counter, frontier, pending, graph, op_log>>,
         trusted_origins' \in [Node -> SUBSET Node],
         known_origins' \in [Node -> SUBSET Node],
         guard_state' \in [Node -> GuardState],
         phase' \in [Node -> {"idle", "ops", "drain"}],
         batch' \in [Node -> Seq(Op)],
         \A m \in Node : m # n => phase'[m] = phase[m] /\ batch'[m] = batch[m],
         \A o \in Node : \A p \in pending[n][o] : p.counter # frontier[n][o] + 1,
         \A p \in OpsOf(batch'[n]) : Genuine(p),
         phase'[n] = "drain" => batch'[n] # <<>>
  PROVE  NodeInv'
<1>1. /\ local_counter' = local_counter /\ frontier' = frontier /\ pending' = pending
      /\ graph' = graph /\ op_log' = op_log
  OBVIOUS
<1>2. TypeOK'
  <2>1. TypeOK
    BY DEF NodeInv
  <2> QED BY <2>1, <1>1, Zenon DEF TypeOK
<1>3. /\ OneHistory'
      /\ \A p \in Op : Genuine(p) => Genuine(p)'
      /\ \A m \in Node : IsJoin(graph[m], AppliedOps(m))'
  BY HistoryFrame
<1>4. ReorderBuffer'
  BY BufferFrame
<1>5. \A m \in Node : local_counter'[m] = frontier'[m][m]
  BY <1>1 DEF NodeInv
<1>6. \A m \in Node : OpsOf(batch'[m]) \subseteq Op
  BY DEF OpsOf
<1>7. \A m \in Node : \A p \in OpsOf(batch'[m]) : Genuine(p)
  BY Zenon DEF NodeInv
<1>8. \A m \in Node : \A p \in OpsOf(batch'[m]) : Genuine(p)'
  BY <1>3, <1>6, <1>7
<1>9. \A m \in Node : phase'[m] = "drain" => batch'[m] # <<>>
  BY Zenon DEF NodeInv
<1> QED BY <1>2, <1>3, <1>4, <1>5, <1>8, <1>9 DEF NodeInv

\* The flagship refresh.
LEMMA RefreshInv ==
  ASSUME NodeInv, NEW n \in Node, NEW origins \in SUBSET Flagship,
         RefreshTrust(n, origins)
  PROVE  NodeInv'
<1>1. TypeOK
  BY DEF NodeInv
<1>2. trusted_origins' \in [Node -> SUBSET Node]
  <2>1. origins \subseteq Node
    BY NodeAssumption, OpsAssumption
  <2> QED BY <1>1, <2>1 DEF RefreshTrust, TypeOK
<1>3. /\ UNCHANGED <<local_counter, frontier, pending, graph, op_log>>
      /\ known_origins' = known_origins /\ guard_state' = guard_state
      /\ phase' = phase /\ batch' = batch /\ phase[n] = "idle"
  BY DEF RefreshTrust
<1>4. \A o \in Node : \A p \in pending[n][o] : p.counter # frontier[n][o] + 1
  BY <1>3, NothingNext
<1>5. /\ \A p \in OpsOf(batch[n]) : Genuine(p)
      /\ phase[n] = "drain" => batch[n] # <<>>
  BY DEF NodeInv
<1>6. /\ known_origins \in [Node -> SUBSET Node] /\ guard_state \in [Node -> GuardState]
      /\ phase \in [Node -> {"idle", "ops", "drain"}] /\ batch \in [Node -> Seq(Op)]
  BY <1>1 DEF TypeOK
<1> QED BY <1>2, <1>3, <1>4, <1>5, <1>6, QuietStep

\* The beginning of a batch: roll_to, and operations from some log.
LEMMA BeginInv ==
  ASSUME NodeInv, NEW n \in Node, NEW round \in Round, NEW ops \in Batches,
         BeginBatch(n, round, ops)
  PROVE  NodeInv'
<1>1. TypeOK
  BY DEF NodeInv
<1>2. guard_state' \in [Node -> GuardState]
  <2>1. round \in Nat
    BY NodeAssumption, OpsAssumption
  <2>2. guard_state \in [Node -> GuardState]
    BY <1>1 DEF TypeOK
  <2>3. RollTo(guard_state[n], round) \in GuardState
    BY <2>1, <2>2 DEF RollTo, NewGuardState, GuardState
  <2> QED BY <2>2, <2>3 DEF BeginBatch
<1>3. PICK k \in 0..MaxBatch : ops \in [1..k -> Sendable]
  BY DEF Batches
<1>4. ops \in Seq(Op) /\ \A p \in OpsOf(ops) : Genuine(p)
  <2>1. k \in Nat
    BY NodeAssumption, OpsAssumption
  <2>2. \A i \in 1..k : ops[i] \in Op /\ Genuine(ops[i])
    BY <1>3, SendableGenuine
  <2>3. DOMAIN ops = 1..k
    BY <1>3
  <2>4. ops \in [1..k -> Op]
    BY <1>3, <2>2
  <2> QED BY <2>1, <2>2, <2>3, <2>4 DEF OpsOf
<1>5. /\ UNCHANGED <<local_counter, frontier, pending, graph, op_log>>
      /\ known_origins' = known_origins /\ trusted_origins' = trusted_origins
      /\ phase[n] = "idle"
      /\ phase' = [phase EXCEPT ![n] = "ops"] /\ batch' = [batch EXCEPT ![n] = ops]
  BY DEF BeginBatch
<1>6. /\ phase' \in [Node -> {"idle", "ops", "drain"}] /\ phase'[n] = "ops"
      /\ batch' \in [Node -> Seq(Op)] /\ batch'[n] = ops
      /\ \A m \in Node : m # n => phase'[m] = phase[m] /\ batch'[m] = batch[m]
  BY <1>1, <1>4, <1>5 DEF TypeOK
<1>7. \A o \in Node : \A p \in pending[n][o] : p.counter # frontier[n][o] + 1
  BY <1>5, NothingNext
<1>8. /\ trusted_origins' \in [Node -> SUBSET Node]
      /\ known_origins' \in [Node -> SUBSET Node]
  BY <1>1, <1>5 DEF TypeOK
<1> QED BY <1>2, <1>4, <1>5, <1>6, <1>7, <1>8, QuietStep

\* The end of a batch.
LEMMA EndInv ==
  ASSUME NodeInv, NEW n \in Node, EndBatch(n)
  PROVE  NodeInv'
<1>1. TypeOK
  BY DEF NodeInv
<1>2. /\ UNCHANGED <<local_counter, frontier, pending, graph, op_log>>
      /\ known_origins' = known_origins /\ trusted_origins' = trusted_origins
      /\ guard_state' = guard_state /\ batch' = batch
      /\ phase[n] = "ops" /\ phase' = [phase EXCEPT ![n] = "idle"]
  BY DEF EndBatch
<1>3. /\ trusted_origins' \in [Node -> SUBSET Node]
      /\ known_origins' \in [Node -> SUBSET Node]
      /\ guard_state' \in [Node -> GuardState]
      /\ batch' \in [Node -> Seq(Op)]
  BY <1>1, <1>2 DEF TypeOK
<1>4. /\ phase' \in [Node -> {"idle", "ops", "drain"}] /\ phase'[n] = "idle"
      /\ \A m \in Node : m # n => phase'[m] = phase[m] /\ batch'[m] = batch[m]
  BY <1>1, <1>2 DEF TypeOK
<1>5. \A o \in Node : \A p \in pending[n][o] : p.counter # frontier[n][o] + 1
  BY <1>2, NothingNext
<1>6. \A p \in OpsOf(batch'[n]) : Genuine(p)
  BY <1>2 DEF NodeInv
<1> QED BY <1>2, <1>3, <1>4, <1>5, <1>6, QuietStep, SMTT(20)

\* Leaving an operation that is rejected, old, or whose drain is done.
LEMMA SkipInv ==
  ASSUME NodeInv, NEW n \in Node, batch[n] # <<>>, NextOp(n),
         UNCHANGED <<local_counter, trusted_origins, frontier, pending, graph, op_log>>,
         known_origins' \in [Node -> SUBSET Node],
         guard_state' \in [Node -> GuardState],
         \A o \in Node : \A p \in pending[n][o] : p.counter # frontier[n][o] + 1
  PROVE  NodeInv'
<1>1. TypeOK
  BY DEF NodeInv
<1>2. \A p \in Op : Genuine(p) => Genuine(p)'
  BY HistoryFrame
<1>3. /\ batch' \in [Node -> Seq(Op)]
      /\ phase' \in [Node -> {"idle", "ops", "drain"}]
      /\ \A m \in Node : m # n => phase'[m] = phase[m] /\ batch'[m] = batch[m]
      /\ \A m \in Node : phase'[m] = "drain" => batch'[m] # <<>>
      /\ \A m \in Node : \A p \in OpsOf(batch'[m]) : Genuine(p)'
  BY <1>2, NextOpInv
<1>4. \A p \in OpsOf(batch'[n]) : Genuine(p)
  BY <1>3 DEF Genuine
<1>5. trusted_origins' \in [Node -> SUBSET Node]
  BY <1>1 DEF TypeOK
<1> QED BY <1>3, <1>4, <1>5, QuietStep, SMTT(20)

\* A rejected operation.
LEMMA RejectInv ==
  ASSUME NodeInv, NEW n \in Node, Reject(n)
  PROVE  NodeInv'
<1>1. /\ phase[n] = "ops" /\ batch[n] # <<>> /\ NextOp(n)
      /\ UNCHANGED <<local_counter, trusted_origins, frontier, pending, graph, op_log>>
      /\ known_origins' = known_origins /\ guard_state' = guard_state
  BY DEF Reject, AtOp
<1>2. /\ known_origins' \in [Node -> SUBSET Node] /\ guard_state' \in [Node -> GuardState]
  BY <1>1 DEF NodeInv, TypeOK
<1>3. \A o \in Node : \A p \in pending[n][o] : p.counter # frontier[n][o] + 1
  BY <1>1, NothingNext
<1> QED BY <1>1, <1>2, <1>3, SkipInv

\* The operation at hand is genuine.
LEMMA CurrentOp ==
  ASSUME NodeInv, NEW n \in Node, batch[n] # <<>>
  PROVE  Current(n) \in Op /\ Genuine(Current(n)) /\ Current(n).origin \in Node
<1>1. batch[n] \in Seq(Op)
  BY DEF NodeInv, TypeOK
<1>2. Current(n) = batch[n][1] /\ 1 \in DOMAIN batch[n] /\ batch[n][1] \in Op
  BY <1>1 DEF Current
<1>3. Genuine(Current(n))
  BY <1>2 DEF NodeInv, OpsOf
<1> QED BY <1>2, <1>3 DEF Op

\* An operation at or below the frontier.
LEMMA IgnoreInv ==
  ASSUME NodeInv, NEW n \in Node, IgnoreOld(n)
  PROVE  NodeInv'
<1>1. /\ phase[n] = "ops" /\ batch[n] # <<>> /\ NextOp(n) /\ Admit(n, Current(n))
      /\ UNCHANGED <<trusted_origins, frontier, pending, graph, op_log>>
  BY DEF IgnoreOld, AtOp
<1>2. Current(n) \in Op /\ TypeOK
  BY <1>1, CurrentOp DEF NodeInv
<1>3. /\ known_origins' \in [Node -> SUBSET Node]
      /\ guard_state' \in [Node -> GuardState]
      /\ UNCHANGED local_counter
  BY <1>1, <1>2, AdmitType
<1>4. \A o \in Node : \A p \in pending[n][o] : p.counter # frontier[n][o] + 1
  BY <1>1, NothingNext
<1> QED BY <1>1, <1>3, <1>4, SkipInv

\* The end of a drain: nothing waiting is next.
LEMMA DrainDoneInv ==
  ASSUME NodeInv, NEW n \in Node, DrainDone(n)
  PROVE  NodeInv'
<1>1. /\ phase[n] = "drain" /\ NextOp(n)
      /\ UNCHANGED <<local_counter, trusted_origins, frontier, pending, graph, op_log>>
      /\ known_origins' = known_origins /\ guard_state' = guard_state
      /\ \A p \in pending[n][Current(n).origin] :
           p.counter # frontier[n][Current(n).origin] + 1
  BY DEF DrainDone
<1>2. batch[n] # <<>>
  BY <1>1 DEF NodeInv
<1>3. /\ known_origins' \in [Node -> SUBSET Node] /\ guard_state' \in [Node -> GuardState]
  BY <1>1 DEF NodeInv, TypeOK
<1>4. \A o \in Node : \A p \in pending[n][o] : p.counter # frontier[n][o] + 1
  BY <1>1 DEF NodeInv, ReorderBuffer
<1> QED BY <1>1, <1>2, <1>3, <1>4, SkipInv

\* An operation that waits is added to the buffer, or left out of a full one.
LEMMA QueueInv ==
  ASSUME NodeInv, NEW n \in Node, QueueReordered(n)
  PROVE  NodeInv'
<1>0. PICK op : op = Current(n)
  OBVIOUS
<1> DEFINE o == op.origin
<1>1. /\ phase[n] = "ops" /\ batch[n] # <<>> /\ NextOp(n) /\ Admit(n, op)
      /\ UNCHANGED <<trusted_origins, frontier, graph, op_log>>
      /\ op.counter > frontier[n][o] + 1
      /\ pending' = IF \/ Cardinality(pending[n][o]) >= MaxPending
                       \/ \E p \in pending[n][o] : p.counter = op.counter
                    THEN pending
                    ELSE [pending EXCEPT ![n][o] = @ \cup {op}]
  BY <1>0 DEF QueueReordered, AtOp
<1>2. /\ TypeOK /\ op \in Op /\ Genuine(op) /\ o \in Node
      /\ op.counter \in Nat /\ frontier[n][o] \in Nat
  <2>1. TypeOK /\ op \in Op /\ Genuine(op) /\ o \in Node
    BY <1>0, <1>1, CurrentOp DEF NodeInv
  <2> QED BY <2>1, EntryType, Zenon DEF TypeOK
<1>3. /\ known_origins' \in [Node -> SUBSET Node]
      /\ guard_state' \in [Node -> GuardState]
      /\ local_counter' = local_counter
  BY <1>1, <1>2, AdmitType
<1>4. CASE pending' = pending
  <2>1. \A x \in Node : \A p \in pending[n][x] : p.counter # frontier[n][x] + 1
    BY <1>1, NothingNext
  <2> QED BY <1>1, <1>3, <1>4, <2>1, SkipInv
<1>5. CASE pending' # pending
  <2>1. /\ pending' = [pending EXCEPT ![n][o] = pending[n][o] \cup {op}]
        /\ ~(Cardinality(pending[n][o]) >= MaxPending)
    BY <1>1, <1>2, <1>5 DEF TypeOK
  <2>2. /\ pending' \in [Node -> [Node -> SUBSET Op]]
        /\ pending'[n][o] = pending[n][o] \cup {op}
        /\ \A m, x \in Node : ~(m = n /\ x = o) => pending'[m][x] = pending[m][x]
    BY <2>1, <1>2, Zenon DEF TypeOK
  <2>3. /\ OneHistory'
        /\ \A p \in Op : Genuine(p) => Genuine(p)'
        /\ \A m \in Node : IsJoin(graph[m], AppliedOps(m))'
    BY <1>1, HistoryFrame
  <2>4. /\ batch' \in [Node -> Seq(Op)]
        /\ phase' \in [Node -> {"idle", "ops", "drain"}]
        /\ \A m \in Node : m # n => phase'[m] = phase[m] /\ batch'[m] = batch[m]
        /\ \A m \in Node : \A p \in OpsOf(batch'[m]) : Genuine(p)'
        /\ \A m \in Node : phase'[m] = "drain" => batch'[m] # <<>>
    BY <1>1, <2>3, NextOpInv
  <2>5. TypeOK'
    <3>1. /\ trusted_origins' = trusted_origins /\ frontier' = frontier
          /\ graph' = graph /\ op_log' = op_log
      BY <1>1
    <3> QED BY <1>2, <1>3, <2>2, <2>4, <3>1, Zenon DEF TypeOK
  <2>6. IsFiniteSet(pending'[n][o]) /\ Cardinality(pending'[n][o]) <= MaxPending
    <3>1. IsFiniteSet(pending[n][o]) /\ Cardinality(pending[n][o]) <= MaxPending
      BY <1>2, Zenon DEF NodeInv, ReorderBuffer
    <3>2. Cardinality(pending[n][o]) \in Nat
      BY <3>1, FS_CardinalityType
    <3>3. /\ IsFiniteSet(pending[n][o] \cup {op})
          /\ \/ Cardinality(pending[n][o] \cup {op}) = Cardinality(pending[n][o])
             \/ Cardinality(pending[n][o] \cup {op}) = Cardinality(pending[n][o]) + 1
      BY <3>1, FS_AddElement
    <3>4. MaxPending \in Nat
      BY NodeAssumption, OpsAssumption
    <3>5. Cardinality(pending[n][o]) + 1 <= MaxPending
      BY <2>1, <3>2, <3>4
    <3>6. Cardinality(pending[n][o] \cup {op}) <= MaxPending
      BY <3>1, <3>3, <3>5
    <3> QED BY <2>2, <3>3, <3>6, Zenon
  <2>7. ReorderBuffer'
    <3> SUFFICES ASSUME NEW m \in Node, NEW x \in Node
                 PROVE  /\ IsFiniteSet(pending'[m][x])
                        /\ Cardinality(pending'[m][x]) <= MaxPending
                        /\ \A p \in pending'[m][x] :
                             /\ p.origin = x /\ Genuine(p)'
                             /\ p.counter > frontier'[m][x]
                             /\ p.counter = frontier'[m][x] + 1 =>
                                  phase'[m] = "drain" /\ Current(m)'.origin = x
      BY DEF ReorderBuffer
    <3>1. /\ IsFiniteSet(pending[m][x]) /\ Cardinality(pending[m][x]) <= MaxPending
          /\ \A p \in pending[m][x] :
               /\ p.origin = x /\ Genuine(p)
               /\ p.counter > frontier[m][x]
               /\ p.counter = frontier[m][x] + 1 =>
                    phase[m] = "drain" /\ Current(m).origin = x
      BY DEF NodeInv, ReorderBuffer
    <3>2. pending[m][x] \subseteq Op /\ frontier' = frontier
      BY <1>1, <1>2, SMTT(20) DEF TypeOK
    <3>3. \A p \in pending[m][x] : p.origin = x /\ Genuine(p)' /\ p.counter > frontier'[m][x]
      BY <3>1, <3>2, <2>3
    <3>4. m # n => phase'[m] = phase[m] /\ Current(m)' = Current(m)
      BY <2>4, SMTT(20) DEF Current
    <3>5. \A p \in pending[m][x] : p.counter = frontier'[m][x] + 1 =>
                                     phase'[m] = "drain" /\ Current(m)'.origin = x
      <4>1. m = n => \A p \in pending[m][x] : p.counter # frontier[m][x] + 1
        BY <1>1, NothingNext
      <4> QED BY <4>1, <3>1, <3>2, <3>4
    <3>6. CASE ~(m = n /\ x = o)
      BY <3>6, <2>2, <3>1, <3>3, <3>5, Zenon
    <3>7. CASE m = n /\ x = o
      <4>1. op.origin = x /\ Genuine(op)'
        BY <3>7, <1>2, <2>3
      <4>2. op.counter > frontier'[m][x] /\ op.counter # frontier'[m][x] + 1
        BY <3>7, <3>2, <1>1, <1>2
      <4> QED BY <3>7, <4>1, <4>2, <2>2, <2>6, <3>3, <3>5, Zenon
    <3> QED BY <3>6, <3>7
  <2>8. \A m \in Node : local_counter'[m] = frontier'[m][m]
    BY <1>1, <1>3 DEF NodeInv
  <2> QED BY <2>3, <2>4, <2>5, <2>7, <2>8 DEF NodeInv
<1> QED BY <1>4, <1>5

\* The next operation of its origin; by NothingNext it is not in the buffer.
LEMMA ApplyNextInv ==
  ASSUME NodeInv, NEW n \in Node, ApplyNext(n)
  PROVE  NodeInv'
<1>0. PICK op : op = Current(n)
  OBVIOUS
<1>1. /\ phase[n] = "ops" /\ batch[n] # <<>> /\ Admit(n, op)
      /\ op.counter = frontier[n][op.origin] + 1
      /\ ApplyOrderedOp(n, op)
      /\ phase' = [phase EXCEPT ![n] = "drain"]
      /\ pending' = pending /\ batch' = batch
  BY <1>0 DEF ApplyNext, AtOp
<1>2. TypeOK /\ op \in Op /\ Genuine(op) /\ op.origin \in Node
  BY <1>0, <1>1, CurrentOp DEF NodeInv
<1>3. /\ known_origins' \in [Node -> SUBSET Node]
      /\ guard_state' \in [Node -> GuardState]
      /\ local_counter' = local_counter
  BY <1>1, <1>2, AdmitType
<1>4. pending' = [pending EXCEPT ![n][op.origin] = pending[n][op.origin] \ {op}]
  <2>1. op \notin pending[n][op.origin]
    BY <1>1, <1>2, NothingNext
  <2>2. pending[n][op.origin] \ {op} = pending[n][op.origin]
    BY <2>1
  <2>3. pending \in [Node -> [Node -> SUBSET Op]]
    BY <1>2 DEF TypeOK
  <2> QED BY <1>1, <1>2, <2>2, <2>3
<1> QED BY <1>0, <1>1, <1>2, <1>3, <1>4, RemoteApplyInv, Zenon

\* A waiting operation whose turn has come.
LEMMA DrainInv ==
  ASSUME NodeInv, NEW n \in Node, Drain(n)
  PROVE  NodeInv'
<1>0. PICK o : o = Current(n).origin
  OBVIOUS
<1>1. PICK op \in pending[n][o] :
        /\ op.counter = frontier[n][o] + 1
        /\ ApplyOrderedOp(n, op)
        /\ pending' = [pending EXCEPT ![n][o] = @ \ {op}]
  BY <1>0, Zenon DEF Drain
<1>2. /\ phase[n] = "drain"
      /\ UNCHANGED <<local_counter, batch>>
      /\ known_origins' = known_origins /\ guard_state' = guard_state /\ phase' = phase
  BY DEF Drain
<1>3. TypeOK /\ batch[n] # <<>>
  BY <1>2 DEF NodeInv
<1>4. o \in Node
  BY <1>0, <1>3, CurrentOp
<1>5. op \in Op /\ op.origin = o /\ Genuine(op)
  <2>1. pending[n][o] \in SUBSET Op
    BY <1>3, <1>4 DEF TypeOK
  <2> QED BY <2>1, <1>1, <1>4 DEF NodeInv, ReorderBuffer
<1>6. /\ known_origins' \in [Node -> SUBSET Node]
      /\ guard_state' \in [Node -> GuardState]
      /\ phase' = [phase EXCEPT ![n] = "drain"]
  BY <1>2, <1>3 DEF TypeOK
<1>7. pending' = [pending EXCEPT ![n][op.origin] = pending[n][op.origin] \ {op}]
  BY <1>1, <1>3, <1>4, <1>5 DEF TypeOK
<1> QED BY <1>0, <1>1, <1>2, <1>3, <1>5, <1>6, <1>7, RemoteApplyInv, Zenon

\* Every step keeps the invariant.
LEMMA StepInv == NodeInv /\ [NodeNext]_nodeVars => NodeInv'
<1> SUFFICES ASSUME NodeInv, [NodeNext]_nodeVars PROVE NodeInv'
  OBVIOUS
<1>1. CASE UNCHANGED nodeVars
  BY <1>1, StutterInv
<1>2. CASE NodeNext
  <2>1. PICK n \in Node : \/ LocalStep(n)
                          \/ \E round \in Round, ops \in Batches : BeginBatch(n, round, ops)
                          \/ IngestStep(n)
                          \/ EndBatch(n)
    BY <1>2 DEF NodeNext
  <2>2. CASE LocalStep(n)
    <3>1. ASSUME NEW target \in Target, NEW on \in BOOLEAN, EmitFollow(n, target, on)
          PROVE  NodeInv'
      <4>1. <<"follow", SiteOf[n], target>> \in GraphKey
        BY NodeAssumption, OpsAssumption DEF GraphKey, FollowKey
      <4> QED BY <3>1, <4>1, EmitInv DEF EmitFollow
    <3>2. ASSUME NEW slot \in Slot, NEW on \in BOOLEAN, EmitContent(n, slot, on)
          PROVE  NodeInv'
      <4>1. <<"content", SiteOf[n], slot>> \in GraphKey
        BY NodeAssumption, OpsAssumption DEF GraphKey, ContentKey
      <4> QED BY <3>2, <4>1, EmitInv DEF EmitContent
    <3>3. ASSUME NEW origin \in TrustTarget, NEW on \in BOOLEAN, EmitTrust(n, origin, on)
          PROVE  NodeInv'
      <4>1. <<"trust", origin>> \in TrustKey
        BY NodeAssumption, OpsAssumption DEF TrustKey
      <4> QED BY <3>3, <4>1, EmitInv DEF EmitTrust
    <3> QED BY <2>2, <3>1, <3>2, <3>3, RefreshInv DEF LocalStep
  <2>3. CASE IngestStep(n)
    BY <2>3, RejectInv, IgnoreInv, QueueInv, ApplyNextInv, DrainInv, DrainDoneInv
       DEF IngestStep
  <2> QED BY <2>1, <2>2, <2>3, BeginInv, EndInv
<1> QED BY <1>1, <1>2

-----------------------------------------------------------------------------
(* The theorems *)

\* NodeInv holds of every reachable state: one history per origin, a reorder
\* buffer that strands nothing, graphs that are the join of what was applied.
THEOREM NodeInvariant == NodeSpec => []NodeInv
BY InitInv, StepInv, PTL DEF NodeSpec

\* Nodes with the same frontier have applied the same operations.
LEMMA SameFrontier ==
  ASSUME NodeInv, NEW m \in Node, NEW n \in Node, frontier[m] = frontier[n]
  PROVE  AppliedOps(m) = AppliedOps(n)
<1>1. ASSUME NEW o \in Node PROVE OpsOf(op_log[m][o]) = OpsOf(op_log[n][o])
  <2>1. /\ op_log[m][o] \in Seq(Op) /\ op_log[n][o] \in Seq(Op)
    BY SMTT(20) DEF NodeInv, TypeOK
  <2>2. /\ Len(op_log[m][o]) = frontier[m][o] /\ Len(op_log[n][o]) = frontier[m][o]
        /\ \A i \in 1..frontier[m][o] : op_log[m][o][i] = op_log[n][o][i]
    BY DEF NodeInv, OneHistory
  <2>3. DOMAIN op_log[m][o] = 1..frontier[m][o] /\ DOMAIN op_log[n][o] = 1..frontier[m][o]
    BY <2>1, <2>2
  <2> QED BY <2>2, <2>3 DEF OpsOf
<1> QED BY <1>1 DEF AppliedOps

\* The operations a node has applied have distinct timestamps, and are the
\* prefixes that its frontier counts of the origins' own logs.
LEMMA AppliedPrefixes ==
  ASSUME NodeInv, NEW n \in Node
  PROVE  /\ OneOpPerStamp(AppliedOps(n))
         /\ AppliedOps(n) = UNION {{op_log[o][o][i] : i \in 1..frontier[n][o]} : o \in Node}
<1>1. ASSUME NEW o \in Node
      PROVE  OpsOf(op_log[n][o]) = {op_log[o][o][i] : i \in 1..frontier[n][o]}
  <2>1. op_log[n][o] \in Seq(Op)
    BY SMTT(20) DEF NodeInv, TypeOK
  <2>2. /\ Len(op_log[n][o]) = frontier[n][o]
        /\ \A i \in 1..frontier[n][o] : op_log[n][o][i] = op_log[o][o][i]
    BY DEF NodeInv, OneHistory
  <2>3. DOMAIN op_log[n][o] = 1..frontier[n][o]
    BY <2>1, <2>2
  <2> QED BY <2>2, <2>3 DEF OpsOf
<1>2. \A p \in AppliedOps(n) : p = op_log[p.origin][p.origin][p.counter]
  <2> TAKE p \in AppliedOps(n)
  <2>1. PICK o \in Node : p \in OpsOf(op_log[n][o])
    BY DEF AppliedOps
  <2>2. p \in Sendable
    BY <2>1 DEF Sendable
  <2> QED BY <2>2, SendableGenuine DEF Genuine
<1>3. OneOpPerStamp(AppliedOps(n))
  BY <1>2 DEF OneOpPerStamp, TsOf
<1> QED BY <1>1, <1>3 DEF AppliedOps

\* Nodes with the same frontier have the same graph, in every reachable
\* state: "deterministic anti-drift convergence using ordered op frontiers".
THEOREM NoDriftTheorem == NodeSpec => []NoDrift
<1>1. NodeInv => NoDrift
  <2> SUFFICES ASSUME NodeInv, NEW m \in Node, NEW n \in Node, frontier[m] = frontier[n]
               PROVE  graph[m] = graph[n]
    BY DEF NoDrift
  <2>1. /\ graph[m] \in Graph /\ graph[n] \in Graph /\ TypeOK
        /\ IsJoin(graph[m], AppliedOps(m)) /\ IsJoin(graph[n], AppliedOps(n))
    BY DEF NodeInv, TypeOK
  <2>2. AppliedOps(m) = AppliedOps(n) /\ OneOpPerStamp(AppliedOps(n))
    BY SameFrontier, AppliedPrefixes
  <2> QED BY <2>1, <2>2, AppliedType, JoinUnique
<1> QED BY <1>1, NodeInvariant, PTL
=============================================================================
