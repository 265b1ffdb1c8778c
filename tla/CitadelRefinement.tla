------------------------- MODULE CitadelRefinement -------------------------
(***************************************************************************)
(* The Citadel nodes implement OrderedOps, for every value of the          *)
(* constants.                                                              *)
(***************************************************************************)
EXTENDS CitadelNodeProofs, CitadelOrdered

\* The histories OrderedOps speaks of: each origin's log of itself.
History == [o \in Node |-> op_log[o][o]]

\* Every graph is the join of the prefixes that its node's frontier counts.
GraphsAreJoins == \A n \in Node : graph[n] = Join(Abstract!Prefixes(History, frontier[n]))

\* OrderedOps and the nodes read the same definitions of LensOps.
LEMMA SameKeys == /\ Abstract!GraphKey = GraphKey
                  /\ Abstract!TrustKey = TrustKey
                  /\ Abstract!EmptyGraph = EmptyGraph
BY DEF GraphKey, FollowKey, ContentKey, TrustKey, EmptyGraph, Absent,
       Abstract!GraphKey, Abstract!FollowKey, Abstract!ContentKey, Abstract!TrustKey,
       Abstract!EmptyGraph, Abstract!Absent

LEMMA SameJoin == ASSUME NEW ops PROVE Abstract!Join(ops) = Join(ops)
BY DEF Join, Newest, EntriesAt, EntryOf, TsOf, TsGeq, GraphKey, FollowKey, ContentKey,
       Absent, Abstract!Join, Abstract!Newest, Abstract!EntriesAt, Abstract!EntryOf,
       Abstract!TsOf, Abstract!TsGeq, Abstract!GraphKey, Abstract!FollowKey,
       Abstract!ContentKey, Abstract!Absent

\* The invariant gives every graph from the histories and the frontier.
LEMMA InvGivesJoins == NodeInv => GraphsAreJoins
<1> SUFFICES ASSUME NodeInv, NEW n \in Node
             PROVE  graph[n] = Join(Abstract!Prefixes(History, frontier[n]))
  BY DEF GraphsAreJoins
<1>1. graph[n] \in Graph /\ TypeOK /\ IsJoin(graph[n], AppliedOps(n))
  BY DEF NodeInv, TypeOK
<1>2. AppliedOps(n) \in SUBSET Op
  BY <1>1, AppliedType
<1>3. /\ OneOpPerStamp(AppliedOps(n))
      /\ AppliedOps(n) = UNION {{op_log[o][o][i] : i \in 1..frontier[n][o]} : o \in Node}
  BY AppliedPrefixes
<1>4. graph[n] = Join(AppliedOps(n))
  BY <1>1, <1>2, <1>3, JoinIsJoin
<1>5. AppliedOps(n) = Abstract!Prefixes(History, frontier[n])
  BY <1>3 DEF Abstract!Prefixes, History
<1> QED BY <1>4, <1>5

\* A step that applies nothing is invisible.
LEMMA QuietRefines ==
  ASSUME UNCHANGED <<frontier, graph, op_log>>
  PROVE  UNCHANGED Abstract!absVars
BY DEF Abstract!absVars

\* What apply_ordered_op of the next operation does to the histories, the
\* frontiers and the graphs.
LEMMA ApplyEffect ==
  ASSUME NodeInv, NEW n \in Node, NEW op \in Op,
         op.counter = frontier[n][op.origin] + 1, ApplyOrderedOp(n, op)
  PROVE  /\ op.origin \in Node
         /\ frontier' = [frontier EXCEPT ![n][op.origin] = @ + 1]
         /\ op_log' = [op_log EXCEPT ![n][op.origin] = Append(@, op)]
         /\ \A m \in Node : m # n => graph'[m] = graph[m]
         /\ graph' = [graph EXCEPT ![n] = graph'[n]]
<1>1. /\ op.origin \in Node /\ frontier \in [Node -> [Node -> Nat]]
      /\ op_log \in [Node -> [Node -> Seq(Op)]] /\ graph \in [Node -> Graph]
  BY Zenon DEF NodeInv, TypeOK, Op
<1>2. frontier' = [frontier EXCEPT ![n][op.origin] = @ + 1]
  BY <1>1 DEF ApplyOrderedOp
<1>3. Len(op_log[n][op.origin]) = op.counter - 1
  BY <1>1 DEF NodeInv, OneHistory
<1>4. op_log' = [op_log EXCEPT ![n][op.origin] = Append(@, op)]
  BY <1>1, <1>3 DEF ApplyOrderedOp
<1>5. graph' = graph \/ graph' = [graph EXCEPT ![n] = UpdateGraph(@, op.key, EntryOf(op))]
  BY DEF ApplyOrderedOp, ApplyKind
<1>6. /\ graph' = [graph EXCEPT ![n] = graph'[n]]
      /\ \A m \in Node : m # n => graph'[m] = graph[m]
  BY <1>1, <1>5
<1> QED BY <1>1, <1>2, <1>4, <1>6

\* A local operation is an Emit.
LEMMA EmitRefines ==
  ASSUME NodeInv, GraphsAreJoins', NEW n \in Node,
         NEW key \in GraphKey \cup TrustKey, NEW on \in BOOLEAN, EmitLocal(n, key, on)
  PROVE  Abstract!Emit(n)
<1>1. PICK pow \in BasePow[n]..MaxPow :
        ApplyOrderedOp(n, [origin |-> n, counter |-> local_counter[n] + 1,
                           host_id |-> HostOf[n], key |-> key, on |-> on,
                           pow |-> pow])
  BY DEF EmitLocal
<1>2. PICK op : op = [origin |-> n, counter |-> local_counter[n] + 1,
                      host_id |-> HostOf[n], key |-> key, on |-> on, pow |-> pow]
  OBVIOUS
<1>3. pow \in 0..MaxPow /\ HostOf[n] \in Host /\ MaxCounter \in Nat
  <2>1. MaxPow \in Nat /\ BasePow[n] \in Nat
    BY NodeAssumption, OpsAssumption
  <2>2. pow \in 0..MaxPow
    BY <2>1
  <2> QED BY <2>2, NodeAssumption, OpsAssumption
<1>4. /\ local_counter[n] \in Nat /\ local_counter[n] < MaxCounter
      /\ local_counter[n] = frontier[n][n]
  BY DEF NodeInv, TypeOK, EmitLocal
<1>5. op \in Op
  <2>1. local_counter[n] + 1 \in 1..MaxCounter
    BY <1>3, <1>4
  <2> QED BY <1>2, <1>3, <2>1 DEF Op
<1>6. op.origin = n /\ op.counter = frontier[n][op.origin] + 1
  BY <1>2, <1>4
<1>7. /\ frontier' = [frontier EXCEPT ![n][n] = @ + 1]
      /\ op_log' = [op_log EXCEPT ![n][n] = Append(@, op)]
      /\ graph' = [graph EXCEPT ![n] = graph'[n]]
  BY <1>1, <1>2, <1>5, <1>6, ApplyEffect
<1>8. op_log \in [Node -> [Node -> Seq(Op)]] /\ Len(op_log[n][n]) = local_counter[n]
  BY <1>4 DEF NodeInv, TypeOK, OneHistory
<1>9. History' = [History EXCEPT ![n] = Append(@, op)]
  BY <1>7, <1>8, Zenon DEF History
<1>10. op = [origin |-> n, counter |-> Len(History[n]) + 1, host_id |-> HostOf[n],
             key |-> key, on |-> on, pow |-> pow]
  BY <1>2, <1>8 DEF History
<1>11. graph' = [graph EXCEPT ![n] = Join(Abstract!Prefixes(History', frontier'[n]))]
  BY <1>7 DEF GraphsAreJoins
<1>12. \E host \in Host, k \in GraphKey \cup TrustKey, b \in BOOLEAN, w \in 0..MaxPow :
         History' = [History EXCEPT ![n] = Append(@,
                      [origin |-> n, counter |-> Len(History[n]) + 1, host_id |-> host,
                       key |-> k, on |-> b, pow |-> w])]
  BY <1>3, <1>9, <1>10, Zenon
<1>13. graph' = [graph EXCEPT ![n] = Abstract!Join(Abstract!Prefixes(History', frontier'[n]))]
  BY <1>11, SameJoin, Zenon
<1> QED BY <1>7, <1>12, <1>13, SameKeys, Zenon DEF Abstract!Emit, History

\* Applying an operation of another origin is a Learn.
LEMMA RemoteApplyRefines ==
  ASSUME NodeInv, GraphsAreJoins', NEW n \in Node, NEW op \in Op, Genuine(op),
         op.counter = frontier[n][op.origin] + 1, ApplyOrderedOp(n, op)
  PROVE  Abstract!Learn(n, op.origin)
<1> DEFINE o == op.origin
<1>1. /\ o \in Node
      /\ frontier' = [frontier EXCEPT ![n][o] = @ + 1]
      /\ op_log' = [op_log EXCEPT ![n][o] = Append(@, op)]
      /\ graph' = [graph EXCEPT ![n] = graph'[n]]
  BY ApplyEffect
<1>2. /\ frontier \in [Node -> [Node -> Nat]] /\ op_log \in [Node -> [Node -> Seq(Op)]]
      /\ Len(op_log[o][o]) = frontier[o][o]
  BY <1>1 DEF NodeInv, TypeOK, OneHistory
<1>3. op.counter \in 1..frontier[o][o] /\ op.counter \in Nat
  BY EntryType DEF Genuine
<1>4. o # n
  BY <1>1, <1>2, <1>3
<1>5. History' = History
  BY <1>1, <1>2, <1>4 DEF History
<1>6. frontier'[n][o] <= Len(History[o])
  <2>1. frontier'[n][o] = op.counter
    BY <1>1, <1>2
  <2> QED BY <1>1, <1>2, <1>3, <2>1 DEF History
<1>7. graph' = [graph EXCEPT ![n] = Join(Abstract!Prefixes(History, frontier'[n]))]
  BY <1>1, <1>5 DEF GraphsAreJoins
<1>8. graph' = [graph EXCEPT ![n] = Abstract!Join(Abstract!Prefixes(History, frontier'[n]))]
  BY <1>7, SameJoin, Zenon
<1> QED BY <1>1, <1>5, <1>6, <1>8 DEF Abstract!Learn, History

\* Every step of the nodes is a step of OrderedOps or invisible.
LEMMA StepRefines ==
  ASSUME NodeInv, GraphsAreJoins', [NodeNext]_nodeVars
  PROVE  [Abstract!AbsNext]_Abstract!absVars
<1>1. CASE UNCHANGED nodeVars
  BY <1>1, QuietRefines DEF nodeVars
<1>2. CASE NodeNext
  <2>1. PICK n \in Node : \/ LocalStep(n)
                          \/ \E round \in Round, ops \in Batches : BeginBatch(n, round, ops)
                          \/ IngestStep(n)
                          \/ EndBatch(n)
    BY <1>2 DEF NodeNext
  <2>2. ASSUME NEW key \in GraphKey \cup TrustKey, NEW on \in BOOLEAN, EmitLocal(n, key, on)
        PROVE  Abstract!AbsNext
    <3>1. Abstract!Emit(n)
      BY <2>2, EmitRefines
    <3> QED BY <3>1 DEF Abstract!AbsNext
  <2>3. ASSUME NEW op \in Op, Genuine(op), op.counter = frontier[n][op.origin] + 1,
               ApplyOrderedOp(n, op)
        PROVE  Abstract!AbsNext
    <3>1. op.origin \in Node
      BY DEF Op
    <3>2. Abstract!Learn(n, op.origin)
      BY <2>3, RemoteApplyRefines
    <3> QED BY <3>1, <3>2 DEF Abstract!AbsNext
  <2>4. ASSUME NEW target \in Target, NEW on \in BOOLEAN, EmitFollow(n, target, on)
        PROVE  Abstract!AbsNext
    <3>1. <<"follow", SiteOf[n], target>> \in GraphKey
      BY NodeAssumption, OpsAssumption DEF GraphKey, FollowKey
    <3> QED BY <2>2, <2>4, <3>1 DEF EmitFollow
  <2>5. ASSUME NEW slot \in Slot, NEW on \in BOOLEAN, EmitContent(n, slot, on)
        PROVE  Abstract!AbsNext
    <3>1. <<"content", SiteOf[n], slot>> \in GraphKey
      BY NodeAssumption, OpsAssumption DEF GraphKey, ContentKey
    <3> QED BY <2>2, <2>5, <3>1 DEF EmitContent
  <2>6. ASSUME NEW origin \in TrustTarget, NEW on \in BOOLEAN, EmitTrust(n, origin, on)
        PROVE  Abstract!AbsNext
    <3>1. <<"trust", origin>> \in TrustKey
      BY NodeAssumption, OpsAssumption DEF TrustKey
    <3> QED BY <2>2, <2>6, <3>1 DEF EmitTrust
  <2>7. ASSUME NEW origins \in SUBSET Flagship, RefreshTrust(n, origins)
        PROVE  UNCHANGED Abstract!absVars
    BY <2>7, QuietRefines DEF RefreshTrust
  <2>8. CASE LocalStep(n)
    BY <2>4, <2>5, <2>6, <2>7, <2>8 DEF LocalStep
  <2>9. CASE ApplyNext(n)
    <3>1. batch[n] # <<>>
      BY <2>9 DEF ApplyNext, AtOp
    <3> QED BY <3>1, <2>3, <2>9, CurrentOp DEF ApplyNext
  <2>10. CASE Drain(n)
    <3>1. PICK op \in pending[n][Current(n).origin] :
            op.counter = frontier[n][Current(n).origin] + 1 /\ ApplyOrderedOp(n, op)
      BY <2>10 DEF Drain
    <3>2. batch[n] # <<>>
      BY <2>10 DEF Drain, NodeInv
    <3>3. Current(n).origin \in Node
      BY <3>2, CurrentOp
    <3>4. op \in Op /\ op.origin = Current(n).origin /\ Genuine(op)
      <4>1. pending[n][Current(n).origin] \in SUBSET Op
        BY <3>3 DEF NodeInv, TypeOK
      <4> QED BY <3>1, <3>3, <4>1 DEF NodeInv, ReorderBuffer
    <3> QED BY <3>1, <3>4, <2>3
  <2>11. CASE \/ \E round \in Round, ops \in Batches : BeginBatch(n, round, ops)
              \/ Reject(n) \/ IgnoreOld(n) \/ QueueReordered(n)
              \/ DrainDone(n) \/ EndBatch(n)
    <3>1. UNCHANGED <<frontier, graph, op_log>>
      BY <2>11 DEF BeginBatch, Reject, IgnoreOld, QueueReordered, DrainDone, EndBatch
    <3> QED BY <3>1, QuietRefines
  <2> QED BY <2>1, <2>8, <2>9, <2>10, <2>11 DEF IngestStep
<1> QED BY <1>1, <1>2

\* The nodes implement OrderedOps: every origin has one history, every node
\* applies it in order, and every graph is the join of what its node applied.
THEOREM NodesImplementOrderedOps == NodeSpec => ImplementsOrderedOps
<1>1. NodeInit => Abstract!AbsInit
  BY SameKeys DEF NodeInit, Abstract!AbsInit
<1>2. NodeInv /\ GraphsAreJoins' /\ [NodeNext]_nodeVars
        => [Abstract!AbsNext]_Abstract!absVars
  BY StepRefines
<1> QED BY <1>1, <1>2, NodeInvariant, InvGivesJoins, PTL
        DEF NodeSpec, ImplementsOrderedOps, Abstract!AbsSpec
=============================================================================
